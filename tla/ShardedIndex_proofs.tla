------------------------- MODULE ShardedIndex_proofs -------------------------
(***************************************************************************)
(* What an index made of shards keeps, for any number of shards, labels,   *)
(* docs, merges, sessions and crashes.                                     *)
(*                                                                         *)
(* Shape says what the variables are and what a merge has in each phase.   *)
(* Placed adds where docs may stand: under one label of one unmerged       *)
(* shard, under one label of the merged one, and in both only while the    *)
(* merge is on its way, where CopyInv accounts for what is copied and      *)
(* TakenOver for what the new shard has when its sources go.  Of docs that *)
(* an older entry shows too this says nothing: Own is the doc an entry     *)
(* shows when it is not one of them.  Waiting is about the texts in        *)
(* buffers, Death sums up the ways to die and DeathIs what they leave.     *)
(* RemovedGone, Unmerged and Cleared say what is true of docs that were    *)
(* taken out, Synced what an image has that is written anew.               *)
(***************************************************************************)
EXTENDS ShardedIndex, FiniteSetTheorems, WellFoundedInduction, TLAPS

\* The names of shards other than the one a merge makes.
Base == 0 .. MaxShard

\* The shard of a merge is being made.
Making == job.phase \in {"copyA", "copyB", "add", "copied", "flushed"}

\* What the variables are, and what a merge has in each of its phases.
Shape ==
    /\ TypeOK
    /\ Len(shards) <= MaxShard + 1
    /\ ~isOpen => shards = <<>> /\ job.phase = "no"
    /\ job.phase # "no" => Len(shards) > 1
    /\ IF Making THEN made \in ShardType /\ made.file = Tmp /\ made.free = <<>>
                 ELSE made = NoShard
    /\ job.phase \in {"installed", "removed", "dropped"} => A.file = Tmp

-----------------------------------------------------------------------------
(* Numbers and names.                                                      *)

\* A set of natural numbers that has an element has a least one.
LEMMA LeastOf ==
    ASSUME NEW S, S \subseteq Nat, S # {}
    PROVE  \E k \in S : \A n \in S : k <= n
<1>1. PICK k \in S : \A n \in S : ~(<<n, k>> \in OpToRel(<, Nat))
  BY WFMin, NatLessThanWellFounded, Zenon
<1>2. \A n \in S : ~(n < k)
  BY <1>1 DEF OpToRel
<1> QED
  BY <1>2

\* A set of places in a sequence that has an element has a greatest one.
LEMMA GreatestOf ==
    ASSUME NEW n \in Nat, NEW S, S \subseteq 1 .. n, S # {}
    PROVE  \E k \in S : \A j \in S : j <= k
<1> DEFINE T == {n - k : k \in S}
<1>0. \A k \in S : k \in Nat /\ n - k \in Nat
  OBVIOUS
<1>1. T \subseteq Nat /\ T # {}
  BY <1>0
<1> HIDE DEF T
<1>2. PICK t \in T : \A u \in T : t <= u
  BY <1>1, LeastOf
<1> USE DEF T
<1>3. PICK k \in S : t = n - k
  OBVIOUS
<1>4. \A j \in S : n - k <= n - j
  BY <1>2, <1>3
<1> QED
  BY <1>0, <1>4

\* What the bounds say of names and labels: the name of a merge is none of the others.
LEMMA NamesAre ==
    /\ Tmp \in Names /\ Tmp \notin Base /\ Base \subseteq Names /\ Names \ {Tmp} = Base
    /\ Base \subseteq Nat /\ Labels \subseteq Nat /\ Names \subseteq Int
    /\ Nothing \in Maps /\ 0 \in Labels
    /\ MaxElements \in Nat /\ MaxElements > 0 /\ MaxShard \in Nat /\ MaxLabel \in Nat
    /\ MaxDocs \in Nat /\ MaxRejected \in Nat /\ Slack \in Nat /\ MaxElements <= MaxLabel
  BY ConstantsAssumption DEF Tmp, Names, Base, Labels, Nothing, Maps

\* What an entry may show; what the lines above do not count is no doc.
LEMMA TextsAre ==
    /\ Docs \subseteq Texts /\ Docs \subseteq 1 .. MaxDocs /\ 1 .. MaxDocs \subseteq Docs
    /\ Beyond \in Texts /\ Refused \in Texts /\ Beyond \notin Docs /\ Refused \notin Docs
    /\ Beyond # Refused /\ 0 \notin Texts /\ Nothing \in EntryMaps
    /\ \A t \in Texts : t # Beyond /\ t # Refused => t \in Docs
  BY NamesAre DEF Texts, Beyond, Refused, Docs, Nothing, EntryMaps

\* discover_shards counts the names before the first that is not whole.
LEMMA DiscoveredAre ==
    \E c \in 0 .. MaxShard + 1 :
        /\ Discovered = 0 .. c - 1 /\ Cardinality(Discovered) = c
        /\ c \in Base => ~Whole(c)
<1> USE NamesAre
<1>1. CASE \A n \in Base : Whole(n)
  <2>1. Discovered = 0 .. MaxShard
    BY <1>1 DEF Discovered, Base
  <2>2. Cardinality(0 .. MaxShard) = MaxShard + 1
    BY FS_Interval
  <2>3. MaxShard + 1 \notin Base /\ (MaxShard + 1) - 1 = MaxShard
    BY DEF Base
  <2> QED
    BY <2>1, <2>2, <2>3
<1>2. CASE \E n \in Base : ~Whole(n)
  <2> DEFINE S == {n \in Base : ~Whole(n)}
  <2>1. S \subseteq Nat /\ S # {}
    BY <1>2
  <2>2. PICK c \in S : \A n \in S : c <= n
    BY <2>1, LeastOf
  <2>3. c \in 0 .. MaxShard /\ ~Whole(c) /\ \A n \in 0 .. MaxShard : n < c => Whole(n)
    BY <2>2 DEF Base
  <2>4. Discovered = 0 .. c - 1
    <3>1. ASSUME NEW n \in Discovered PROVE n \in 0 .. c - 1
      <4>1. n \in 0 .. MaxShard /\ \A k \in 0 .. n : Whole(k)
        BY DEF Discovered
      <4>2. ~(c \in 0 .. n)
        BY <4>1, <2>3
      <4> QED BY <4>1, <4>2, <2>3
    <3>2. ASSUME NEW n \in 0 .. c - 1 PROVE n \in Discovered
      BY <2>3 DEF Discovered
    <3> QED BY <3>1, <3>2
  <2>5. Cardinality(0 .. c - 1) = c
    BY <2>3, FS_Interval
  <2> QED
    BY <2>3, <2>4, <2>5
<1> QED
  BY <1>1, <1>2

-----------------------------------------------------------------------------
(* Shards.                                                                 *)

\* Labels can be counted.
LEMMA LabelsFinite == IsFiniteSet(Labels)
  BY FS_Interval, NamesAre, ConstantsAssumption DEF Labels

\* A shard that is full has a vector; one that has a vector under each label that
\* was handed out has room as long as there are labels.
LEMMA SizeIs ==
    ASSUME NEW s \in ShardType
    PROVE  /\ Size(s) \in Nat
           /\ Size(s) >= MaxElements => s.vec # Nothing
           /\ (\A l \in Labels : l < s.next => s.vec[l] # 0) /\ s.next >= MaxElements
              => Size(s) >= MaxElements
<1> USE NamesAre
<1> DEFINE S == {l \in Labels : s.vec[l] # 0}
<1>1. IsFiniteSet(S) /\ S \subseteq Labels
  BY LabelsFinite, FS_Subset
<1>2. Cardinality(S) \in Nat
  BY <1>1, FS_CardinalityType
<1>3. ASSUME s.vec = Nothing PROVE Cardinality(S) = 0
  BY <1>3, FS_EmptySet DEF Nothing
<1>4. ASSUME \A l \in Labels : l < s.next => s.vec[l] # 0, s.next >= MaxElements
      PROVE  Cardinality(S) >= MaxElements
  <2>1. 0 .. MaxElements - 1 \subseteq S
    BY <1>4 DEF Labels, ShardType
  <2>2. Cardinality(0 .. MaxElements - 1) = MaxElements
    BY FS_Interval
  <2>3. Cardinality(0 .. MaxElements - 1) <= Cardinality(S)
    BY <1>1, <2>1, FS_Subset
  <2> QED BY <2>2, <2>3, <1>2
<1> QED
  BY <1>2, <1>3, <1>4 DEF Size

\* The constructor of a shard reads its graph, and has nothing to save.
LEMMA OpenShardIs ==
    ASSUME TypeOK, NEW n \in Names, NEW cap \in Nat
    PROVE  /\ OpenShard(n, cap) \in ShardType
           /\ OpenShard(n, cap).file = n /\ OpenShard(n, cap).vec = hix[n]
           /\ OpenShard(n, cap).free = <<>> /\ OpenShard(n, cap).cap = cap
           /\ OpenShard(n, cap).next = 0 /\ ~OpenShard(n, cap).unsaved
  BY NamesAre DEF OpenShard, ShardType, TypeOK

\* A shard that was saved differs only in having nothing to save.
LEMMA SavedIs ==
    ASSUME NEW s \in ShardType
    PROVE  /\ Saved(s) \in ShardType /\ ~Saved(s).unsaved
           /\ Saved(s).file = s.file /\ Saved(s).vec = s.vec /\ Saved(s).next = s.next
           /\ Saved(s).free = s.free /\ Saved(s).cap = s.cap
  BY DEF Saved, ShardType

\* save writes under the name of its shard alone, and only when there is something new.
LEMMA SaveIs ==
    ASSUME NEW s \in ShardType, NEW h \in [Names -> Maps]
    PROVE  /\ Save(s, h) \in [Names -> Maps]
           /\ \A n \in Names : n # s.file => Save(s, h)[n] = h[n]
           /\ Save(s, h)[s.file] = IF s.unsaved THEN s.vec ELSE h[s.file]
  BY DEF Save, ShardType

\* allocate_label takes the first recycled label if there is one, or the next.
LEMMA TakeLabelIs ==
    ASSUME NEW s \in ShardType, Label(s) < MaxLabel
    PROVE  /\ Label(s) \in Labels
           /\ TakeLabel(s) \in ShardType
           /\ TakeLabel(s).file = s.file /\ TakeLabel(s).cap = s.cap
           /\ TakeLabel(s).vec = s.vec /\ TakeLabel(s).unsaved = s.unsaved
           /\ IF s.free # <<>>
              THEN /\ Label(s) = s.free[1] /\ TakeLabel(s).next = s.next
                   /\ TakeLabel(s).free = Tail(s.free)
              ELSE /\ Label(s) = s.next /\ TakeLabel(s).next = s.next + 1
                   /\ TakeLabel(s).free = <<>>
<1> USE NamesAre
<1>1. s.free \in Seq(Labels) /\ s.next \in 0 .. MaxLabel
  BY DEF ShardType
<1>2. CASE s.free # <<>>
  <2>1. Head(s.free) = s.free[1] /\ s.free[1] \in Labels /\ Tail(s.free) \in Seq(Labels)
    BY <1>1, <1>2
  <2> QED BY <1>2, <2>1 DEF Label, TakeLabel, ShardType
<1>3. CASE s.free = <<>>
  <2>1. Label(s) = s.next /\ s.next \in Labels /\ s.next + 1 \in 0 .. MaxLabel
    BY <1>1, <1>3 DEF Label, Labels
  <2> QED BY <1>3, <2>1 DEF TakeLabel, ShardType
<1> QED
  BY <1>2, <1>3

\* A chunk that is put has the label that was allocated, and nothing else changes.
LEMMA PutIs ==
    ASSUME NEW s \in ShardType, Label(s) < MaxLabel, NEW d \in 0 .. MaxDocs
    PROVE  /\ Label(s) \in Labels
           /\ Put(s, d) \in ShardType
           /\ Put(s, d).file = s.file /\ Put(s, d).cap = s.cap
           /\ Put(s, d).vec = [s.vec EXCEPT ![Label(s)] = d] /\ Put(s, d).unsaved
           /\ Put(s, d).next = TakeLabel(s).next /\ Put(s, d).free = TakeLabel(s).free
<1>1. TakeLabel(s) \in ShardType /\ Label(s) \in Labels /\ TakeLabel(s).vec = s.vec
      /\ TakeLabel(s).file = s.file /\ TakeLabel(s).cap = s.cap
  BY TakeLabelIs
<1> HIDE DEF Label, TakeLabel
<1> QED
  BY <1>1 DEF Put, ShardType, Maps

-----------------------------------------------------------------------------
(* Types.                                                                  *)

\* The open shards are as many as names allow; the shard at i has the name of its place,
\* or that of a merge.
LEMMA ShardsAre ==
    ASSUME Shape
    PROVE  /\ Len(shards) \in 0 .. MaxShard + 1 /\ shards \in Seq(ShardType)
           /\ \A i \in 1 .. Len(shards) :
                 /\ shards[i] \in ShardType /\ i - 1 \in Base
                 /\ shards[i].file \in {i - 1, Tmp}
           /\ shards # <<>> => Len(shards) \in 1 .. MaxShard + 1 /\ Last \in ShardType
           /\ Len(shards) > 1 =>
                 /\ First \in Base /\ First >= 1 /\ First + 1 = Len(shards)
                 /\ A = shards[First] /\ B = shards[First + 1]
                 /\ A \in ShardType /\ B \in ShardType
<1> USE NamesAre
<1>1. shards \in Seq(ShardType) /\ Len(shards) \in Nat /\ Len(shards) <= MaxShard + 1
  BY DEF Shape, TypeOK
<1>2. \A i \in 1 .. Len(shards) :
        shards[i] \in ShardType /\ i - 1 \in Base /\ shards[i].file \in {i - 1, Tmp}
  BY <1>1 DEF Shape, TypeOK, Base
<1>3. shards # <<>> => Len(shards) > 0
  BY <1>1
<1> QED
  BY <1>1, <1>2, <1>3 DEF Last, First, A, B, Base

\* Where append puts a chunk: the last shard, or the next one.
LEMMA CurrentIs ==
    ASSUME Shape, Appending
    PROVE  /\ shards # <<>> /\ job.phase = "no" /\ isOpen
           /\ Current \in ShardType
           /\ Full => Len(shards) \in Base /\ Current = OpenShard(Len(shards), MaxElements)
                      /\ Current.file = Len(shards) /\ Last.vec # Nothing
           /\ ~Full => Current = Last /\ Current = shards[Len(shards)]
           /\ Current.file \in Names
<1> USE NamesAre, ShardsAre
<1>1. shards # <<>> /\ job.phase = "no" /\ isOpen /\ Last \in ShardType /\ TypeOK
  BY DEF Appending, Idle, Shape
<1>2. CASE Full
  <2>1. Len(shards) \in Base
    BY <1>1, <1>2 DEF Appending, Base
  <2>2. Last.vec # Nothing
    BY <1>1, <1>2, SizeIs DEF Full
  <2> QED
    BY <1>1, <1>2, <2>1, <2>2, OpenShardIs DEF Current
<1>3. CASE ~Full
  BY <1>1, <1>3 DEF Current, Last, ShardType
<1> QED
  BY <1>1, <1>2, <1>3

\* What current_shard and what follows leave of the list of shards.
LEMMA RollIs ==
    ASSUME Shape, Appending, NEW s \in ShardType, s.file = Current.file, Roll(s)
    PROVE  /\ shards' \in Seq(ShardType) /\ Len(shards') \in 1 .. MaxShard + 1
           /\ shards'[Len(shards')] = s /\ s.file \in {Len(shards') - 1, Tmp}
           /\ \A i \in 1 .. Len(shards') :
                 i # Len(shards') => i \in 1 .. Len(shards) /\ shards'[i] = shards[i]
           /\ Full => /\ Len(shards') = Len(shards) + 1 /\ sets' = sets \cup {Len(shards)}
                      /\ rolls' = rolls + 1 /\ Len(shards) \in 1 .. MaxShard
                      /\ shards'[Len(shards)] = Last
           /\ ~Full => Len(shards') = Len(shards) /\ sets' = sets /\ rolls' = rolls
           /\ shards' # <<>>
<1> USE NamesAre, ShardsAre
<1>1. shards # <<>> /\ Len(shards) \in 1 .. MaxShard + 1 /\ shards \in Seq(ShardType)
  BY CurrentIs
<1>2. CASE Full
  <2>1. shards' = Append(shards, s) /\ sets' = sets \cup {Len(shards)} /\ rolls' = rolls + 1
    BY <1>2 DEF Roll
  <2>2. Len(shards) \in Base /\ s.file = Len(shards)
    BY <1>2, CurrentIs
  <2> HIDE DEF Full
  <2>3. Len(shards') = Len(shards) + 1 /\ shards' \in Seq(ShardType) /\ shards'[Len(shards')] = s
        /\ \A i \in 1 .. Len(shards) : shards'[i] = shards[i]
    BY <1>1, <2>1
  <2>4. \A i \in 1 .. Len(shards') : i # Len(shards') => i \in 1 .. Len(shards)
    BY <1>1, <2>3
  <2>5. shards'[Len(shards)] = Last /\ Len(shards') - 1 = Len(shards)
    BY <1>1, <2>3 DEF Last
  <2>6. Len(shards) \in 1 .. MaxShard /\ Len(shards') \in 1 .. MaxShard + 1 /\ shards' # <<>>
    BY <1>1, <2>2, <2>3 DEF Base
  <2> QED
    BY <1>2, <2>1, <2>2, <2>3, <2>4, <2>5, <2>6
<1>3. CASE ~Full
  <2>1. shards' = SetLast(s) /\ sets' = sets /\ rolls' = rolls
    BY <1>3 DEF Roll
  <2>2. s.file = shards[Len(shards)].file
    BY <1>3, CurrentIs
  <2>3. shards' = [shards EXCEPT ![Len(shards)] = s]
    BY <2>1 DEF SetLast
  <2>4. Len(shards') = Len(shards) /\ shards' \in Seq(ShardType) /\ shards'[Len(shards')] = s
        /\ \A i \in 1 .. Len(shards) : i # Len(shards) => shards'[i] = shards[i]
    BY <1>1, <2>3
  <2> QED
    BY <1>1, <1>3, <2>1, <2>2, <2>4
<1> QED
  BY <1>2, <1>3

\* A chunk that is stored: in the shard it goes to and in its entry.
LEMMA AppendIs ==
    ASSUME Shape, AppendChunk
    PROVE  /\ Appending /\ docs < MaxDocs /\ docs' = docs + 1 /\ docs' \in 1 .. MaxDocs
           /\ Current \in ShardType /\ Label(Current) \in Labels /\ HasLabel(Current)
           /\ Current.file \in Names /\ StoreText(Current.file, {Label(Current)}, docs', unwritten)
           /\ shared' \in {shared, shared \cup {docs'}}
           /\ (\E l \in Labels \ {Label(Current)} : obn[Current.file][l] = Beyond)
              => shared' = shared \cup {docs'}
           /\ \E s \in ShardType :
                 /\ s.file = Current.file /\ s.cap = Current.cap
                 /\ s.vec = [Current.vec EXCEPT ![Label(Current)] = docs']
                 /\ s.next = TakeLabel(Current).next /\ s.free = TakeLabel(Current).free
                 /\ Roll(s)
                 /\ \/ s.unsaved /\ hix' = hix
                    \/ ~s.unsaved /\ hix' = [hix EXCEPT ![s.file] = s.vec]
           /\ UNCHANGED <<isOpen, tuners, cuts, mergeVars, rejected, removed, cleared, sessions, crashes, merging>>
<1>1. Appending /\ docs < MaxDocs /\ docs' = docs + 1 /\ HasLabel(Current) /\ Label(Current) < MaxLabel
      /\ UNCHANGED <<isOpen, tuners, cuts, mergeVars, rejected, removed, cleared, sessions, crashes, merging>>
  BY DEF AppendChunk
<1>2. Current \in ShardType /\ Label(Current) \in Labels
  BY <1>1, CurrentIs, TakeLabelIs
<1>3. docs \in Nat /\ docs' \in 1 .. MaxDocs /\ docs' \in 0 .. MaxDocs
  BY <1>1, NamesAre DEF Shape, TypeOK
<1> DEFINE c == Current
           s == Put(c, docs')
<1>4. /\ s \in ShardType /\ s.file = c.file /\ s.cap = c.cap
      /\ s.vec = [c.vec EXCEPT ![Label(c)] = docs'] /\ s.unsaved
      /\ s.next = TakeLabel(c).next /\ s.free = TakeLabel(c).free
  BY <1>1, <1>2, <1>3, PutIs
<1>5. /\ \/ Roll(s) /\ UNCHANGED hix
         \/ Roll(Saved(s)) /\ hix' = Save(s, hix)
      /\ StoreText(s.file, {Label(c)}, docs', unwritten)
      /\ shared' = IF Shows(s.file, {}) \subseteq {Label(c)} THEN shared ELSE shared \cup {docs'}
  BY DEF AppendChunk
<1> HIDE DEF s, c
<1>6. Saved(s) \in ShardType /\ ~Saved(s).unsaved /\ Saved(s).file = s.file /\ Saved(s).vec = s.vec
      /\ Saved(s).next = s.next /\ Saved(s).free = s.free /\ Saved(s).cap = s.cap
  BY <1>4, SavedIs
<1>7. Save(s, hix) = [hix EXCEPT ![Saved(s).file] = Saved(s).vec]
  BY <1>4, <1>6 DEF Save
<1>8. \E t \in ShardType :
          /\ t.file = c.file /\ t.cap = c.cap
          /\ t.vec = [c.vec EXCEPT ![Label(c)] = docs']
          /\ t.next = TakeLabel(c).next /\ t.free = TakeLabel(c).free
          /\ Roll(t)
          /\ \/ t.unsaved /\ hix' = hix
             \/ ~t.unsaved /\ hix' = [hix EXCEPT ![t.file] = t.vec]
  BY <1>4, <1>5, <1>6, <1>7
<1>9. /\ StoreText(c.file, {Label(c)}, docs', unwritten) /\ shared' \in {shared, shared \cup {docs'}}
      /\ (\E l \in Labels \ {Label(c)} : obn[c.file][l] = Beyond) => shared' = shared \cup {docs'}
  <2>1. shared' = IF Shows(c.file, {}) \subseteq {Label(c)} THEN shared ELSE shared \cup {docs'}
    BY <1>4, <1>5
  <2>2. StoreText(c.file, {Label(c)}, docs', unwritten)
    BY <1>4, <1>5
  <2>3. \A l \in Labels : obn[c.file][l] = Beyond => l \in Shows(c.file, {})
    BY DEF Shows
  <2> QED BY <2>1, <2>2, <2>3
<1>10. Current.file \in Names
  BY <1>1, CurrentIs
<1> QED
  BY <1>1, <1>2, <1>3, <1>8, <1>9, <1>10 DEF c

\* remove: the entry goes, the label is free, the vector stays.
LEMMA RemoveIs ==
    ASSUME Shape, NEW i \in 1 .. Len(shards), NEW l \in Labels, Remove(i, l)
    PROVE  /\ Idle /\ shards[i].vec[l] # 0 /\ Entry(shards[i], l) # 0
           /\ Len(shards') = Len(shards) /\ shards' \in Seq(ShardType)
           /\ \A j \in 1 .. Len(shards) :
                 /\ j # i => shards'[j] = shards[j]
                 /\ shards'[j].file = shards[j].file /\ shards'[j].vec = shards[j].vec
                 /\ shards'[j].next = shards[j].next /\ shards'[j].cap = shards[j].cap
           /\ shards'[i].free = Append(shards[i].free, l)
           /\ \/ shards'[i].unsaved = shards[i].unsaved /\ hix' = hix
              \/ ~shards'[i].unsaved /\ hix' = Save(shards[i], hix)
           /\ obn' = [obn EXCEPT ![shards[i].file][l] = 0]
           /\ unwritten' = [unwritten EXCEPT ![shards[i].file] = @ \ {l}]
           /\ removed' = removed \cup (({Entry(shards[i], l)} \cap Docs) \X {shards[i].file})
           /\ UNCHANGED <<isOpen, tuners, sets, cuts, mergeVars, docs, rejected, cleared, shared, session, merging>>
<1>1. shards \in Seq(ShardType) /\ shards[i] \in ShardType
  BY ShardsAre
<1> DEFINE s == [shards[i] EXCEPT !.free = Append(@, l)]
<1>2. /\ s \in ShardType /\ s.file = shards[i].file /\ s.vec = shards[i].vec
      /\ s.next = shards[i].next /\ s.cap = shards[i].cap /\ s.unsaved = shards[i].unsaved
      /\ s.free = Append(shards[i].free, l)
  <2>1. shards[i].free \in Seq(Labels) /\ Append(shards[i].free, l) \in Seq(Labels)
    BY <1>1 DEF ShardType
  <2> QED
    BY <1>1, <2>1 DEF ShardType
<1>3. \/ shards' = [shards EXCEPT ![i] = s] /\ UNCHANGED hix
      \/ shards' = [shards EXCEPT ![i] = Saved(s)] /\ hix' = Save(s, hix)
  BY DEF Remove
<1> HIDE DEF s
<1>4. PICK t \in ShardType :
         /\ shards' = [shards EXCEPT ![i] = t]
         /\ t.file = s.file /\ t.vec = s.vec /\ t.next = s.next /\ t.cap = s.cap /\ t.free = s.free
         /\ \/ t.unsaved = s.unsaved /\ hix' = hix
            \/ ~t.unsaved /\ hix' = Save(s, hix)
  BY <1>2, <1>3, SavedIs
<1>5. Save(s, hix) = Save(shards[i], hix)
  BY <1>2 DEF Save
<1>6. Len(shards') = Len(shards) /\ shards' \in Seq(ShardType) /\ shards'[i] = t
      /\ \A j \in 1 .. Len(shards) : j # i => shards'[j] = shards[j]
  BY <1>1, <1>4
<1> QED
  BY <1>2, <1>4, <1>5, <1>6 DEF Remove, ZeroEntry

\* What a flush of the first k shards writes.
LEMMA SaveToIs ==
    ASSUME Shape, NEW k \in 0 .. Len(shards)
    PROVE  /\ SaveTo(k) \in [Names -> Maps]
           /\ \A n \in Names : SaveTo(k)[n] = hix[n] \/
                 \E i \in 1 .. Len(shards) :
                    shards[i].file = n /\ shards[i].unsaved /\ SaveTo(k)[n] = shards[i].vec
           /\ \A i \in 1 .. k : shards[i].unsaved =>
                 \E j \in 1 .. k :
                    /\ shards[j].file = shards[i].file /\ shards[j].unsaved
                    /\ SaveTo(k)[shards[i].file] = shards[j].vec
<1> USE ShardsAre
<1>0. k \in Nat /\ 1 .. k \subseteq 1 .. Len(shards)
  OBVIOUS
<1>1. hix \in [Names -> Maps]
  BY DEF Shape, TypeOK
<1>2. ASSUME NEW n \in Names, Unsaved(n, k) # {}
      PROVE  /\ LastUnsaved(n, k) \in 1 .. k /\ shards[LastUnsaved(n, k)].file = n
             /\ shards[LastUnsaved(n, k)].unsaved
  <2>1. Unsaved(n, k) \subseteq 1 .. k
    BY DEF Unsaved
  <2>2. \E i \in Unsaved(n, k) : \A j \in Unsaved(n, k) : j <= i
    BY <1>0, <1>2, <2>1, GreatestOf
  <2>3. LastUnsaved(n, k) \in Unsaved(n, k)
    BY <2>2 DEF LastUnsaved
  <2> QED
    BY <2>3 DEF Unsaved
<1> HIDE DEF LastUnsaved
<1>3. \A i \in 1 .. Len(shards) : shards[i].vec \in Maps /\ shards[i].file \in Names
  BY DEF ShardType
<1>4. \A i \in 1 .. k : shards[i].unsaved => Unsaved(shards[i].file, k) # {}
  BY DEF Unsaved
<1> QED
  BY <1>0, <1>1, <1>2, <1>3, <1>4 DEF SaveTo

\* What a flush of every shard writes.
LEMMA SaveAllIs ==
    ASSUME Shape
    PROVE  /\ SaveAll \in [Names -> Maps]
           /\ \A n \in Names : SaveAll[n] = hix[n] \/
                 \E i \in 1 .. Len(shards) :
                    shards[i].file = n /\ shards[i].unsaved /\ SaveAll[n] = shards[i].vec
           /\ \A i \in 1 .. Len(shards) : shards[i].unsaved =>
                 \E j \in 1 .. Len(shards) :
                    /\ shards[j].file = shards[i].file /\ shards[j].unsaved
                    /\ SaveAll[shards[i].file] = shards[j].vec
<1>1. Len(shards) \in 0 .. Len(shards)
  BY ShardsAre
<1> QED
  BY <1>1, SaveToIs DEF SaveAll

-----------------------------------------------------------------------------
(* Steps of one shard.                                                     *)

\* A merge takes the last two shards.
LEMMA FirstIs ==
    ASSUME Shape, Len(shards) > 1
    PROVE  First \in Nat /\ First \in 1 .. Len(shards) /\ First + 1 \in 1 .. Len(shards)
           /\ First + 1 = Len(shards)
<1>1. Len(shards) \in Nat
  BY ShardsAre
<1> QED
  BY <1>1 DEF First

\* The names of a merge.
LEMMA MakingIs ==
    ASSUME Shape, Making
    PROVE  /\ made \in ShardType /\ made.file = Tmp /\ made.free = <<>>
           /\ isOpen /\ Len(shards) > 1 /\ made.vec \in Maps /\ made.next \in 0 .. MaxLabel
  BY DEF Shape, Making, ShardType

\* What FileSentenceStore::append leaves: the text in its own entries, and in those that
\* name the end of the file.
Stored(n, own, d) ==
    /\ obn' \in [Names -> EntryMaps] /\ unwritten' \in [Names -> SUBSET Labels]
    /\ \A m \in Names : m # n => obn'[m] = obn[m]
    /\ \A l \in Labels :
          obn'[n][l] = IF l \in own \/ obn[n][l] = Beyond THEN d ELSE obn[n][l]

\* It leaves just that.
LEMMA StoreTextIs ==
    ASSUME TextsOK, NEW n \in Names, NEW own, own \subseteq Labels, NEW d \in Texts,
           NEW w, w \in [Names -> SUBSET Labels], StoreText(n, own, d, w)
    PROVE  Stored(n, own, d)
<1>1. obn \in [Names -> EntryMaps]
  BY DEF TextsOK
<1>2. obn' = [obn EXCEPT ![n] = [l \in Labels |-> IF l \in Shows(n, own) THEN d ELSE obn[n][l]]]
      /\ \E left \in {{}, Shows(n, own)} : unwritten' = [w EXCEPT ![n] = left]
  BY DEF StoreText
<1>3. Shows(n, own) \subseteq Labels
  BY DEF Shows
<1>4. unwritten' \in [Names -> SUBSET Labels]
  BY <1>2, <1>3
<1>5. \A l \in Labels : l \in Shows(n, own) <=> l \in own \/ obn[n][l] = Beyond
  BY DEF Shows
<1>6. \A l \in Labels : obn'[n][l] = IF l \in Shows(n, own) THEN d ELSE obn[n][l]
  BY <1>1, <1>2
<1>7. obn' \in [Names -> EntryMaps] /\ \A m \in Names : m # n => obn'[m] = obn[m]
  <2> DEFINE f == [l \in Labels |-> IF l \in Shows(n, own) THEN d ELSE obn[n][l]]
  <2>1. f \in EntryMaps
    BY <1>1 DEF EntryMaps
  <2>2. obn' = [obn EXCEPT ![n] = f]
    BY <1>2
  <2> HIDE DEF f
  <2> QED BY <1>1, <2>1, <2>2
<1> QED
  BY <1>4, <1>5, <1>6, <1>7 DEF Stored

\* A buffer that is written out holds no text.
LEMMA WrittenOutIs ==
    ASSUME TextsOK, NEW ns
    PROVE  /\ WrittenOut(ns) \in [Names -> SUBSET Labels]
           /\ \A n \in Names : WrittenOut(ns)[n] = IF n \in ns THEN {} ELSE unwritten[n]
  BY DEF TextsOK, WrittenOut

\* A text that is added to the shard a merge makes, or is refused there.
LEMMA AddIs ==
    ASSUME Shape, Making, NEW d \in Texts, NEW w, w \in [Names -> SUBSET Labels], Add(d, w)
    PROVE  /\ made.next \in Labels /\ d # Beyond
           /\ StoreText(Tmp, IF d = Refused THEN {} ELSE {made.next}, d, w)
           /\ obn' \in [Names -> EntryMaps] /\ unwritten' \in [Names -> SUBSET Labels]
           /\ \A n \in Base : obn'[n] = obn[n]
           /\ \A l \in Labels :
                 obn'[Tmp][l] = IF (d # Refused /\ l = made.next) \/ obn[Tmp][l] = Beyond
                                THEN d ELSE obn[Tmp][l]
           /\ made' \in ShardType /\ made'.file = Tmp /\ made'.free = <<>>
           /\ made'.vec = IF d = Refused THEN made.vec ELSE [made.vec EXCEPT ![made.next] = d]
           /\ made'.next = made.next + 1
           /\ hix' \in [Names -> Maps] /\ \A n \in Base : hix'[n] = hix[n]
<1> USE NamesAre
<1>1. /\ made \in ShardType /\ made.file = Tmp /\ made.free = <<>>
      /\ made.next \in 0 .. MaxLabel /\ hix \in [Names -> Maps] /\ TextsOK
  BY MakingIs DEF Shape, TypeOK
<1>2. made.next < MaxLabel
  BY DEF Add
<1>3. made.next \in Labels
  BY <1>1, <1>2 DEF Labels
<1>4. Label(made) = made.next
  BY <1>1 DEF Label
<1>5. ASSUME StoreText(Tmp, IF d = Refused THEN {} ELSE {made.next}, d, w)
      PROVE  /\ obn' \in [Names -> EntryMaps] /\ unwritten' \in [Names -> SUBSET Labels]
             /\ \A n \in Base : obn'[n] = obn[n]
             /\ \A l \in Labels :
                   obn'[Tmp][l] = IF (d # Refused /\ l = made.next) \/ obn[Tmp][l] = Beyond
                                  THEN d ELSE obn[Tmp][l]
  <2> DEFINE own == IF d = Refused THEN {} ELSE {made.next}
  <2>1. own \subseteq Labels /\ \A l \in Labels : l \in own <=> d # Refused /\ l = made.next
    BY <1>3
  <2>2. StoreText(Tmp, own, d, w)
    BY <1>5
  <2> HIDE DEF own
  <2>3. /\ obn' \in [Names -> EntryMaps] /\ unwritten' \in [Names -> SUBSET Labels]
        /\ \A m \in Names : m # Tmp => obn'[m] = obn[m]
        /\ \A l \in Labels :
              obn'[Tmp][l] = IF l \in own \/ obn[Tmp][l] = Beyond THEN d ELSE obn[Tmp][l]
    <3>1. Stored(Tmp, own, d)
      BY <1>1, <2>1, <2>2, StoreTextIs
    <3> QED BY <3>1 DEF Stored
  <2> QED
    BY <2>1, <2>3
<1>6. CASE d # Refused
  <2> DEFINE s == Put(made, d)
  <2>0. d \in Docs /\ StoreText(Tmp, {made.next}, d, w)
        /\ \/ made' = s /\ UNCHANGED hix
           \/ made' = Saved(s) /\ hix' = Save(s, hix)
    <3> HIDE DEF s
    <3>1. \/ d \in Docs /\ StoreText(Tmp, {made.next}, d, w)
             /\ \/ made' = Put(made, d) /\ UNCHANGED hix
                \/ made' = Saved(Put(made, d)) /\ hix' = Save(Put(made, d), hix)
          \/ d = Refused
      BY Zenon DEF Add
    <3> QED BY <1>6, <3>1 DEF s
  <2>1. d \in 0 .. MaxDocs /\ d # Beyond /\ StoreText(Tmp, IF d = Refused THEN {} ELSE {made.next}, d, w)
    BY <1>6, <2>0, TextsAre
  <2>2. /\ s \in ShardType /\ s.file = Tmp /\ s.free = <<>> /\ s.unsaved
        /\ s.vec = [made.vec EXCEPT ![made.next] = d] /\ s.next = made.next + 1
    BY <1>1, <1>2, <1>4, <2>1, PutIs, TakeLabelIs
  <2> HIDE DEF s
  <2>3. /\ made' \in ShardType /\ made'.file = Tmp /\ made'.free = <<>>
        /\ made'.vec = s.vec /\ made'.next = s.next
    BY <2>0, <2>2, SavedIs
  <2>4. hix' \in [Names -> Maps] /\ \A n \in Base : hix'[n] = hix[n]
    BY <1>1, <2>0, <2>2, SaveIs
  <2> QED
    BY <1>3, <1>5, <1>6, <2>1, <2>2, <2>3, <2>4
<1>7. CASE d = Refused
  <2>0. d \notin Docs /\ d # Beyond
    BY <1>7, TextsAre
  <2>1. StoreText(Tmp, {}, d, w) /\ made' = TakeLabel(made) /\ UNCHANGED hix
    BY <2>0 DEF Add
  <2>2. StoreText(Tmp, IF d = Refused THEN {} ELSE {made.next}, d, w)
    BY <1>7, <2>1
  <2>3. /\ made' \in ShardType /\ made'.file = Tmp /\ made'.free = <<>>
        /\ made'.vec = made.vec /\ made'.next = made.next + 1
    BY <1>1, <1>2, <1>4, <2>1, TakeLabelIs
  <2> QED
    BY <1>1, <1>3, <1>5, <1>7, <2>0, <2>1, <2>2, <2>3
<1> QED
  BY <1>6, <1>7

\* What stands under a label of an open shard is a text, or nothing.
LEMMA EntryIs ==
    ASSUME Shape, NEW i \in 1 .. Len(shards), NEW l \in Labels
    PROVE  /\ Entry(shards[i], l) = obn[shards[i].file][l] /\ shards[i].file \in Names
           /\ Entry(shards[i], l) \in Texts \cup {0}
<1>1. shards[i] \in ShardType /\ obn \in [Names -> EntryMaps]
  BY ShardsAre DEF Shape, TypeOK, TextsOK
<1>2. shards[i].file \in Names
  BY <1>1 DEF ShardType
<1>3. obn[shards[i].file][l] \in Texts \cup {0}
  BY <1>1, <1>2 DEF EntryMaps
<1> QED
  BY <1>2, <1>3 DEF Entry

\* The next text that a serial merge copies.
LEMMA NextLabelIs ==
    ASSUME Shape, Reading, Ahead # {}
    PROVE  /\ NextLabel \in Labels /\ NextLabel >= job.at /\ Entry(Source, NextLabel) \in Texts
           /\ \A l \in Labels : l >= job.at /\ l < NextLabel /\ l < Source.cap
                                => Entry(Source, l) = 0
           /\ Source \in {A, B} /\ Source.file \in Names /\ Making
<1> USE NamesAre
<1>1. Ahead \subseteq Labels /\ Ahead \subseteq Nat
  BY DEF Ahead
<1>2. \E k \in Ahead : \A l \in Ahead : k <= l
  BY <1>1, LeastOf
<1>3. NextLabel \in Ahead /\ \A l \in Ahead : NextLabel <= l
  BY <1>2 DEF NextLabel
<1>4. job.phase \in {"copyA", "copyB"} /\ Making /\ Len(shards) > 1
  BY DEF Reading, Making, Shape
<1>5. Source \in {A, B} /\ A = shards[First] /\ B = shards[First + 1]
      /\ First \in 1 .. Len(shards) /\ First + 1 \in 1 .. Len(shards)
  <2>1. Source \in {A, B}
    BY DEF Source
  <2>2. A = shards[First] /\ B = shards[First + 1]
    BY <1>4, ShardsAre
  <2>3. First \in 1 .. Len(shards) /\ First + 1 \in 1 .. Len(shards)
    BY <1>4, FirstIs
  <2> QED BY <2>1, <2>2, <2>3
<1>6. \A l \in Labels : Source.file \in Names /\ (Entry(Source, l) # 0 => Entry(Source, l) \in Texts)
  BY <1>5, EntryIs
<1>7. /\ NextLabel \in Labels /\ NextLabel >= job.at /\ Entry(Source, NextLabel) \in Texts
      /\ \A l \in Labels : l >= job.at /\ l < NextLabel /\ l < Source.cap => Entry(Source, l) = 0
      /\ Source.file \in Names
  <2>1. NextLabel \in Labels /\ NextLabel >= job.at /\ Entry(Source, NextLabel) # 0
    BY <1>3 DEF Ahead
  <2>2. ASSUME NEW l \in Labels, l >= job.at, l < NextLabel, l < Source.cap, Entry(Source, l) # 0
        PROVE  FALSE
    <3>1. l \in Ahead
      BY <2>2 DEF Ahead
    <3> QED BY <3>1, <1>3, <2>2, <2>1
  <2> QED BY <2>1, <2>2, <1>6
<1> QED
  BY <1>4, <1>5, <1>7

\* The texts a merge has collected.
LEMMA CollectedIs ==
    ASSUME Shape, Len(shards) > 1
    PROVE  /\ Collected \subseteq (1 .. MaxShard + 1) \X Labels \X Texts
           /\ \A t \in Collected : t[1] \in {First, First + 1} /\ t[2] \in Labels /\ t[3] = Entry(shards[t[1]], t[2])
           /\ \A p \in {First, First + 1}, l \in Labels :
                 l < shards[p].cap /\ Entry(shards[p], l) # 0 => <<p, l, Entry(shards[p], l)>> \in Collected
<1>1. First \in 1 .. Len(shards) /\ First + 1 \in 1 .. Len(shards) /\ Len(shards) <= MaxShard + 1
      /\ Len(shards) \in Nat /\ First \in Nat
  BY ShardsAre, FirstIs
<1>2. \A p \in {First, First + 1} :
        p \in 1 .. MaxShard + 1
        /\ \A l \in Labels : Entry(shards[p], l) # 0 => Entry(shards[p], l) \in Texts
  BY <1>1, EntryIs, NamesAre
<1> QED
  BY <1>1, <1>2 DEF Collected, Entries

\* What the two threads put in one vector is some of what the shards have, and no more.
LEMMA GatheredIs == \A S \in Gathered : S \subseteq Collected
BY DEF Gathered

-----------------------------------------------------------------------------
(* Deaths, and what a step leaves of the texts.                            *)

\* What a death leaves.
LEMMA DiesIs ==
    ASSUME Shape, NEW h \in [Names -> Maps], NEW out, Dies(h, out)
    PROVE  /\ ~isOpen' /\ shards' = <<>> /\ tuners' = 0 /\ hix' = h
           /\ job' = NoJob /\ made' = NoShard /\ items' = {}
           /\ crashes' = crashes + 1 /\ mislaid' = {}
           /\ UNCHANGED <<sets, history, sessions, rolls, folds, merges, reused>>
           /\ obn' \in [Names -> EntryMaps]
           /\ \A n \in Names, l \in Labels :
                 obn'[n][l] = IF n \notin out /\ l \in unwritten[n] THEN Beyond ELSE obn[n][l]
           /\ unwritten' \in [Names -> SUBSET Labels] /\ \A n \in Names : unwritten'[n] = {}
<1>1. obn \in [Names -> EntryMaps] /\ Beyond \in Texts
  BY TextsAre DEF Shape, TypeOK, TextsOK
<1>2. obn' = [n \in Names |-> [l \in Labels |->
                 IF n \notin out /\ l \in unwritten[n] THEN Beyond ELSE obn[n][l]]]
  BY DEF Dies
<1>3. \A n \in Names, l \in Labels :
         obn'[n][l] = IF n \notin out /\ l \in unwritten[n] THEN Beyond ELSE obn[n][l]
  BY <1>2
<1>4. obn' \in [Names -> EntryMaps]
  <2>1. \A n \in Names, l \in Labels : obn[n][l] \in Texts \cup {0}
    BY <1>1 DEF EntryMaps
  <2>2. \A n \in Names, l \in Labels :
           (IF n \notin out /\ l \in unwritten[n] THEN Beyond ELSE obn[n][l]) \in Texts \cup {0}
    BY <1>1, <2>1
  <2> QED BY <1>2, <2>2 DEF EntryMaps
<1>5. unwritten' = [n \in Names |-> {}]
  BY DEF Dies
<1> QED
  BY <1>3, <1>4, <1>5 DEF Dies

\* The steps that end the process.
Death ==
    \/ Crash \/ SearchFaults \/ AddOverflows \/ AddFaults \/ CrashInMerge
    \/ \E k \in 1 .. Len(shards) : CrashInSave(k)

\* In each of them the process dies with some graphs saved, and with the image of one
\* name at most cut off.
LEMMA DeathDies ==
    ASSUME Shape, Death
    PROVE  isOpen /\ \E h \in [Names -> Maps], out \in {{}, {A.file}, {B.file}, {Source.file, Tmp}} \cup
                        {FilesTo(k) : k \in 0 .. Len(shards)} :
              Dies(h, out) /\ blank' \subseteq Names /\ torn' \subseteq Names
                           /\ blank \subseteq blank' /\ torn \subseteq torn'
<1> USE NamesAre
<1>1. hix \in [Names -> Maps] /\ blank \subseteq Names /\ torn \subseteq Names /\ isOpen \in BOOLEAN
  BY DEF Shape, TypeOK, TextsOK
<1> DEFINE Outs == {{}, {A.file}, {B.file}, {Source.file, Tmp}} \cup {FilesTo(k) : k \in 0 .. Len(shards)}
           Ends == \E h \in [Names -> Maps], out \in Outs :
                      Dies(h, out) /\ blank' \subseteq Names /\ torn' \subseteq Names
                                   /\ blank \subseteq blank' /\ torn \subseteq torn'
<1>2. ASSUME NEW h \in [Names -> Maps], NEW out \in Outs, DiesOutside(h, out) PROVE Ends
  BY <1>1, <1>2 DEF DiesOutside, cuts
<1>3. ASSUME NEW h \in [Names -> Maps], NEW out \in Outs, NEW s, s.file \in Names, DiesInSave(s, h, out)
      PROVE  Ends
  <2>1. [h EXCEPT ![s.file] = Nothing] \in [Names -> Maps]
    BY <1>3
  <2>2. Dies([h EXCEPT ![s.file] = Nothing], out) /\ blank' \subseteq Names /\ torn' \subseteq Names
        /\ blank \subseteq blank' /\ torn \subseteq torn'
    BY <1>1, <1>3 DEF DiesInSave
  <2> QED BY <2>1, <2>2
<1>4. {} \in Outs /\ {A.file} \in Outs /\ {B.file} \in Outs /\ {Source.file, Tmp} \in Outs
      /\ \A k \in 0 .. Len(shards) : FilesTo(k) \in Outs
  OBVIOUS
<1> HIDE DEF Outs, Ends
<1>5. ASSUME Making PROVE made.file \in Names /\ isOpen
  BY <1>5, MakingIs
<1>6. CASE Crash \/ SearchFaults
  BY <1>1, <1>2, <1>4, <1>6 DEF Crash, SearchFaults, Idle, Ends, Outs
<1>7. CASE AddOverflows \/ AddFaults
  <2>1. Making /\ (DiesOutside(hix, {}) \/ DiesInSave(made, hix, {}))
    BY <1>7 DEF AddOverflows, AddFaults, DiesAdding, Making
  <2> QED BY <1>1, <1>2, <1>3, <1>4, <1>5, <2>1 DEF Ends, Outs
<1>8. CASE CrashInMerge
  <2>1. CASE (Reading \/ job.phase \in {"add", "copied"}) /\ DiesInSave(made, hix, {})
    <3>1. Making
      BY <2>1 DEF Reading, Making
    <3> QED BY <1>1, <1>3, <1>4, <1>5, <2>1, <3>1 DEF Ends, Outs
  <2>2. CASE Overflows /\ DiesInSave(made, hix, {Source.file, Tmp})
    <3>1. Making
      BY <2>2 DEF Overflows, Reading, Making
    <3> QED BY <1>1, <1>3, <1>4, <1>5, <2>2, <3>1 DEF Ends, Outs
  <2>3. CASE job.phase = "flushed" /\ (DiesInSave(A, hix, {A.file}) \/ DiesOutside(hix, {A.file}))
    <3>1. isOpen /\ Len(shards) > 1
      BY <2>3 DEF Shape
    <3>2. A.file \in Names
      BY <3>1, ShardsAre DEF ShardType
    <3> QED BY <1>1, <1>2, <1>3, <1>4, <2>3, <3>1, <3>2 DEF Ends, Outs
  <2>4. CASE job.phase = "dropped" /\ (DiesInSave(B, hix, {B.file}) \/ DiesOutside(hix, {B.file}))
    <3>1. isOpen /\ Len(shards) > 1
      BY <2>4 DEF Shape
    <3>2. B.file \in Names
      BY <3>1, ShardsAre DEF ShardType
    <3> QED BY <1>1, <1>2, <1>3, <1>4, <2>4, <3>1, <3>2 DEF Ends, Outs
  <2> QED BY <1>8, <2>1, <2>2, <2>3, <2>4 DEF CrashInMerge
<1>9. ASSUME NEW k \in 1 .. Len(shards), CrashInSave(k) PROVE isOpen /\ Ends
  <2>1. Len(shards) \in Nat /\ k - 1 \in 0 .. Len(shards) /\ k \in 0 .. Len(shards) /\ shards[k].file \in Names
    BY ShardsAre DEF ShardType
  <2>2. SaveTo(k - 1) \in [Names -> Maps]
    BY <2>1, SaveToIs
  <2>3. isOpen /\ \/ DiesInSave(shards[k], hix, {})
                  \/ \E out \in {{}, FilesTo(k)} : DiesInSave(shards[k], SaveTo(k - 1), out)
                  \/ \E out \in {{}, FilesTo(k - 1), FilesTo(k)} : DiesOutside(SaveTo(k - 1), out)
    BY <1>9 DEF CrashInSave, Idle
  <2> QED BY <1>1, <1>2, <1>3, <1>4, <2>1, <2>2, <2>3
<1> QED
  BY <1>6, <1>7, <1>8, <1>9 DEF Death, Ends, Outs

\* Whichever it is.
LEMMA DeathIs ==
    ASSUME Shape, Death
    PROVE  /\ isOpen /\ ~isOpen' /\ shards' = <<>> /\ tuners' = 0
           /\ job' = NoJob /\ made' = NoShard /\ items' = {}
           /\ crashes' = crashes + 1 /\ mislaid' = {}
           /\ UNCHANGED <<sets, history, sessions, rolls, folds, merges, reused>>
           /\ hix' \in [Names -> Maps] /\ TextsOK'
           /\ \A n \in Names, l \in Labels :
                 obn'[n][l] = obn[n][l] \/ (obn'[n][l] = Beyond /\ l \in unwritten[n])
           /\ \A n \in Names : unwritten'[n] = {}
<1>1. isOpen
  BY DeathDies
<1>2. PICK h \in [Names -> Maps], out \in {{}, {A.file}, {B.file}, {Source.file, Tmp}} \cup
                        {FilesTo(k) : k \in 0 .. Len(shards)} :
         Dies(h, out) /\ blank' \subseteq Names /\ torn' \subseteq Names
  BY DeathDies
<1>3. /\ ~isOpen' /\ shards' = <<>> /\ tuners' = 0 /\ hix' = h
      /\ job' = NoJob /\ made' = NoShard /\ items' = {}
      /\ crashes' = crashes + 1 /\ mislaid' = {}
      /\ UNCHANGED <<sets, history, sessions, rolls, folds, merges, reused>>
      /\ obn' \in [Names -> EntryMaps]
      /\ \A n \in Names, l \in Labels :
                 obn'[n][l] = IF n \notin out /\ l \in unwritten[n] THEN Beyond ELSE obn[n][l]
      /\ unwritten' \in [Names -> SUBSET Labels] /\ \A n \in Names : unwritten'[n] = {}
  BY <1>2, DiesIs
<1>4. TextsOK'
  BY <1>2, <1>3 DEF TextsOK, Shape, TypeOK, history
<1> QED
  BY <1>1, <1>3, <1>4

\* A text that a merge adds is one that an open shard shows, or one it has collected.
FromSource(d) ==
    \/ \E i \in 1 .. Len(shards), k \in Labels : d = Entry(shards[i], k)
    \/ \E t \in items : d = t[3]

\* The steps of a merge that copy.
LEMMA CopyTexts ==
    ASSUME Shape, Copy \/ AddItem \/ CopyEmpty
    PROVE  /\ Making /\ TextsOK' /\ UNCHANGED <<cuts, shared, docs>>
           /\ \/ UNCHANGED <<made, hix, texts>>
              \/ \E d \in Texts, w \in [Names -> SUBSET Labels] :
                    /\ Add(d, w) /\ FromSource(d) /\ (Copy \/ AddItem)
                    /\ \A m \in Names : w[m] \subseteq unwritten[m]
<1>1. Making /\ TextsOK /\ UNCHANGED <<cuts, shared, docs>>
  BY DEF Making, Copy, AddItem, CopyEmpty, Reading, Shape, TypeOK, files, history
<1>2. CASE Copy
  <2>1. Add(Entry(Source, NextLabel), WrittenOut({Source.file})) /\ Entry(Source, NextLabel) \in Texts
        /\ Source \in {A, B} /\ NextLabel \in Labels
    BY <1>2, NextLabelIs DEF Copy
  <2>2. WrittenOut({Source.file}) \in [Names -> SUBSET Labels]
        /\ \A m \in Names : WrittenOut({Source.file})[m] \subseteq unwritten[m]
    BY <1>1, WrittenOutIs
  <2>3. obn' \in [Names -> EntryMaps] /\ unwritten' \in [Names -> SUBSET Labels]
    BY <1>1, <2>1, <2>2, AddIs
  <2>4. A = shards[First] /\ B = shards[First + 1] /\ First \in 1 .. Len(shards) /\ First + 1 \in 1 .. Len(shards)
    BY <1>1, MakingIs, ShardsAre, FirstIs
  <2>5. FromSource(Entry(Source, NextLabel))
    BY <2>1, <2>4 DEF FromSource
  <2> QED BY <1>1, <1>2, <2>1, <2>2, <2>3, <2>5 DEF TextsOK, cuts
<1>3. CASE AddItem
  <2>1. PICK t \in items : Add(t[3], unwritten) \/ UNCHANGED <<made, hix, texts>>
    BY <1>3 DEF AddItem
  <2>2. t[3] \in Texts /\ unwritten \in [Names -> SUBSET Labels] /\ FromSource(t[3])
    BY <1>1 DEF Shape, TypeOK, TextsOK, FromSource
  <2>3. CASE UNCHANGED <<made, hix, texts>>
    BY <1>1, <2>3 DEF TextsOK, cuts, texts
  <2>4. CASE Add(t[3], unwritten)
    <3>1. obn' \in [Names -> EntryMaps] /\ unwritten' \in [Names -> SUBSET Labels]
      BY <1>1, <2>2, <2>4, AddIs
    <3> QED BY <1>1, <1>3, <2>2, <2>4, <3>1 DEF TextsOK, cuts
  <2> QED BY <2>1, <2>3, <2>4
<1>4. CASE CopyEmpty
  BY <1>1, <1>4 DEF TextsOK, cuts, texts, CopyEmpty, files
<1> QED
  BY <1>2, <1>3, <1>4

\* A search that reads a text changes nothing but what waits in a buffer.
LEMMA ReadIs ==
    ASSUME Shape, NEW i \in 1 .. Len(shards), ReadText(i)
    PROVE  /\ Idle /\ TextsOK' /\ unwritten' = WrittenOut({shards[i].file})
           /\ UNCHANGED <<isOpen, shards, tuners, hix, obn, sets, cuts, mergeVars, history, session, merging>>
<1>1. /\ Idle /\ unwritten' = WrittenOut({shards[i].file})
      /\ UNCHANGED <<isOpen, shards, tuners, hix, obn, sets, cuts, mergeVars, history, session, merging>>
  BY DEF ReadText
<1>2. TextsOK /\ WrittenOut({shards[i].file}) \in [Names -> SUBSET Labels]
  BY WrittenOutIs DEF Shape, TypeOK
<1> QED
  BY <1>1, <1>2 DEF TextsOK, cuts, history

\* Every step keeps what the entries, the buffers and the images are.
LEMMA TextsStep == Shape /\ [Next]_vars => TextsOK'
<1> SUFFICES ASSUME Shape, [Next]_vars PROVE TextsOK'
  OBVIOUS
<1> USE NamesAre, TextsAre
<1>1. TextsOK /\ docs \in Nat
  BY DEF Shape, TypeOK
<1>2. \A ns : WrittenOut(ns) \in [Names -> SUBSET Labels]
  BY <1>1, WrittenOutIs
<1>3. CASE UNCHANGED <<texts, cuts, shared, docs>>
  BY <1>1, <1>3 DEF TextsOK, texts, cuts
<1>4. CASE UNCHANGED vars \/ Open \/ AppendRefused \/ Flush \/ CopyDone \/ AddDone \/ MergeFlush
  <2>1. UNCHANGED <<texts, cuts, shared, docs>>
    BY <1>4 DEF vars, files, history, Open, AppendRefused, Flush, CopyDone, AddDone, MergeFlush
  <2> QED BY <1>3, <2>1
<1>5. CASE AppendChunk
  <2>1. /\ StoreText(Current.file, {Label(Current)}, docs', unwritten) /\ Current.file \in Names
        /\ Label(Current) \in Labels /\ docs' \in 1 .. MaxDocs /\ docs' = docs + 1 /\ UNCHANGED cuts
        /\ shared' \in {shared, shared \cup {docs'}}
    BY <1>5, AppendIs
  <2>2. {Label(Current)} \subseteq Labels /\ docs' \in Texts /\ unwritten \in [Names -> SUBSET Labels]
    BY <1>1, <2>1 DEF TextsOK
  <2>3. obn' \in [Names -> EntryMaps] /\ unwritten' \in [Names -> SUBSET Labels]
    BY <1>1, <2>1, <2>2, StoreTextIs DEF Stored
  <2>4. shared' \subseteq 1 .. docs'
    BY <1>1, <2>1 DEF TextsOK
  <2> QED BY <1>1, <2>1, <2>3, <2>4 DEF TextsOK, cuts
<1>6. CASE AppendRejected
  <2>1. StoreText(Current.file, {}, Refused, unwritten) /\ Appending /\ UNCHANGED <<cuts, docs, shared>>
    BY <1>6 DEF AppendRejected
  <2>2. Current.file \in Names /\ unwritten \in [Names -> SUBSET Labels] /\ {} \subseteq Labels
    BY <1>1, <2>1, CurrentIs DEF TextsOK
  <2>3. obn' \in [Names -> EntryMaps] /\ unwritten' \in [Names -> SUBSET Labels]
    BY <1>1, <2>1, <2>2, StoreTextIs DEF Stored
  <2> QED BY <1>1, <2>1, <2>3 DEF TextsOK, cuts
<1>7. ASSUME NEW i \in 1 .. Len(shards), NEW l \in Labels, Remove(i, l) PROVE TextsOK'
  <2>1. /\ obn' = [obn EXCEPT ![shards[i].file][l] = 0]
        /\ unwritten' = [unwritten EXCEPT ![shards[i].file] = @ \ {l}]
        /\ UNCHANGED <<cuts, docs, shared>>
    BY <1>7, RemoveIs
  <2>2. obn' \in [Names -> EntryMaps]
    BY <1>1, <2>1 DEF TextsOK, EntryMaps
  <2>3. unwritten' \in [Names -> SUBSET Labels]
    BY <1>1, <2>1 DEF TextsOK
  <2> QED BY <1>1, <2>1, <2>2, <2>3 DEF TextsOK, cuts
<1>8. ASSUME NEW ns, unwritten' = WrittenOut(ns), UNCHANGED <<obn, shared, docs, torn>>, blank' \subseteq blank
      PROVE  TextsOK'
  BY <1>1, <1>2, <1>8 DEF TextsOK
<1>9. ASSUME NEW i \in 1 .. Len(shards), ReadText(i) PROVE TextsOK'
  BY <1>9, ReadIs
<1>10. CASE Clear
  <2>1. /\ obn' = [n \in Names |-> IF n \in OpenFiles THEN Nothing ELSE obn[n]]
        /\ unwritten' = WrittenOut(OpenFiles) /\ blank' = blank \ OpenFiles
        /\ UNCHANGED <<torn, shared, docs>>
    BY <1>10 DEF Clear
  <2>2. obn' \in [Names -> EntryMaps]
    BY <1>1, <2>1 DEF TextsOK
  <2> QED BY <1>1, <1>2, <2>1, <2>2 DEF TextsOK
<1>11. CASE Close
  BY <1>8, <1>11 DEF Close, cuts, history
<1>12. ASSUME NEW mode \in Modes, MergeBegin(mode) PROVE TextsOK'
  <2>1. unwritten' = WrittenOut(IF mode = "serial" THEN {} ELSE {shards[t[1]].file : t \in Collected})
        /\ UNCHANGED <<obn, cuts, history>>
    BY <1>12 DEF MergeBegin
  <2> QED BY <1>8, <2>1 DEF cuts, history
<1>13. CASE CopyOverflows \/ MergeInstall \/ MergeDone
  BY <1>8, <1>13 DEF CopyOverflows, MergeInstall, MergeDone, cuts, history
<1>14. CASE MergeRemove
  <2>1. unwritten' = WrittenOut({First}) /\ obn' = [obn EXCEPT ![First] = Nothing]
        /\ UNCHANGED <<cuts, history>>
    BY <1>14 DEF MergeRemove
  <2> QED BY <1>1, <1>2, <2>1 DEF TextsOK, cuts, history
<1>15. CASE MergeRemoveGraph
  BY <1>1, <1>15 DEF MergeRemoveGraph, TextsOK, texts, history
<1>16. CASE Copy \/ AddItem \/ CopyEmpty
  BY <1>16, CopyTexts
<1>17. CASE Death
  BY <1>17, DeathIs
<1> QED
  BY <1>4, <1>5, <1>6, <1>7, <1>9, <1>10, <1>11, <1>12, <1>13, <1>14, <1>15, <1>16, <1>17
  DEF Next, MergeStep, Death

-----------------------------------------------------------------------------
\* Nothing is open at first.
LEMMA ShapeInit == Init => Shape
<1> SUFFICES ASSUME Init PROVE Shape
  OBVIOUS
<1>1. job \in [phase : Phases, at : 0 .. MaxLabel, limit : Nat]
  BY NamesAre DEF Init, NoJob, Phases
<1>2. shards \in Seq(ShardType) /\ Len(shards) = 0
  BY DEF Init
<1>3. TypeOK
  <2>1. isOpen \in BOOLEAN /\ reused \in BOOLEAN
    BY DEF Init
  <2>2. TextsOK
    BY NamesAre, TextsAre DEF Init, TextsOK
  <2> QED
    BY <1>1, <1>2, <2>1, <2>2, NamesAre DEF Init, TypeOK, NoShard
<1> QED
  BY <1>1, <1>2, <1>3, NamesAre DEF Init, Shape, Making, NoJob, NoShard

\* The constructor opens what discover_shards counted, or the first shard, with a tuner
\* for each.
LEMMA OpenShape ==
    ASSUME Shape, Open
    PROVE  Shape' /\ shards' # <<>> /\ tuners' = Len(shards') /\ isOpen' /\ job.phase = "no"
           /\ Len(shards') = (IF Discovered = {} THEN 1 ELSE Cardinality(Discovered))
           /\ (Discovered # {} => Discovered = 0 .. Len(shards') - 1)
           /\ \A i \in 1 .. Len(shards') : shards'[i] = OpenShard(i - 1, MaxElements) /\ i - 1 \in Base
<1> USE NamesAre
<1>1. PICK c \in 0 .. MaxShard + 1 : Discovered = 0 .. c - 1 /\ Cardinality(Discovered) = c
  BY DiscoveredAre
<1> DEFINE n == IF Discovered = {} THEN 1 ELSE Cardinality(Discovered)
<1>2. n \in 1 .. MaxShard + 1 /\ (Discovered # {} => Discovered = 0 .. n - 1)
  BY <1>1
<1>3. shards' = [i \in 1 .. n |-> OpenShard(i - 1, MaxElements)] /\ tuners' = n
      /\ sets' = sets \cup 0 .. n - 1
  BY DEF Open
<1> HIDE DEF n
<1>4. \A i \in 1 .. n : i - 1 \in Base /\ i - 1 \in Names
  BY <1>2 DEF Base
<1>5. \A i \in 1 .. n : OpenShard(i - 1, MaxElements) \in ShardType /\ OpenShard(i - 1, MaxElements).file = i - 1
  BY <1>4, OpenShardIs DEF Shape
<1>6. Len(shards') = n /\ shards' \in Seq(ShardType) /\ shards' # <<>>
  <2>1. n \in Nat /\ n >= 1
    BY <1>2
  <2>2. shards' \in [1 .. n -> ShardType]
    BY <1>3, <1>5
  <2> QED BY <2>1, <2>2
<1>7. \A i \in 1 .. Len(shards') : shards'[i] = OpenShard(i - 1, MaxElements) /\ shards'[i].file = i - 1
  <2>1. \A i \in 1 .. n : shards'[i] = OpenShard(i - 1, MaxElements)
    BY <1>3
  <2> QED BY <1>5, <1>6, <2>1
<1>8. sets' \subseteq Names /\ tuners' \in Nat
  <2>1. sets \subseteq Names
    BY DEF Shape, TypeOK
  <2>2. ASSUME NEW m \in 0 .. n - 1 PROVE m \in Names
    <3>1. m + 1 \in 1 .. n /\ (m + 1) - 1 = m
      BY <1>2
    <3> QED BY <1>4, <3>1
  <2>3. tuners' \in Nat
    BY <1>2, <1>3
  <2> QED BY <1>3, <2>1, <2>2, <2>3
<1>9. isOpen' /\ UNCHANGED <<hix, texts, cuts, mergeVars, history, crashes, merges, reused, mislaid>>
      /\ {rolls', folds', sessions'} \subseteq Nat /\ job.phase = "no"
  <2>1. isOpen' /\ UNCHANGED <<hix, texts, cuts, mergeVars, history, crashes, merges, reused, mislaid>>
    BY DEF Open
  <2>2. sessions \in Nat /\ rolls' = 0 /\ folds' = 0 /\ sessions' = sessions + 1
    BY DEF Open, Shape, TypeOK
  <2>3. job.phase = "no"
    BY DEF Open, Shape
  <2> QED BY <2>1, <2>2, <2>3
<1>10. Shape'
  <2>1. isOpen' \in BOOLEAN
    BY DEF Open
  <2>2. TypeOK'
    <3>1. TextsOK'
      BY TextsStep DEF Next
    <3> QED BY <3>1, <2>1, <1>6, <1>7, <1>8, <1>9 DEF Shape, TypeOK, mergeVars, history
  <2> QED
    BY <1>2, <1>6, <1>9, <2>2 DEF Shape, Making, mergeVars
<1> QED
  BY <1>2, <1>3, <1>4, <1>6, <1>7, <1>9, <1>10 DEF n

\* append keeps types and phases, whether the embedder refuses the chunk, the shard
\* refuses it, or neither.
LEMMA AppendShape ==
    ASSUME Shape, AppendChunk \/ AppendRejected \/ AppendRefused
    PROVE  Shape'
<1> USE NamesAre
<1>0. TextsOK'
  BY TextsStep DEF Next
<1>1. Appending
  BY DEF AppendChunk, AppendRejected, AppendRefused
<1>2. shards # <<>> /\ job.phase = "no" /\ isOpen /\ Current \in ShardType
  BY <1>1, CurrentIs
<1>3. ASSUME NEW s \in ShardType, s.file = Current.file, Roll(s)
      PROVE  /\ shards' \in Seq(ShardType) /\ Len(shards') <= MaxShard + 1
             /\ \A i \in 1 .. Len(shards') : shards'[i].file \in {i - 1, Tmp}
             /\ sets' \subseteq Names /\ rolls' \in Nat
  <2>1. sets \subseteq Names /\ rolls \in Nat
    BY DEF Shape, TypeOK
  <2>2. \A i \in 1 .. Len(shards') : shards'[i].file \in {i - 1, Tmp}
    BY <1>1, <1>3, RollIs, ShardsAre
  <2>3. Full => Len(shards) \in Names
    BY <1>1, CurrentIs
  <2>4. shards' \in Seq(ShardType) /\ Len(shards') <= MaxShard + 1
    BY <1>1, <1>3, RollIs
  <2>5. (Full => sets' = sets \cup {Len(shards)} /\ rolls' = rolls + 1)
        /\ (~Full => sets' = sets /\ rolls' = rolls)
    BY <1>1, <1>3, RollIs
  <2> HIDE DEF Full
  <2>6. sets' \subseteq Names /\ rolls' \in Nat
    <3>1. CASE Full
      <4>1. sets' = sets \cup {Len(shards)} /\ rolls' = rolls + 1 /\ Len(shards) \in Names
        BY <2>3, <2>5, <3>1
        <4> HIDE DEF Names
        <4>2. rolls + 1 \in Nat
          BY <2>1
        <4>3. sets \cup {Len(shards)} \subseteq Names
          BY <2>1, <4>1
        <4> QED BY <4>1, <4>2, <4>3
    <3>2. CASE ~Full
      BY <2>1, <2>5, <3>2
    <3> QED BY <3>1, <3>2
  <2> QED
    BY <2>2, <2>4, <2>6
<1>4. CASE AppendChunk
  <2>1. PICK s \in ShardType :
          /\ s.file = Current.file /\ Roll(s)
          /\ hix' = hix \/ hix' = [hix EXCEPT ![s.file] = s.vec]
    BY <1>4, AppendIs
  <2>2. hix' \in [Names -> Maps]
    BY <2>1 DEF Shape, TypeOK, ShardType
  <2>3. docs' \in 0 .. MaxDocs /\ docs' = docs + 1
    <3>1. docs' \in 1 .. MaxDocs /\ docs' = docs + 1
      BY <1>4, AppendIs
    <3> QED BY <3>1
  <2>4. UNCHANGED <<isOpen, tuners, mergeVars, rejected, removed, cleared, sessions, crashes, merging>>
    BY <1>4 DEF AppendChunk
  <2>5. cleared' \subseteq 1 .. docs'
    BY <2>3, <2>4 DEF Shape, TypeOK
  <2>6. /\ shards' \in Seq(ShardType) /\ Len(shards') <= MaxShard + 1
        /\ \A i \in 1 .. Len(shards') : shards'[i].file \in {i - 1, Tmp}
        /\ sets' \subseteq Names /\ rolls' \in Nat
    BY <1>3, <2>1
  <2> QED
    BY <1>0, <1>2, <2>2, <2>3, <2>4, <2>5, <2>6, SMTT(30) DEF Shape, TypeOK, Making, mergeVars, merging
<1>5. CASE AppendRejected
  <2>1. TakeLabel(Current) \in ShardType /\ TakeLabel(Current).file = Current.file
    BY <1>2, <1>5, TakeLabelIs DEF AppendRejected
  <2>2. Roll(TakeLabel(Current)) /\ rejected' \in 0 .. MaxRejected
    <3>1. Roll(TakeLabel(Current)) /\ rejected' = rejected + 1 /\ rejected < MaxRejected
      BY <1>5 DEF AppendRejected
    <3>2. rejected \in 0 .. MaxRejected
      BY DEF Shape, TypeOK
    <3> QED BY <3>1, <3>2
  <2>3. UNCHANGED <<isOpen, tuners, hix, mergeVars, docs, removed, cleared, sessions, crashes, merging>>
    BY <1>5 DEF AppendRejected
  <2>4. /\ shards' \in Seq(ShardType) /\ Len(shards') <= MaxShard + 1
        /\ \A i \in 1 .. Len(shards') : shards'[i].file \in {i - 1, Tmp}
        /\ sets' \subseteq Names /\ rolls' \in Nat
    BY <1>3, <2>1, <2>2
  <2> QED
    BY <1>0, <1>2, <2>2, <2>3, <2>4 DEF Shape, TypeOK, Making, mergeVars, merging
<1>6. CASE AppendRefused
  <2>1. Roll(Current) /\ UNCHANGED <<isOpen, tuners, hix, mergeVars, history, sessions, crashes, merging>>
    BY <1>6 DEF AppendRefused
  <2>2. /\ shards' \in Seq(ShardType) /\ Len(shards') <= MaxShard + 1
        /\ \A i \in 1 .. Len(shards') : shards'[i].file \in {i - 1, Tmp}
        /\ sets' \subseteq Names /\ rolls' \in Nat
    BY <1>2, <1>3, <2>1
  <2> QED
    BY <1>0, <1>2, <2>1, <2>2 DEF Shape, TypeOK, Making, mergeVars, merging, history
<1> QED
  BY <1>4, <1>5, <1>6

\* remove keeps types and phases.
LEMMA RemoveShape ==
    ASSUME Shape, NEW i \in 1 .. Len(shards), NEW l \in Labels, Remove(i, l)
    PROVE  Shape'
<1> USE NamesAre, ShardsAre
<1>1. Idle /\ Len(shards') = Len(shards) /\ shards' \in Seq(ShardType)
      /\ UNCHANGED <<isOpen, tuners, sets, mergeVars, docs, rejected, cleared, session, merging>>
  BY RemoveIs
<1>2. \A j \in 1 .. Len(shards) : shards'[j].file = shards[j].file
  BY RemoveIs
<1>3. shards[i] \in ShardType /\ hix \in [Names -> Maps]
      /\ removed \subseteq Docs \X Names
  BY DEF Shape, TypeOK
<1>4. hix' \in [Names -> Maps]
  <2>1. hix' = hix \/ hix' = Save(shards[i], hix)
    BY RemoveIs
  <2> QED BY <1>3, <2>1, SaveIs
<1>5. shards[i].file \in Names
      /\ removed' = removed \cup (({Entry(shards[i], l)} \cap Docs) \X {shards[i].file})
  BY <1>3, RemoveIs DEF ShardType
<1>6. TextsOK'
  BY TextsStep DEF Next
<1>7. removed' \subseteq Docs \X Names
  BY <1>3, <1>5
<1> QED
  BY <1>1, <1>2, <1>4, <1>6, <1>7 DEF Shape, TypeOK, Making, mergeVars, merging, session, Idle

\* The operations that go through all shards keep types and phases, and run when no merge
\* does.
LEMMA WholeShape ==
    ASSUME Shape, Flush \/ Clear \/ Close
    PROVE  Shape' /\ Idle
<1> USE NamesAre, ShardsAre
<1>0. TextsOK'
  BY TextsStep DEF Next
<1>1. CASE Flush
  <2>1. shards' = [i \in 1 .. Len(shards) |-> Saved(shards[i])] /\ hix' = SaveAll /\ Idle
        /\ UNCHANGED <<isOpen, tuners, sets, mergeVars, history, session, merging>>
    BY <1>1 DEF Flush
  <2>2. \A i \in 1 .. Len(shards) : Saved(shards[i]) \in ShardType /\ Saved(shards[i]).file = shards[i].file
    BY SavedIs
  <2>3. Len(shards') = Len(shards) /\ shards' \in Seq(ShardType)
        /\ \A i \in 1 .. Len(shards) : shards'[i].file = shards[i].file
    BY <2>1, <2>2
  <2>4. hix' \in [Names -> Maps]
    BY <2>1, SaveAllIs
  <2> QED
    BY <1>0, <2>1, <2>3, <2>4 DEF Shape, TypeOK, Making, mergeVars, merging, session, history, Idle
<1>2. CASE Clear
  <2>1. hix' \in [Names -> Maps]
    BY <1>2 DEF Clear, Shape, TypeOK
  <2>2. shards' = <<>> /\ shards' \in Seq(ShardType) /\ Len(shards') = 0 /\ cleared' = 1 .. docs
        /\ UNCHANGED <<isOpen, tuners, sets, mergeVars, docs, rejected, removed, session, merging>> /\ Idle
    BY <1>2 DEF Clear
  <2>3. TypeOK'
    BY <1>0, <2>1, <2>2, SMTT(30) DEF Shape, TypeOK, mergeVars, merging, session
  <2> QED
    BY <2>2, <2>3 DEF Shape, Making, mergeVars, Idle
<1>3. CASE Close
  <2>1. hix' \in [Names -> Maps]
    BY <1>3, SaveAllIs DEF Close
  <2>2. shards' = <<>> /\ shards' \in Seq(ShardType) /\ Len(shards') = 0 /\ tuners' = 0
        /\ UNCHANGED <<sets, mergeVars, history, session, merging>> /\ Idle
    BY <1>3 DEF Close
  <2>3. isOpen' \in BOOLEAN /\ ~isOpen'
    BY <1>3 DEF Close
  <2>4. TypeOK'
    BY <1>0, <2>1, <2>2, <2>3, SMTT(30) DEF Shape, TypeOK, mergeVars, merging, session, history
  <2> QED
    BY <2>2, <2>4 DEF Shape, Making, mergeVars, Idle
<1> QED
  BY <1>1, <1>2, <1>3

\* A death keeps types and phases, whatever it leaves of a merge.
LEMMA DeathShape ==
    ASSUME Shape, Death
    PROVE  Shape'
<1>1. /\ ~isOpen' /\ shards' = <<>> /\ tuners' = 0
      /\ job' = NoJob /\ made' = NoShard /\ items' = {}
      /\ crashes' = crashes + 1 /\ mislaid' = {}
      /\ UNCHANGED <<sets, history, sessions, rolls, folds, merges, reused>>
      /\ hix' \in [Names -> Maps] /\ TextsOK'
  BY DeathIs
<1>2. job' \in [phase : Phases, at : 0 .. MaxLabel, limit : Nat]
  BY <1>1, NamesAre DEF NoJob, Phases
<1>3. isOpen' \in BOOLEAN
  BY DeathDies DEF Dies
<1>4. shards' \in Seq(ShardType) /\ Len(shards') = 0
  BY <1>1
<1>5. TypeOK'
  <2>1. /\ sets \subseteq Names
        /\ docs \in 0 .. MaxDocs /\ rejected \in 0 .. MaxRejected /\ reused \in BOOLEAN
        /\ {rolls, folds, merges, sessions} \subseteq Nat /\ crashes \in Nat
        /\ cleared \subseteq 1 .. docs /\ removed \subseteq Docs \X Names
    BY DEF Shape, TypeOK
  <2>2. UNCHANGED <<sets, docs, rejected, reused, rolls, folds, merges, sessions,
                    cleared, removed>>
    BY <1>1 DEF history
  <2>3. /\ sets' \subseteq Names
        /\ docs' \in 0 .. MaxDocs /\ rejected' \in 0 .. MaxRejected /\ reused' \in BOOLEAN
        /\ {rolls', folds', merges', sessions'} \subseteq Nat
        /\ cleared' \subseteq 1 .. docs' /\ removed' \subseteq Docs \X Names
    BY <2>1, <2>2, Zenon
  <2>4. crashes' \in Nat
    BY <1>1, <2>1
  <2> QED BY <1>1, <1>2, <1>3, <1>4, <2>3, <2>4 DEF TypeOK
<1> QED
  BY <1>1, <1>4, <1>5, NamesAre DEF Shape, Making, NoJob

\* A search that reads a text keeps types and phases.
LEMMA ReadShape ==
    ASSUME Shape, NEW i \in 1 .. Len(shards), ReadText(i)
    PROVE  Shape'
<1>1. Idle /\ TextsOK'
      /\ UNCHANGED <<isOpen, shards, tuners, hix, obn, sets, cuts, mergeVars, history, session, merging>>
  BY ReadIs
<1>2. TypeOK'
  BY <1>1 DEF Shape, TypeOK, mergeVars, history, session, merging
<1> QED
  BY <1>1, <1>2 DEF Shape, Making, A, First, mergeVars

-----------------------------------------------------------------------------
(* Steps of a merge.                                                       *)

\* A merge begins with a shard under its name.
LEMMA BeginIs ==
    ASSUME Shape, NEW mode \in Modes, MergeBegin(mode)
    PROVE  /\ Idle /\ Len(shards) > 1 /\ merges' = merges + 1 /\ Making'
           /\ made' \in ShardType /\ made'.file = Tmp /\ made'.free = <<>> /\ made'.next = 0
           /\ made'.vec = hix[Tmp]
           /\ job' \in [phase : {"copyA", "add"}, at : {0}, limit : Nat]
           /\ job'.phase = "copyA" => items' = {} /\ mislaid' = {}
           /\ job'.phase = "add" => /\ items' \subseteq Collected
                                   /\ mislaid' = {t[3] : t \in Collected \ items'} \cap Docs
           /\ reused' = (reused \/ hix[Tmp] # Nothing \/ Tmp \in blank \/ obn[Tmp] # Nothing
                                  \/ Tmp \in OpenFiles)
           /\ sets' = sets \cup {Tmp}
           /\ UNCHANGED <<isOpen, shards, tuners, hix, obn, cuts, history, session, folds>>
<1> USE NamesAre
<1> DEFINE limit == Size(A) + Size(B) + Slack
<1>1. Idle /\ Len(shards) > 1
  BY DEF MergeBegin
<1>2. limit \in Nat
  <2>1. A \in ShardType /\ B \in ShardType
    BY <1>1, ShardsAre
  <2>2. Size(A) \in Nat /\ Size(B) \in Nat
    BY <2>1, SizeIs
  <2> QED BY <2>2
<1>3. /\ made' = OpenShard(Tmp, limit)
      /\ job' = [phase |-> IF mode = "serial" THEN "copyA" ELSE "add", at |-> 0, limit |-> limit]
  BY DEF MergeBegin
<1> HIDE DEF limit
<1>4. TypeOK
  BY DEF Shape
<1>5. made' \in ShardType /\ made'.file = Tmp /\ made'.free = <<>> /\ made'.next = 0
      /\ made'.vec = hix[Tmp]
  BY <1>2, <1>3, <1>4, OpenShardIs
<1>6. job' \in [phase : {"copyA", "add"}, at : {0}, limit : Nat]
      /\ (job'.phase = "copyA" <=> mode = "serial")
  BY <1>2, <1>3
<1>7. job'.phase \in {"copyA", "add"} /\ Making'
  BY <1>6 DEF Making
<1> QED
  BY <1>1, <1>5, <1>6, <1>7, GatheredIs DEF MergeBegin

\* A merge begins with the last two shards, and leaves them alone.
LEMMA BeginShape ==
    ASSUME Shape, NEW mode \in Modes, MergeBegin(mode)
    PROVE  Shape'
<1> USE NamesAre
<1>1. /\ Idle /\ Len(shards) > 1 /\ merges' = merges + 1 /\ Making'
      /\ made' \in ShardType /\ made'.file = Tmp /\ made'.free = <<>>
      /\ job' \in [phase : {"copyA", "add"}, at : {0}, limit : Nat]
      /\ sets' = sets \cup {Tmp}
      /\ UNCHANGED <<isOpen, shards, tuners, hix, history, session, folds>>
  BY BeginIs
<1>2. job' \in [phase : Phases, at : 0 .. MaxLabel, limit : Nat]
  BY <1>1 DEF Phases
<1>3. /\ items' \subseteq Collected
      /\ mislaid' = {} \/ mislaid' = {t[3] : t \in Collected \ items'} \cap Docs
  BY GatheredIs DEF MergeBegin
<1>4. items' \subseteq (1 .. MaxShard + 1) \X Labels \X Texts /\ mislaid' \subseteq Docs
  BY <1>1, <1>3, CollectedIs
<1>5. reused' \in BOOLEAN
  BY DEF MergeBegin
<1>6. sets' \subseteq Names /\ merges' \in Nat
  <2>1. sets \subseteq Names /\ merges \in Nat
    BY DEF Shape, TypeOK
  <2>2. sets' \subseteq Names
    BY <1>1, <2>1
  <2>3. merges' \in Nat
    BY <1>1, <2>1
  <2> QED BY <2>2, <2>3
<1>7. TypeOK'
  <2>0. TextsOK'
    BY TextsStep DEF Next
  <2>1. /\ isOpen \in BOOLEAN /\ shards \in Seq(ShardType) /\ tuners \in Nat
        /\ hix \in [Names -> Maps]
        /\ docs \in 0 .. MaxDocs /\ rejected \in 0 .. MaxRejected
        /\ {rolls, folds, sessions, crashes} \subseteq Nat
        /\ cleared \subseteq 1 .. docs /\ removed \subseteq Docs \X Names
        /\ \A i \in 1 .. Len(shards) : shards[i].file \in {i - 1, Tmp}
    BY DEF Shape, TypeOK
  <2>2. UNCHANGED <<isOpen, shards, tuners, hix, docs, rejected, rolls, folds, sessions,
                    crashes, cleared, removed>>
    BY <1>1 DEF history, session
  <2>3. /\ isOpen' \in BOOLEAN /\ shards' \in Seq(ShardType) /\ tuners' \in Nat
        /\ hix' \in [Names -> Maps]
        /\ docs' \in 0 .. MaxDocs /\ rejected' \in 0 .. MaxRejected
        /\ {rolls', folds', sessions', crashes'} \subseteq Nat
        /\ cleared' \subseteq 1 .. docs' /\ removed' \subseteq Docs \X Names
        /\ \A i \in 1 .. Len(shards') : shards'[i].file \in {i - 1, Tmp}
    BY <2>1, <2>2, Zenon
  <2> HIDE NamesAre
  <2> QED BY <1>1, <1>2, <1>4, <1>5, <1>6, <2>0, <2>3 DEF TypeOK
<1>8. job'.phase \in {"copyA", "add"} /\ isOpen /\ Len(shards) <= MaxShard + 1
  BY <1>1 DEF Idle, Shape
<1> QED
  BY <1>1, <1>7, <1>8 DEF Shape

\* A step that copies one entry touches the new shard only.
LEMMA CopyShape ==
    ASSUME Shape, Copy \/ AddItem \/ CopyEmpty
    PROVE  /\ Shape' /\ Making /\ Making' /\ job'.phase = job.phase
           /\ UNCHANGED <<isOpen, shards, tuners, sets, cuts, history, session, merging>>
<1> USE NamesAre
<1>1. Making /\ job \in [phase : Phases, at : 0 .. MaxLabel, limit : Nat]
  BY DEF Making, Copy, AddItem, CopyEmpty, Reading, Shape, TypeOK
<1>2. \/ job' = job
      \/ Reading /\ Ahead # {} /\ job' = [job EXCEPT !.at = NextLabel + 1]
  BY DEF Copy, AddItem, CopyEmpty
<1>3. ASSUME Reading, Ahead # {} PROVE NextLabel + 1 \in 0 .. MaxLabel
  <2>1. NextLabel \in Labels
    BY <1>3, NextLabelIs
  <2> QED BY <2>1 DEF Labels
<1>4. job' \in [phase : Phases, at : 0 .. MaxLabel, limit : Nat] /\ job'.phase = job.phase
  BY <1>1, <1>2, <1>3
<1>5. /\ UNCHANGED <<isOpen, shards, tuners, sets, cuts, history, session, merging>>
      /\ items' \subseteq items
  BY DEF Copy, AddItem, CopyEmpty, files
<1>6. \/ UNCHANGED <<made, hix, texts>>
      \/ \E d \in Texts, w \in [Names -> SUBSET Labels] : Add(d, w)
  BY CopyTexts
<1>7. /\ made' \in ShardType /\ made'.file = Tmp /\ made'.free = <<>>
      /\ hix' \in [Names -> Maps] /\ TextsOK'
  <2>1. /\ made \in ShardType /\ made.file = Tmp /\ made.free = <<>>
        /\ hix \in [Names -> Maps]
    BY <1>1, MakingIs DEF Shape, TypeOK
  <2>2. ASSUME NEW d \in Texts, NEW w \in [Names -> SUBSET Labels], Add(d, w)
        PROVE  made' \in ShardType /\ made'.file = Tmp /\ made'.free = <<>> /\ hix' \in [Names -> Maps]
    BY <1>1, <2>2, AddIs
  <2>3. TextsOK'
    BY CopyTexts
  <2> QED BY <1>6, <2>1, <2>2, <2>3
<1>8. TypeOK'
  BY <1>4, <1>5, <1>7 DEF Shape, TypeOK, history, session, merging
<1>9. Making'
  BY <1>1, <1>4 DEF Making
<1> QED
  BY <1>1, <1>4, <1>5, <1>7, <1>8, <1>9 DEF Shape, Making

\* A merge goes from one source to the next, and saves, without a change to anything but
\* the new shard.
LEMMA TurnShape ==
    ASSUME Shape, CopyDone \/ AddDone \/ MergeFlush
    PROVE  /\ Shape' /\ Making /\ Making'
           /\ UNCHANGED <<isOpen, shards, tuners, texts, sets, cuts, items, history, session, merging>>
           /\ made'.vec = made.vec /\ made'.next = made.next
           /\ \A n \in Base : hix'[n] = hix[n]
<1> USE NamesAre
<1>1. Making /\ job \in [phase : Phases, at : 0 .. MaxLabel, limit : Nat]
  BY DEF Making, CopyDone, AddDone, MergeFlush, Reading, Shape, TypeOK
<1>2. job' \in [phase : Phases, at : 0 .. MaxLabel, limit : Nat]
      /\ job'.phase \in {"copyB", "copied", "flushed"}
  <2>1. CASE CopyDone
    <3>1. job' = [job EXCEPT !.phase = IF @ = "copyA" THEN "copyB" ELSE "copied", !.at = 0]
      BY <2>1 DEF CopyDone
    <3>2. PICK ph \in {"copyB", "copied"} : job' = [[job EXCEPT !.phase = ph] EXCEPT !.at = 0]
      BY <3>1
    <3>3. [job EXCEPT !.phase = ph] \in [phase : Phases, at : 0 .. MaxLabel, limit : Nat]
          /\ [job EXCEPT !.phase = ph].phase = ph
      BY <1>1 DEF Phases
    <3>4. 0 \in 0 .. MaxLabel
      OBVIOUS
    <3> QED BY <3>2, <3>3, <3>4
  <2>2. CASE AddDone \/ MergeFlush
    <3>1. CASE AddDone
      BY <1>1, <3>1 DEF AddDone, Phases
    <3>2. CASE MergeFlush
      BY <1>1, <3>2 DEF MergeFlush, Phases
    <3> QED BY <2>2, <3>1, <3>2
  <2> QED BY <2>1, <2>2
<1>3. UNCHANGED <<isOpen, shards, tuners, texts, sets, cuts, items, history, session, merging>>
  BY DEF CopyDone, AddDone, MergeFlush, files
<1>4. made \in ShardType /\ made.file = Tmp /\ made.free = <<>> /\ hix \in [Names -> Maps]
  BY <1>1, MakingIs DEF Shape, TypeOK
<1>5. \/ UNCHANGED <<made, hix>>
      \/ hix' = Save(made, hix) /\ made' = Saved(made)
  BY DEF CopyDone, AddDone, MergeFlush, files
<1>6. /\ made' \in ShardType /\ made'.file = Tmp /\ made'.free = <<>>
      /\ made'.vec = made.vec /\ made'.next = made.next
      /\ hix' \in [Names -> Maps] /\ \A n \in Base : hix'[n] = hix[n]
  BY <1>4, <1>5, SaveIs, SavedIs
<1>7. TypeOK'
  <2>1. TextsOK'
    BY TextsStep DEF Next, MergeStep
  <2> QED BY <2>1, <1>2, <1>3, <1>6 DEF Shape, TypeOK, history, session, merging
<1>8. Making'
  BY <1>2 DEF Making
<1> QED
  BY <1>1, <1>2, <1>3, <1>6, <1>7, <1>8 DEF Shape, Making

\* A merge that finds no room ends, and leaves the open shards alone.
LEMMA OverflowShape ==
    ASSUME Shape, CopyOverflows
    PROVE  /\ Shape' /\ Making /\ job'.phase = "no"
           /\ UNCHANGED <<isOpen, shards, tuners, obn, sets, cuts, items, history, session, merging>>
           /\ \A n \in Base : hix'[n] = hix[n]
<1> USE NamesAre
<1>1. Making
  BY DEF Making, CopyOverflows, Overflows, Reading
<1>2. job' = NoJob /\ job' \in [phase : Phases, at : 0 .. MaxLabel, limit : Nat]
      /\ job'.phase = "no"
  BY DEF CopyOverflows, NoJob, Phases
<1>3. /\ UNCHANGED <<isOpen, shards, tuners, obn, sets, cuts, items, history, session, merging>>
      /\ made' = NoShard /\ hix' = Save(made, hix)
  BY DEF CopyOverflows
<1>4. made \in ShardType /\ made.file = Tmp /\ hix \in [Names -> Maps]
  BY <1>1, MakingIs DEF Shape, TypeOK
<1>5. hix' \in [Names -> Maps] /\ \A n \in Base : hix'[n] = hix[n]
  BY <1>3, <1>4, SaveIs
<1>6. TypeOK'
  <2>1. TextsOK'
    BY TextsStep DEF Next, MergeStep
  <2> QED BY <2>1, <1>2, <1>3, <1>5 DEF Shape, TypeOK, history, session, merging
<1> QED
  BY <1>1, <1>2, <1>3, <1>5, <1>6 DEF Shape, Making

\* The new shard takes the place of the first source.
LEMMA InstallShape ==
    ASSUME Shape, MergeInstall
    PROVE  /\ Shape' /\ Making /\ Len(shards) > 1 /\ Len(shards') = Len(shards)
           /\ shards'[First] = made /\ job'.phase = "installed"
           /\ \A i \in 1 .. Len(shards) : i # First => shards'[i] = shards[i]
           /\ UNCHANGED <<isOpen, tuners, obn, sets, cuts, items, history, session, merging>>
<1> USE NamesAre
<1>1. Making /\ job.phase = "flushed" /\ Len(shards) > 1
  BY DEF Making, MergeInstall, Shape
<1>2. job' \in [phase : Phases, at : 0 .. MaxLabel, limit : Nat] /\ job'.phase = "installed"
  BY DEF MergeInstall, Phases, Shape, TypeOK
<1>3. /\ shards' = [shards EXCEPT ![First] = made] /\ hix' = Save(A, hix) /\ made' = NoShard
      /\ UNCHANGED <<isOpen, tuners, obn, sets, cuts, items, history, session, merging>>
  BY DEF MergeInstall
<1>4. /\ shards \in Seq(ShardType) /\ made \in ShardType /\ made.file = Tmp
      /\ First \in 1 .. Len(shards) /\ A \in ShardType /\ hix \in [Names -> Maps]
  BY <1>1, MakingIs, ShardsAre, FirstIs DEF Shape, TypeOK
<1>5. /\ shards' \in Seq(ShardType) /\ Len(shards') = Len(shards) /\ shards'[First] = made
      /\ \A i \in 1 .. Len(shards) : i # First => shards'[i] = shards[i]
  BY <1>3, <1>4
<1>6. hix' \in [Names -> Maps]
  BY <1>3, <1>4, SaveIs
<1>7. \A i \in 1 .. Len(shards') : shards'[i].file \in {i - 1, Tmp}
  BY <1>4, <1>5, ShardsAre
<1>8. TypeOK'
  <2>1. TextsOK'
    BY TextsStep DEF Next, MergeStep
  <2> QED BY <2>1, <1>2, <1>3, <1>5, <1>6, <1>7 DEF Shape, TypeOK, history, session, merging
<1>9. A' = made
  BY <1>5 DEF A, First
<1>10. isOpen
  BY <1>1 DEF Shape
<1> QED
  BY <1>1, <1>2, <1>3, <1>4, <1>5, <1>8, <1>9, <1>10 DEF Shape, Making

\* The files of the second source go, one after the other, and no other name's entries.
LEMMA ReplaceShape ==
    ASSUME Shape, MergeRemove \/ MergeRemoveGraph
    PROVE  /\ Shape' /\ Len(shards) > 1 /\ First \in Base
           /\ job.phase \in {"installed", "removed"} /\ job'.phase \in {"removed", "dropped"}
           /\ UNCHANGED <<isOpen, shards, tuners, made, items, history, session, merging>>
           /\ \A n \in Names : n # First => obn'[n] = obn[n]
           /\ obn'[First] \in {obn[First], Nothing}
<1> USE NamesAre
<1>1. job.phase \in {"installed", "removed"} /\ Len(shards) > 1 /\ ~Making /\ isOpen
  BY DEF Making, MergeRemove, MergeRemoveGraph, Shape
<1>2. job' \in [phase : Phases, at : 0 .. MaxLabel, limit : Nat]
      /\ job'.phase \in {"removed", "dropped"}
  BY DEF MergeRemove, MergeRemoveGraph, Phases, Shape, TypeOK
<1>3. First \in Base
  BY <1>1, ShardsAre
<1>4. /\ UNCHANGED <<isOpen, shards, tuners, made, items, history, session, merging>>
      /\ sets' \subseteq sets
      /\ obn' = obn \/ obn' = [obn EXCEPT ![First] = Nothing]
      /\ hix' = hix \/ hix' = [hix EXCEPT ![First] = Nothing]
  BY DEF MergeRemove, MergeRemoveGraph, texts
<1>5. hix \in [Names -> Maps] /\ obn \in [Names -> EntryMaps] /\ sets \subseteq Names
  BY DEF Shape, TypeOK, TextsOK
<1>6. hix' \in [Names -> Maps] /\ TextsOK' /\ sets' \subseteq Names
  BY <1>4, <1>5, TextsStep DEF Next, MergeStep
<1>7. TypeOK'
  BY <1>2, <1>4, <1>6 DEF Shape, TypeOK, history, session, merging
<1>8. A' = A
  BY <1>4 DEF A, First
<1>9. Shape'
  BY <1>1, <1>2, <1>4, <1>7, <1>8 DEF Shape, Making
<1> QED
  BY <1>1, <1>2, <1>3, <1>4, <1>5, <1>9

\* A merge ends with the last shard dropped.
LEMMA DoneShape ==
    ASSUME Shape, MergeDone
    PROVE  /\ Shape' /\ Len(shards) > 1 /\ job.phase = "dropped" /\ job'.phase = "no"
           /\ Len(shards') = First /\ \A i \in 1 .. First : shards'[i] = shards[i]
           /\ folds' = folds + 1 /\ shards' # <<>>
           /\ UNCHANGED <<isOpen, tuners, obn, sets, cuts, made, items, history, session, merges, reused>>
<1> USE NamesAre
<1>1. job.phase = "dropped" /\ Len(shards) > 1 /\ ~Making /\ isOpen
  BY DEF Making, MergeDone, Shape
<1>2. job' = NoJob /\ job' \in [phase : Phases, at : 0 .. MaxLabel, limit : Nat] /\ job'.phase = "no"
  BY DEF MergeDone, NoJob, Phases
<1>3. /\ shards' = SubSeq(shards, 1, First) /\ hix' = Save(B, hix) /\ folds' = folds + 1
      /\ mislaid' = {}
      /\ UNCHANGED <<isOpen, tuners, obn, sets, cuts, made, items, history, session, merges, reused>>
  BY DEF MergeDone, PopBack
<1>4. shards \in Seq(ShardType) /\ First \in 1 .. Len(shards) /\ B \in ShardType
      /\ hix \in [Names -> Maps] /\ Len(shards) <= MaxShard + 1
  BY <1>1, ShardsAre, FirstIs DEF Shape, TypeOK
<1>5. /\ shards' \in Seq(ShardType) /\ Len(shards') = First
      /\ \A i \in 1 .. First : shards'[i] = shards[i]
  BY <1>3, <1>4
<1>6. hix' \in [Names -> Maps]
  BY <1>3, <1>4, SaveIs
<1>7. \A i \in 1 .. Len(shards') : shards'[i].file \in {i - 1, Tmp}
  <2>1. \A i \in 1 .. Len(shards) : shards[i].file \in {i - 1, Tmp}
    BY DEF Shape, TypeOK
  <2>2. \A i \in 1 .. First : i \in 1 .. Len(shards) /\ shards'[i] = shards[i]
    BY <1>4, <1>5
  <2> QED BY <1>5, <2>1, <2>2, Zenon
<1>8. {rolls, folds, merges, sessions, crashes}' \subseteq Nat
  <2>1. folds \in Nat /\ {rolls, merges, sessions, crashes} \subseteq Nat
    BY DEF Shape, TypeOK
  <2> QED BY <1>3, <2>1 DEF session
<1>9. TypeOK'
  <2>1. /\ isOpen \in BOOLEAN /\ tuners \in Nat /\ sets \subseteq Names
        /\ made \in ShardType \cup {NoShard}
        /\ items \subseteq (1 .. MaxShard + 1) \X Labels \X Texts
        /\ docs \in 0 .. MaxDocs /\ rejected \in 0 .. MaxRejected /\ reused \in BOOLEAN
        /\ cleared \subseteq 1 .. docs /\ removed \subseteq Docs \X Names
    BY DEF Shape, TypeOK
  <2>2. UNCHANGED <<isOpen, tuners, sets, made, items, docs, rejected, reused, cleared, removed>>
    BY <1>3 DEF history
  <2>3. /\ isOpen' \in BOOLEAN /\ tuners' \in Nat /\ sets' \subseteq Names
        /\ made' \in ShardType \cup {NoShard}
        /\ items' \subseteq (1 .. MaxShard + 1) \X Labels \X Texts
        /\ docs' \in 0 .. MaxDocs /\ rejected' \in 0 .. MaxRejected /\ reused' \in BOOLEAN
        /\ cleared' \subseteq 1 .. docs' /\ removed' \subseteq Docs \X Names
    BY <2>1, <2>2, Zenon
  <2>0. TextsOK'
    BY TextsStep DEF Next, MergeStep
  <2>4. mislaid' \subseteq Docs
    BY <1>3
  <2> HIDE NamesAre
  <2> QED BY <1>2, <1>5, <1>6, <1>7, <1>8, <2>0, <2>3, <2>4 DEF TypeOK
<1>10. Len(shards') <= MaxShard + 1 /\ shards' # <<>>
  BY <1>4, <1>5
<1>11. Shape'
  BY <1>1, <1>2, <1>3, <1>9, <1>10 DEF Shape, Making, NoJob
<1> QED
  BY <1>1, <1>2, <1>3, <1>5, <1>10, <1>11

\* Every step of the specification keeps types and phases.
LEMMA ShapeStep == Shape /\ [Next]_vars => Shape'
<1> SUFFICES ASSUME Shape, [Next]_vars PROVE Shape'
  OBVIOUS
<1>1. CASE UNCHANGED vars
  <2>1. TypeOK'
    <3>1. TextsOK'
      BY TextsStep
    <3> QED BY <1>1, <3>1 DEF Shape, TypeOK, vars, files, mergeVars, history, session, merging
  <2> QED
    BY <1>1, <2>1 DEF Shape, Making, A, First, vars, files, mergeVars, history, session, merging
<1>2. CASE Death
  BY <1>2, DeathShape
<1> QED
  BY <1>1, <1>2, OpenShape, AppendShape, RemoveShape, ReadShape, WholeShape, BeginShape, CopyShape,
     TurnShape, OverflowShape, InstallShape, ReplaceShape, DoneShape DEF Next, MergeStep, Death

-----------------------------------------------------------------------------
(* Tuners.                                                                 *)

\* There are as many shards as there would be tuners, had rollover added one for each
\* new shard, and a merge taken one away.
TunersInv == isOpen /\ shards # <<>> => Len(shards) = tuners + rolls - folds

\* Every step keeps the count of shards against that of tuners.
LEMMA TunersStep == Shape /\ TunersInv /\ [Next]_vars => TunersInv'
<1> SUFFICES ASSUME Shape, TunersInv, [Next]_vars PROVE TunersInv'
  OBVIOUS
<1> USE ShardsAre DEF TunersInv
<1>0. tuners \in Nat /\ rolls \in Int /\ folds \in Int /\ Len(shards) \in Nat
  BY DEF Shape, TypeOK
<1>1. ASSUME UNCHANGED <<isOpen, tuners, rolls, folds>>, Len(shards') = Len(shards) \/ shards' = <<>>
      PROVE  TunersInv'
  <2>1. CASE shards = <<>>
    BY <1>1, <2>1
  <2> QED BY <1>0, <1>1, <2>1
<1>2. CASE Open
  <2>1. tuners' = Len(shards') /\ rolls' = 0 /\ folds' = 0
    BY <1>2, OpenShape DEF Open
  <2>2. tuners' \in Nat
    BY <1>2, OpenShape DEF Shape, TypeOK
  <2> QED BY <2>1, <2>2
<1>3. ASSUME NEW s \in ShardType, s.file = Current.file, Appending, Roll(s),
             UNCHANGED <<isOpen, tuners, folds>>
      PROVE  TunersInv'
  <2>1. isOpen /\ shards # <<>>
    BY <1>3, CurrentIs
  <2>2. (Full => Len(shards') = Len(shards) + 1 /\ rolls' = rolls + 1)
        /\ (~Full => Len(shards') = Len(shards) /\ rolls' = rolls)
    BY <1>3, RollIs
  <2> HIDE DEF Full
  <2> QED BY <1>0, <1>3, <2>1, <2>2
<1>4. CASE AppendChunk
  <2>1. PICK s \in ShardType : s.file = Current.file /\ Roll(s)
    BY <1>4, AppendIs
  <2> QED BY <1>3, <1>4, <2>1 DEF AppendChunk, merging
<1>5. CASE AppendRejected
  <2>1. TakeLabel(Current) \in ShardType /\ TakeLabel(Current).file = Current.file
    BY <1>5, CurrentIs, TakeLabelIs DEF AppendRejected
  <2> QED BY <1>3, <1>5, <2>1 DEF AppendRejected, merging
<1>6. CASE AppendRefused
  BY <1>3, <1>6, CurrentIs DEF AppendRefused, merging
<1>7. ASSUME NEW i \in 1 .. Len(shards), NEW l \in Labels, Remove(i, l) PROVE TunersInv'
  BY <1>1, <1>7, RemoveIs DEF session, merging
<1>8. CASE Flush \/ Clear
  <2>1. UNCHANGED <<isOpen, tuners, rolls, folds>>
    BY <1>8 DEF Flush, Clear, session, merging
  <2>2. Len(shards') = Len(shards) \/ shards' = <<>>
    BY <1>8 DEF Flush, Clear
  <2> QED BY <1>1, <2>1, <2>2
<1>9. CASE Close \/ Death
  BY <1>9, DeathIs DEF Close
<1>10. ASSUME NEW mode \in Modes, MergeBegin(mode) PROVE TunersInv'
  BY <1>1, <1>10 DEF MergeBegin, session
<1>11. CASE Copy \/ AddItem \/ CopyEmpty \/ CopyDone \/ AddDone \/ MergeFlush \/ CopyOverflows
            \/ MergeRemove \/ MergeRemoveGraph
  BY <1>1, <1>11
     DEF Copy, AddItem, CopyEmpty, CopyDone, AddDone, MergeFlush, CopyOverflows, MergeRemove,
         MergeRemoveGraph, session, merging
<1>12. CASE MergeInstall
  BY <1>1, <1>12, InstallShape DEF session, merging
<1>13. CASE MergeDone
  <2>1. isOpen /\ shards # <<>> /\ folds' = folds + 1 /\ Len(shards') = Len(shards) - 1
        /\ tuners' = tuners /\ rolls' = rolls
    BY <1>13, DoneShape DEF Shape, First, session
  <2> QED BY <1>0, <2>1
<1>14. CASE UNCHANGED vars
  BY <1>1, <1>14 DEF vars, session, merging
<1>15. ASSUME NEW i \in 1 .. Len(shards), ReadText(i) PROVE TunersInv'
  BY <1>1, <1>15, ReadIs DEF session, merging
<1> QED
  BY <1>15, <1>2, <1>4, <1>5, <1>6, <1>7, <1>8, <1>9, <1>10, <1>11, <1>12, <1>13, <1>14
     DEF Next, MergeStep, Death

\* For any number of shards, labels and merges: a search reads beyond the tuners exactly
\* when in this session more shards were rolled over to than merged away.
THEOREM TunersMatchHolds == Spec => []TunersMatch
<1>1. Init => TunersInv
  BY DEF Init, TunersInv
<1>2. Shape /\ TunersInv => TunersMatch
  <2> SUFFICES ASSUME Shape, TunersInv, Idle, shards # <<>>
               PROVE  tuners < Len(shards) <=> rolls > folds
    BY DEF TunersMatch, Shape
  <2>1. tuners \in Nat /\ rolls \in Int /\ folds \in Int /\ Len(shards) = tuners + rolls - folds
    BY DEF Shape, TypeOK, TunersInv, Idle
  <2> QED BY <2>1
<1> QED
  BY <1>1, <1>2, ShapeInit, ShapeStep, TunersStep, PTL DEF Spec

-----------------------------------------------------------------------------
(* Entries.                                                                *)

\* A text is copied: to the next label of the shard that a merge makes, unless it is
\* refused, and to what names the end of its file.
Copied(l, d) ==
    /\ Making /\ (Copy \/ AddItem) /\ FromSource(d) /\ d \in Texts
    /\ (l = made.next /\ d # Refused) \/ obn[Tmp][l] = Beyond

\* Where an entry may come from.
LEMMA EntriesStep ==
    ASSUME Shape, [Next]_vars, NEW n \in Names, NEW l \in Labels
    PROVE  \/ obn'[n][l] = obn[n][l] \/ obn'[n][l] = 0
           \/ obn'[n][l] = Beyond /\ Death /\ l \in unwritten[n]
           \/ /\ AppendChunk /\ n = Current.file /\ (l = Label(Current) \/ obn[n][l] = Beyond)
              /\ obn'[n][l] = docs + 1 /\ docs' = docs + 1
              /\ l # Label(Current) => shared' = shared \cup {docs + 1}
           \/ AppendRejected /\ obn[n][l] = Beyond /\ obn'[n][l] = Refused
           \/ n = Tmp /\ Copied(l, obn'[n][l])
<1> DEFINE Goal ==
           \/ obn'[n][l] = obn[n][l] \/ obn'[n][l] = 0
           \/ obn'[n][l] = Beyond /\ Death /\ l \in unwritten[n]
           \/ /\ AppendChunk /\ n = Current.file /\ (l = Label(Current) \/ obn[n][l] = Beyond)
              /\ obn'[n][l] = docs + 1 /\ docs' = docs + 1
              /\ l # Label(Current) => shared' = shared \cup {docs + 1}
           \/ AppendRejected /\ obn[n][l] = Beyond /\ obn'[n][l] = Refused
           \/ n = Tmp /\ Copied(l, obn'[n][l])
<1>0. obn \in [Names -> [Labels -> Texts \cup {0}]] /\ TextsOK /\ unwritten \in [Names -> SUBSET Labels]
  BY DEF Shape, TypeOK, TextsOK, EntryMaps
<1>1. CASE obn' = obn
  BY <1>1
<1>2. CASE AppendChunk
  <2> DEFINE f == Current.file
             m == Label(Current)
  <2>1. /\ StoreText(f, {m}, docs', unwritten) /\ docs' = docs + 1 /\ docs' \in Texts
        /\ f \in Names /\ m \in Labels
        /\ (\E k \in Labels \ {m} : obn[f][k] = Beyond) => shared' = shared \cup {docs'}
    BY <1>2, AppendIs, TextsAre
  <2> HIDE DEF f, m
  <2>2. /\ n # f => obn'[n] = obn[n]
        /\ obn'[f][l] = IF l \in {m} \/ obn[f][l] = Beyond THEN docs' ELSE obn[f][l]
    <3>1. {m} \subseteq Labels
      BY <2>1
    <3>2. Stored(f, {m}, docs')
      BY <1>0, <2>1, <3>1, StoreTextIs
    <3> QED BY <3>2 DEF Stored
  <2> QED BY <1>2, <2>1, <2>2 DEF f, m
<1>3. ASSUME NEW i \in 1 .. Len(shards), NEW k \in Labels, Remove(i, k) PROVE Goal
  <2>1. obn' = [obn EXCEPT ![shards[i].file][k] = 0] /\ shards[i].file \in Names
    BY <1>3, RemoveIs, ShardsAre DEF ShardType
  <2>2. obn'[n][l] = IF n = shards[i].file /\ l = k THEN 0 ELSE obn[n][l]
    BY <1>0, <2>1
  <2> QED BY <2>2
<1>4. CASE Clear
  BY <1>0, <1>4 DEF Clear, Nothing
<1>5. CASE AppendRejected
  <2> DEFINE f == Current.file
  <2>1. StoreText(f, {}, Refused, unwritten) /\ f \in Names /\ Refused \in Texts
    BY <1>5, CurrentIs, TextsAre DEF AppendRejected
  <2> HIDE DEF f
  <2>2. /\ n # f => obn'[n] = obn[n]
        /\ obn'[f][l] = IF l \in {} \/ obn[f][l] = Beyond THEN Refused ELSE obn[f][l]
    <3>1. Stored(f, {}, Refused)
      BY <1>0, <2>1, StoreTextIs
    <3> QED BY <3>1 DEF Stored
  <2> QED BY <1>5, <2>2
<1>6. CASE Copy \/ AddItem \/ CopyEmpty
  <2>1. CASE UNCHANGED <<made, hix, texts>>
    BY <1>1, <2>1 DEF texts
  <2>2. ASSUME NEW d \in Texts, NEW w \in [Names -> SUBSET Labels], Add(d, w), FromSource(d), Copy \/ AddItem
        PROVE  Goal
    <3>0. Making
      BY <1>6, CopyTexts
    <3>1. /\ \A m \in Base : obn'[m] = obn[m]
          /\ obn'[Tmp][l] = IF (d # Refused /\ l = made.next) \/ obn[Tmp][l] = Beyond THEN d ELSE obn[Tmp][l]
      BY <2>2, <3>0, AddIs
    <3>2. n = Tmp \/ n \in Base
      BY NamesAre
    <3> QED BY <2>2, <3>0, <3>1, <3>2 DEF Copied
  <2> QED BY <1>6, <2>1, <2>2, CopyTexts
<1>8. CASE MergeRemove
  <2>1. obn' = [obn EXCEPT ![First] = Nothing]
    BY <1>8 DEF MergeRemove
  <2>2. obn'[n] = obn[n] \/ obn'[n] = Nothing
    BY <1>0, <2>1
  <2> QED BY <2>2 DEF Nothing
<1>9. CASE UNCHANGED vars
  BY <1>1, <1>9 DEF vars, files, texts
<1>10. ASSUME NEW mode \in Modes, MergeBegin(mode) PROVE Goal
  BY <1>1, <1>10 DEF MergeBegin
<1>11. CASE Open \/ AppendRefused \/ Flush \/ Close \/ CopyDone \/ AddDone \/ CopyOverflows
            \/ MergeFlush \/ MergeInstall \/ MergeRemoveGraph \/ MergeDone
  BY <1>1, <1>11
     DEF Open, AppendRefused, Flush, Close,
         CopyDone, AddDone, CopyOverflows, MergeFlush, MergeInstall,
         MergeRemoveGraph, MergeDone, files, texts
<1>12. ASSUME NEW i \in 1 .. Len(shards), ReadText(i) PROVE Goal
  BY <1>1, <1>12, ReadIs
<1>13. CASE Death
  BY <1>13, DeathIs
<1> QED
  BY <1>2, <1>3, <1>4, <1>5, <1>6, <1>8, <1>9, <1>10, <1>11, <1>12, <1>13 DEF Next, MergeStep, Death

\* No text waits in a buffer but for an entry.
Waiting == \A n \in Names : \A l \in unwritten[n] : obn[n][l] # 0

\* What is stored has its entries.
LEMMA StoredWaits ==
    ASSUME TextsOK, Waiting, NEW n \in Names, NEW own, own \subseteq Labels, NEW d \in Texts,
           NEW w, w \in [Names -> SUBSET Labels], \A m \in Names : w[m] \subseteq unwritten[m],
           StoreText(n, own, d, w)
    PROVE  Waiting'
<1>1. Stored(n, own, d)
  BY StoreTextIs
<1>2. PICK left \in {{}, Shows(n, own)} : unwritten' = [w EXCEPT ![n] = left]
  BY DEF StoreText
<1>3. d # 0
  BY TextsAre
<1>4. ASSUME NEW m \in Names, NEW l \in unwritten'[m], m # n PROVE obn'[m][l] # 0
  BY <1>1, <1>2, <1>4 DEF Stored, Waiting
<1>5. ASSUME NEW l \in unwritten'[n] PROVE obn'[n][l] # 0
  <2>1. l \in Labels /\ (l \in own \/ obn[n][l] = Beyond)
    BY <1>2, <1>5 DEF Shows
  <2> QED BY <1>1, <1>3, <2>1 DEF Stored
<1> QED
  BY <1>4, <1>5 DEF Waiting

\* Every step keeps buffers to what has entries.
LEMMA WaitingStep == Shape /\ Waiting /\ [Next]_vars => Waiting'
<1> SUFFICES ASSUME Shape, Waiting, [Next]_vars PROVE Waiting'
  OBVIOUS
<1> USE NamesAre, TextsAre
<1>1. TextsOK /\ obn \in [Names -> EntryMaps] /\ unwritten \in [Names -> SUBSET Labels]
      /\ \A m \in Names : unwritten[m] \subseteq unwritten[m]
  BY DEF Shape, TypeOK, TextsOK
<1>2. \A ns : \A n \in Names : WrittenOut(ns)[n] = IF n \in ns THEN {} ELSE unwritten[n]
  BY <1>1, WrittenOutIs
<1>3. CASE UNCHANGED texts
  BY <1>3 DEF Waiting, texts
<1>4. CASE UNCHANGED vars \/ Open \/ AppendRefused \/ Flush \/ CopyDone \/ AddDone \/ MergeFlush
           \/ MergeRemoveGraph
  <2>1. UNCHANGED texts
    BY <1>4 DEF vars, files, Open, AppendRefused, Flush, CopyDone, AddDone, MergeFlush, MergeRemoveGraph
  <2> QED BY <1>3, <2>1
<1>5. CASE AppendChunk
  <2>1. /\ StoreText(Current.file, {Label(Current)}, docs', unwritten) /\ Current.file \in Names
        /\ {Label(Current)} \subseteq Labels /\ docs' \in Texts
    BY <1>5, AppendIs
  <2> QED BY <1>1, <2>1, StoredWaits
<1>6. CASE AppendRejected
  <2>1. StoreText(Current.file, {}, Refused, unwritten) /\ Current.file \in Names /\ {} \subseteq Labels
    BY <1>6, CurrentIs DEF AppendRejected
  <2> QED BY <1>1, <2>1, StoredWaits
<1>7. ASSUME NEW i \in 1 .. Len(shards), NEW l \in Labels, Remove(i, l) PROVE Waiting'
  <2>1. /\ obn' = [obn EXCEPT ![shards[i].file][l] = 0] /\ shards[i].file \in Names
        /\ unwritten' = [unwritten EXCEPT ![shards[i].file] = @ \ {l}]
    BY <1>7, RemoveIs, EntryIs
  <2>2. \A n \in Names : \A k \in unwritten'[n] :
           k \in unwritten[n] /\ k \in Labels /\ ~(n = shards[i].file /\ k = l)
    BY <1>1, <2>1
  <2>3. \A n \in Names, k \in Labels : ~(n = shards[i].file /\ k = l) => obn'[n][k] = obn[n][k]
    BY <1>1, <2>1 DEF EntryMaps
  <2>4. ASSUME NEW n \in Names, NEW k \in unwritten'[n] PROVE obn'[n][k] # 0
    <3>1. k \in unwritten[n] /\ k \in Labels /\ obn'[n][k] = obn[n][k]
      BY <2>2, <2>3
    <3> QED BY <3>1 DEF Waiting
  <2> QED BY <2>4 DEF Waiting
<1>8. ASSUME NEW ns, unwritten' = WrittenOut(ns), \A n \in Names : n \notin ns => obn'[n] = obn[n]
      PROVE  Waiting'
  <2>1. ASSUME NEW n \in Names, NEW k \in unwritten'[n] PROVE obn'[n][k] # 0
    <3>1. n \notin ns /\ k \in unwritten[n]
      BY <1>2, <1>8, <2>1
    <3> QED BY <1>8, <3>1 DEF Waiting
  <2> QED BY <2>1 DEF Waiting
<1>9. ASSUME NEW i \in 1 .. Len(shards), ReadText(i) PROVE Waiting'
  BY <1>8, <1>9, ReadIs
<1>10. CASE Clear
  <2>1. /\ obn' = [n \in Names |-> IF n \in OpenFiles THEN Nothing ELSE obn[n]]
        /\ unwritten' = WrittenOut(OpenFiles)
    BY <1>10 DEF Clear
  <2> QED BY <1>8, <2>1
<1>11. CASE Close
  BY <1>8, <1>11 DEF Close
<1>12. ASSUME NEW mode \in Modes, MergeBegin(mode) PROVE Waiting'
  <2>1. unwritten' = WrittenOut(IF mode = "serial" THEN {} ELSE {shards[t[1]].file : t \in Collected})
        /\ UNCHANGED obn
    BY <1>12 DEF MergeBegin
  <2> QED BY <1>8, <2>1
<1>13. CASE CopyOverflows \/ MergeInstall \/ MergeDone
  BY <1>8, <1>13 DEF CopyOverflows, MergeInstall, MergeDone
<1>14. CASE MergeRemove
  <2>1. unwritten' = WrittenOut({First}) /\ obn' = [obn EXCEPT ![First] = Nothing]
    BY <1>14 DEF MergeRemove
  <2>2. \A n \in Names : n \notin {First} => obn'[n] = obn[n]
    BY <1>1, <2>1
  <2> QED BY <1>8, <2>1, <2>2
<1>16. CASE Copy \/ AddItem \/ CopyEmpty
  <2>1. ASSUME NEW d \in Texts, NEW w \in [Names -> SUBSET Labels], Add(d, w),
               \A m \in Names : w[m] \subseteq unwritten[m]
        PROVE  Waiting'
    <3>1. Making
      BY <1>16, CopyTexts
    <3>2. made.next \in Labels /\ StoreText(Tmp, IF d = Refused THEN {} ELSE {made.next}, d, w)
      BY <2>1, <3>1, AddIs
    <3>3. (IF d = Refused THEN {} ELSE {made.next}) \subseteq Labels
      BY <3>2
    <3> QED BY <1>1, <2>1, <3>2, <3>3, StoredWaits
  <2> QED BY <1>3, <1>16, <2>1, CopyTexts
<1>17. CASE Death
  BY <1>17, DeathIs DEF Waiting
<1> QED
  BY <1>4, <1>5, <1>6, <1>7, <1>9, <1>10, <1>11, <1>12, <1>13, <1>14, <1>16, <1>17
  DEF Next, MergeStep, Death

\* What is still to be added only shrinks, once a merge has collected it.
LEMMA ItemsStep ==
    ASSUME Shape, [Next]_vars
    PROVE  items' \subseteq items \/ (items' \subseteq Collected /\ Len(shards) > 1)
<1>1. ASSUME NEW mode \in Modes, MergeBegin(mode) PROVE items' = {} \/ (items' \subseteq Collected /\ Len(shards) > 1)
  BY <1>1, GatheredIs DEF MergeBegin
<1>2. CASE Death
  BY <1>2, DeathIs
<1> QED
  BY <1>1, <1>2
     DEF Next, MergeStep, Death, vars, mergeVars, Open, AppendChunk, AppendRejected, AppendRefused, Remove,
         ReadText, Flush, Clear, Close, Copy, CopyEmpty, CopyDone, AddItem, AddDone, CopyOverflows,
         MergeFlush, MergeInstall, MergeRemove, MergeRemoveGraph, MergeDone

-----------------------------------------------------------------------------
(* Labels.                                                                 *)

\* While the embedder refused nothing no text is one that it refuses.
NoneRefused ==
    rejected = 0 => /\ \A n \in Names, l \in Labels : obn[n][l] # Refused
                    /\ \A t \in items : t[3] # Refused

\* So a merge is handed none.
LEMMA SourceAccepted ==
    ASSUME Shape, NoneRefused, rejected = 0, NEW d, FromSource(d)
    PROVE  d # Refused
<1>1. ASSUME NEW i \in 1 .. Len(shards), NEW l \in Labels PROVE Entry(shards[i], l) # Refused
  BY EntryIs DEF NoneRefused
<1>2. \A t \in items : t[3] # Refused
  BY DEF NoneRefused
<1> QED
  BY <1>1, <1>2 DEF FromSource

\* Only append hands it one.
LEMMA RejectedGrows ==
    ASSUME Shape, [Next]_vars
    PROVE  /\ rejected \in Nat /\ (rejected' = rejected \/ (AppendRejected /\ rejected' = rejected + 1))
           /\ rejected' = 0 => rejected = 0 /\ ~AppendRejected
<1>1. rejected \in Nat
  BY NamesAre DEF Shape, TypeOK
<1>2. ASSUME Death PROVE rejected' = rejected
  BY <1>2, DeathIs DEF history
<1>3. rejected' = rejected \/ (AppendRejected /\ rejected' = rejected + 1)
  BY <1>2
     DEF Next, MergeStep, Death, vars, history, Open, AppendChunk, AppendRejected, AppendRefused, Remove,
         ReadText, Flush, Clear, Close, MergeBegin, Copy, CopyEmpty, CopyDone, AddItem, AddDone,
         CopyOverflows, MergeFlush, MergeInstall, MergeRemove, MergeRemoveGraph, MergeDone
<1>4. AppendRejected => rejected' = rejected + 1
  BY DEF AppendRejected
<1> QED
  BY <1>1, <1>3, <1>4

\* Every step keeps such texts away.
LEMMA NoneRefusedStep == Shape /\ NoneRefused /\ [Next]_vars => NoneRefused'
<1> SUFFICES ASSUME Shape, NoneRefused, [Next]_vars, rejected' = 0
             PROVE  /\ \A n \in Names, l \in Labels : obn'[n][l] # Refused
                    /\ \A t \in items' : t[3] # Refused
  BY DEF NoneRefused
<1> USE NamesAre, TextsAre
<1>1. rejected = 0 /\ ~AppendRejected /\ docs \in Nat
  BY RejectedGrows DEF Shape, TypeOK
<1>2. /\ \A n \in Names, l \in Labels : obn[n][l] # Refused
      /\ \A t \in items : t[3] # Refused
  BY <1>1 DEF NoneRefused
<1>3. \A i \in 1 .. Len(shards), l \in Labels : Entry(shards[i], l) # Refused
  BY <1>2, EntryIs
<1>4. ASSUME NEW n \in Names, NEW l \in Labels PROVE obn'[n][l] # Refused
  <2>1. ASSUME Copied(l, obn'[n][l]) PROVE obn'[n][l] # Refused
    BY <1>2, <1>3, <2>1 DEF Copied, FromSource
  <2>2. ASSUME AppendChunk PROVE docs + 1 # Refused
    BY <1>1, <2>2 DEF AppendChunk, Refused
  <2>3. Refused # 0
    BY DEF Refused
  <2> QED BY <1>1, <1>2, <2>1, <2>2, <2>3, EntriesStep
<1>5. ASSUME NEW t \in items' PROVE t[3] # Refused
  <2>1. CASE t \in items
    BY <1>2, <2>1
  <2>2. CASE t \in Collected /\ Len(shards) > 1
    <3>1. t[1] \in 1 .. Len(shards) /\ t[2] \in Labels /\ t[3] = Entry(shards[t[1]], t[2])
      BY <2>2, CollectedIs, FirstIs
    <3> QED BY <1>3, <3>1
  <2> QED BY <2>1, <2>2, ItemsStep
<1> QED
  BY <1>4, <1>5

\* Every label that was handed out has a vector.
UsedUp(s) == \A l \in Labels : l < s.next => s.vec[l] # 0
\* While the embedder refused nothing every label that was handed out has a vector.
UsedInv ==
    rejected = 0 => /\ \A i \in 1 .. Len(shards) : UsedUp(shards[i])
                    /\ Making => UsedUp(made)

\* A chunk that is put leaves no label behind it without a vector.
LEMMA PutUsesUp ==
    ASSUME NEW s \in ShardType, UsedUp(s), NEW t \in ShardType, NEW d \in Docs,
           Label(s) < MaxLabel, t.vec = [s.vec EXCEPT ![Label(s)] = d], t.next = TakeLabel(s).next
    PROVE  UsedUp(t)
<1>1. Label(s) \in Labels /\ (t.next = s.next \/ (t.next = s.next + 1 /\ Label(s) = s.next))
  BY TakeLabelIs
<1>2. s.vec \in [Labels -> 0 .. MaxDocs] /\ s.next \in Nat
  BY DEF ShardType, Maps
<1>3. d # 0 /\ Labels \subseteq Nat
  BY NamesAre DEF Docs
<1> HIDE DEF Label, TakeLabel
<1> SUFFICES ASSUME NEW l \in Labels, l < t.next PROVE t.vec[l] # 0
  BY DEF UsedUp
<1>4. l < s.next \/ l = Label(s)
  BY <1>1, <1>2, <1>3
<1> QED BY <1>1, <1>2, <1>3, <1>4 DEF UsedUp

\* Every step keeps labels used up while nothing is refused.
LEMMA UsedStep == Shape /\ NoneRefused /\ UsedInv /\ [Next]_vars => UsedInv'
<1> SUFFICES ASSUME Shape, NoneRefused, UsedInv, [Next]_vars, rejected' = 0
             PROVE  /\ \A i \in 1 .. Len(shards') : UsedUp(shards'[i])
                    /\ Making' => UsedUp(made')
  BY DEF UsedInv, UsedUp, Making
<1> DEFINE Goal == /\ \A i \in 1 .. Len(shards') : UsedUp(shards'[i])
                   /\ Making' => UsedUp(made')
<1> USE NamesAre
<1>0. ASSUME rejected = 0 PROVE /\ \A i \in 1 .. Len(shards) : UsedUp(shards[i])
                                /\ Making => UsedUp(made)
  BY <1>0 DEF UsedInv
<1>1. ASSUME NEW s \in ShardType, s.next = 0 PROVE UsedUp(s)
  BY <1>1 DEF UsedUp
<1>2. ASSUME rejected' = rejected, Len(shards') = Len(shards), ~Making' \/ (Making /\ made' = made),
             \A i \in 1 .. Len(shards) : shards'[i].vec = shards[i].vec /\ shards'[i].next = shards[i].next
      PROVE  Goal
  BY <1>0, <1>2 DEF UsedUp
<1>3. CASE Open
  <2>1. /\ \A i \in 1 .. Len(shards') : shards'[i] = OpenShard(i - 1, MaxElements) /\ i - 1 \in Names
        /\ ~Making'
    BY <1>3, OpenShape DEF Open, mergeVars, Making
  <2>2. \A i \in 1 .. Len(shards') : shards'[i] \in ShardType /\ shards'[i].next = 0
    BY <2>1, OpenShardIs, SMTT(30) DEF Shape
  <2>3. ASSUME NEW i \in 1 .. Len(shards') PROVE UsedUp(shards'[i])
    <3>1. PICK s \in ShardType : s = shards'[i] /\ s.next = 0
      BY <2>2
    <3> QED BY <1>1, <3>1
  <2> QED BY <2>1, <2>3
<1>4. ASSUME NEW s \in ShardType, s.file = Current.file, Appending, Roll(s), UsedUp(s),
             rejected' = rejected, job' = job
      PROVE  Goal
  <2>1. ~Making'
    BY <1>4, CurrentIs DEF Making
  <2>2. /\ shards'[Len(shards')] = s
        /\ \A i \in 1 .. Len(shards') :
              i # Len(shards') => i \in 1 .. Len(shards) /\ shards'[i] = shards[i]
    BY <1>4, RollIs
  <2>3. \A i \in 1 .. Len(shards) : UsedUp(shards[i])
    BY <1>0, <1>4
  <2>4. ASSUME NEW i \in 1 .. Len(shards') PROVE UsedUp(shards'[i])
    <3>1. CASE i = Len(shards')
      BY <1>4, <2>2, <3>1
    <3>2. CASE i # Len(shards')
      BY <2>2, <2>3, <3>2
    <3> QED BY <3>1, <3>2
  <2> QED BY <2>1, <2>4
<1>5. ASSUME Appending, rejected = 0 PROVE Current \in ShardType /\ UsedUp(Current)
  <2>1. CASE Full
    <3>1. Current \in ShardType /\ Current = OpenShard(Len(shards), MaxElements) /\ Len(shards) \in Base
      BY <1>5, <2>1, CurrentIs
    <3>2. Current.next = 0
      BY <3>1, OpenShardIs DEF Shape
    <3> QED BY <1>1, <3>1, <3>2
  <2>2. CASE ~Full
    <3>1. Current \in ShardType /\ Current = shards[Len(shards)] /\ Len(shards) \in 1 .. Len(shards)
      BY <1>5, <2>2, CurrentIs, ShardsAre
    <3> QED BY <1>0, <1>5, <3>1
  <2> QED BY <2>1, <2>2
<1>6. CASE AppendChunk
  <2>1. PICK s \in ShardType :
           /\ s.file = Current.file /\ Roll(s)
           /\ s.vec = [Current.vec EXCEPT ![Label(Current)] = docs']
           /\ s.next = TakeLabel(Current).next
    BY <1>6, AppendIs
  <2>2. Appending /\ rejected' = rejected /\ job' = job /\ Label(Current) < MaxLabel
    BY <1>6 DEF AppendChunk, mergeVars
  <2>3. docs' \in Docs
    BY <1>6, AppendIs DEF Docs
  <2>4. PICK d \in Docs : d = docs'
    BY <2>3
  <2>5. UsedUp(s)
    BY <1>5, <2>1, <2>2, <2>4, PutUsesUp
  <2> QED BY <1>4, <2>1, <2>2, <2>5
<1>7. CASE AppendRejected
  <2>1. rejected' = rejected + 1 /\ rejected \in Nat
    BY <1>7 DEF AppendRejected, Shape, TypeOK
  <2> QED BY <2>1
<1>8. CASE AppendRefused
  BY <1>4, <1>5, <1>8, CurrentIs DEF AppendRefused, history, mergeVars
<1>9. ASSUME NEW i \in 1 .. Len(shards), NEW l \in Labels, Remove(i, l) PROVE Goal
  <2>1. Len(shards') = Len(shards) /\ rejected' = rejected /\ job' = job /\ made' = made
        /\ \A j \in 1 .. Len(shards) : shards'[j].vec = shards[j].vec /\ shards'[j].next = shards[j].next
    BY <1>9, RemoveIs DEF mergeVars
  <2> QED BY <1>2, <2>1 DEF Making
<1>10. CASE Flush
  <2>1. shards' = [i \in 1 .. Len(shards) |-> Saved(shards[i])] /\ rejected' = rejected
        /\ job' = job /\ made' = made
    BY <1>10 DEF Flush, history, mergeVars
  <2>2. Len(shards') = Len(shards)
        /\ \A j \in 1 .. Len(shards) : shards'[j].vec = shards[j].vec /\ shards'[j].next = shards[j].next
    BY <2>1, ShardsAre, SavedIs
  <2> QED BY <1>2, <2>1, <2>2 DEF Making
<1>11. CASE Clear \/ Close \/ Death
  <2>1. shards' = <<>> /\ Len(shards') = 0
    BY <1>11, DeathIs DEF Clear, Close
  <2>2. ~Making'
    BY <1>11, DeathIs DEF Clear, Close, Idle, NoJob, Making, mergeVars
  <2> QED BY <2>1, <2>2
<1>12. ASSUME NEW mode \in Modes, MergeBegin(mode) PROVE Goal
  <2>1. made' \in ShardType /\ made'.next = 0 /\ shards' = shards /\ rejected' = rejected
    BY <1>12, BeginIs DEF history
  <2>2. UsedUp(made')
    BY <1>1, <2>1
  <2> QED BY <1>0, <2>1, <2>2
<1>13. CASE Copy \/ AddItem \/ CopyEmpty
  <2>1. Making /\ shards' = shards /\ rejected' = rejected
    BY <1>13, CopyShape DEF history
  <2>2. made \in ShardType /\ made.free = <<>> /\ UsedUp(made) /\ made.next \in 0 .. MaxLabel
    BY <1>0, <2>1, MakingIs
  <2>3. ASSUME NEW d \in Texts, NEW w \in [Names -> SUBSET Labels], Add(d, w), FromSource(d)
        PROVE  UsedUp(made')
    <3>0. d # Refused
      <4>1. rejected = 0
        BY <2>1
      <4> QED BY <2>3, <4>1, SourceAccepted
    <3>1. made.next \in Labels /\ made'.vec = [made.vec EXCEPT ![made.next] = d]
          /\ made'.next = made.next + 1 /\ made' \in ShardType /\ d \in Docs
      BY <2>1, <2>3, <3>0, AddIs, TextsAre
    <3>2. Label(made) = made.next /\ made.next < MaxLabel
      BY <2>2, <3>1 DEF Label, Labels
    <3>3. TakeLabel(made).next = made.next + 1
      BY <2>2, <3>2, TakeLabelIs
    <3>4. PICK t \in ShardType : t = made'
      BY <3>1
    <3> QED BY <2>2, <3>1, <3>2, <3>3, <3>4, PutUsesUp
  <2>4. \/ \E d \in Texts, w \in [Names -> SUBSET Labels] : Add(d, w) /\ FromSource(d)
        \/ made' = made
    BY <1>13, CopyTexts
  <2>5. UsedUp(made')
    BY <2>2, <2>3, <2>4
  <2> QED BY <1>0, <2>1, <2>5
<1>14. CASE CopyDone \/ AddDone \/ MergeFlush
  <2>1. Making /\ shards' = shards /\ rejected' = rejected /\ made'.vec = made.vec /\ made'.next = made.next
    BY <1>14, TurnShape DEF history
  <2> QED BY <1>0, <2>1 DEF UsedUp
<1>15. CASE CopyOverflows
  <2>1. shards' = shards /\ rejected' = rejected /\ ~Making'
    BY <1>15, OverflowShape DEF history, Making
  <2> QED BY <1>0, <2>1
<1>16. CASE MergeInstall
  <2>1. Making /\ Len(shards') = Len(shards) /\ shards'[First] = made /\ ~Making' /\ rejected' = rejected
        /\ \A i \in 1 .. Len(shards) : i # First => shards'[i] = shards[i]
    BY <1>16, InstallShape DEF history, Making
  <2> QED BY <1>0, <2>1
<1>17. CASE MergeRemove \/ MergeRemoveGraph
  <2>1. shards' = shards /\ rejected' = rejected /\ ~Making'
    BY <1>17, ReplaceShape DEF history, Making
  <2> QED BY <1>0, <2>1
<1>18. CASE MergeDone
  <2>1. Len(shards') = First /\ (\A i \in 1 .. First : shards'[i] = shards[i]) /\ rejected' = rejected
        /\ ~Making' /\ First \in Nat /\ First + 1 = Len(shards)
    BY <1>18, DoneShape, FirstIs DEF history, Making
  <2> QED BY <1>0, <2>1
<1>19. CASE UNCHANGED vars
  BY <1>2, <1>19 DEF vars, history, mergeVars, Making
<1>20. ASSUME NEW i \in 1 .. Len(shards), ReadText(i) PROVE Goal
  BY <1>2, <1>20, ReadIs DEF history, mergeVars, Making
<1> QED
  BY <1>20, <1>3, <1>6, <1>7, <1>8, <1>9, <1>10, <1>11, <1>12, <1>13, <1>14, <1>15, <1>16, <1>17,
     <1>18, <1>19 DEF Next, MergeStep, Death

\* For any bounds: a shard that has no label left, and still does not count as full, has
\* lost labels to chunks that the embedder refused, or is a merged one.
THEOREM StuckHasCauseHolds == Spec => []StuckHasCause
<1>1. Init => UsedInv
  BY DEF Init, UsedInv, Making, NoJob
<1>2. Shape /\ UsedInv => StuckHasCause
  <2> SUFFICES ASSUME Shape, UsedInv, Idle, shards # <<>>, ~Full, RunsOut(Last), Last.file # Tmp, rejected = 0
               PROVE  FALSE
    BY NamesAre, SMTT(30) DEF StuckHasCause, Shape, TypeOK
  <2>1. Last \in ShardType /\ Last = shards[Len(shards)] /\ Len(shards) \in 1 .. Len(shards)
    BY ShardsAre DEF Last
  <2>2. \A l \in Labels : l < Last.next => Last.vec[l] # 0
    BY <2>1 DEF UsedInv, UsedUp
  <2>3. Last.next >= MaxElements
    BY DEF RunsOut
  <2> QED BY <2>1, <2>2, <2>3, SizeIs DEF Full
<1>3. Init => NoneRefused
  BY NamesAre DEF Init, NoneRefused, Nothing, Refused
<1> QED
  BY <1>1, <1>2, <1>3, ShapeInit, ShapeStep, NoneRefusedStep, UsedStep, PTL DEF Spec

-----------------------------------------------------------------------------
(* Docs.                                                                   *)

\* docs counts: no entry, text or removal is newer.
Fresh ==
    /\ \A n \in Names, l \in Labels : obn[n][l] \in Docs => obn[n][l] <= docs
    /\ \A t \in items : t[3] \in Docs => t[3] <= docs
    /\ \A r \in removed : r[1] <= docs

\* Only append makes a doc, one at a time; the new one may be shared, no other.
LEMMA DocsGrow ==
    ASSUME Shape, [Next]_vars
    PROVE  /\ docs \in Nat /\ (docs' = docs \/ (docs' = docs + 1 /\ AppendChunk)) /\ docs' >= docs
           /\ shared' = shared \/ (AppendChunk /\ shared' = shared \cup {docs + 1})
           /\ AppendChunk => docs' = docs + 1
           /\ shared \subseteq 1 .. docs
<1>1. docs \in Nat /\ shared \subseteq 1 .. docs
  BY DEF Shape, TypeOK, TextsOK
<1>2. ASSUME Death PROVE docs' = docs /\ shared' = shared
  BY <1>2, DeathIs DEF history
<1>3. AppendChunk => docs' = docs + 1 /\ shared' \in {shared, shared \cup {docs'}}
  BY DEF AppendChunk
<1>4. (docs' = docs /\ shared' = shared) \/ AppendChunk
  BY <1>2
     DEF Next, MergeStep, Death, vars, history, Open, AppendRejected, AppendRefused, Remove,
         ReadText, Flush, Clear, Close, MergeBegin, Copy, CopyEmpty, CopyDone, AddItem, AddDone,
         CopyOverflows, MergeFlush, MergeInstall, MergeRemove, MergeRemoveGraph, MergeDone
<1> QED BY <1>1, <1>3, <1>4

\* Only remove takes a doc out by hand, and it notes where.
LEMMA RemovedStep ==
    ASSUME Shape, [Next]_vars
    PROVE  \/ removed' = removed
           \/ \E i \in 1 .. Len(shards), l \in Labels :
                /\ Remove(i, l)
                /\ removed' = removed \cup (({Entry(shards[i], l)} \cap Docs) \X {shards[i].file})
<1>1. ASSUME Death PROVE removed' = removed
  BY <1>1, DeathIs DEF history
<1> QED
  BY <1>1
     DEF Next, MergeStep, Death, vars, history, Open, AppendChunk, AppendRejected, AppendRefused, Remove,
         ReadText, Flush, Clear, Close, MergeBegin, Copy, CopyEmpty, CopyDone, AddItem, AddDone,
         CopyOverflows, MergeFlush, MergeInstall, MergeRemove, MergeRemoveGraph, MergeDone

\* Every step keeps docs of the future out of entries and merges.
LEMMA FreshStep == Shape /\ Fresh /\ [Next]_vars => Fresh'
<1> SUFFICES ASSUME Shape, Fresh, [Next]_vars PROVE Fresh'
  OBVIOUS
<1> USE TextsAre
<1>1. docs \in Nat /\ docs' \in Nat /\ docs' >= docs
  BY DocsGrow
<1>2. \A n \in Names, l \in Labels : obn[n][l] \in Docs => obn[n][l] <= docs
  BY DEF Fresh
<1>3. \A d : FromSource(d) /\ d \in Docs => d <= docs
  <2>1. ASSUME NEW i \in 1 .. Len(shards), NEW l \in Labels, Entry(shards[i], l) \in Docs
        PROVE  Entry(shards[i], l) <= docs
    BY <1>2, <2>1, EntryIs
  <2> QED BY <2>1 DEF FromSource, Fresh
<1>4. \A d \in Docs : d \in Nat
  BY NamesAre DEF Docs
<1>5. ASSUME NEW n \in Names, NEW l \in Labels, obn'[n][l] \in Docs PROVE obn'[n][l] <= docs'
  <2>1. \/ obn'[n][l] = obn[n][l] \/ obn'[n][l] = docs'
        \/ FromSource(obn'[n][l])
    BY <1>5, EntriesStep DEF Copied
  <2>2. obn'[n][l] \in Nat
    BY <1>4, <1>5
  <2> QED BY <1>1, <1>2, <1>3, <1>5, <2>1, <2>2
<1>6. ASSUME NEW t \in items', t[3] \in Docs PROVE t[3] <= docs'
  <2>1. FromSource(t[3])
    <3>1. t \in items \/ (t \in Collected /\ Len(shards) > 1)
      BY ItemsStep
    <3>2. CASE t \in Collected /\ Len(shards) > 1
      <4>1. t[1] \in 1 .. Len(shards) /\ t[2] \in Labels /\ t[3] = Entry(shards[t[1]], t[2])
        BY <3>2, CollectedIs, FirstIs
      <4> QED BY <4>1 DEF FromSource
    <3> QED BY <3>1, <3>2 DEF FromSource
  <2>2. t[3] \in Nat
    BY <1>4, <1>6
  <2> QED BY <1>1, <1>3, <1>6, <2>1, <2>2
<1>7. ASSUME NEW r \in removed' PROVE r[1] <= docs'
  <2>1. r \in removed \/ \E i \in 1 .. Len(shards), l \in Labels :
                            r[1] = Entry(shards[i], l) /\ Entry(shards[i], l) \in Docs
    BY RemovedStep
  <2>2. \A q \in removed : q[1] <= docs /\ q[1] \in Nat
    BY <1>4 DEF Fresh, Shape, TypeOK
  <2>3. CASE \E i \in 1 .. Len(shards), l \in Labels :
                r[1] = Entry(shards[i], l) /\ Entry(shards[i], l) \in Docs
    <3>1. FromSource(r[1]) /\ r[1] \in Docs
      BY <2>3 DEF FromSource
    <3>2. r[1] <= docs /\ r[1] \in Nat
      BY <1>3, <1>4, <3>1
    <3> QED BY <1>1, <3>2
  <2>4. CASE r \in removed
    BY <1>1, <2>2, <2>4 DEF Fresh
  <2> QED BY <2>1, <2>3, <2>4
<1> QED
  BY <1>5, <1>6, <1>7 DEF Fresh

\* The doc that an entry shows, if it is one that no older entry shows.
Own(n, l) == IF obn[n][l] \in Docs \ shared THEN obn[n][l] ELSE 0

\* Where such a doc may come from: a death takes it away, and the place that it leaves is
\* not filled again with another.
LEMMA OwnStep ==
    ASSUME Shape, Fresh, [Next]_vars, NEW n \in Names, NEW l \in Labels
    PROVE  \/ Own(n, l)' = Own(n, l) \/ Own(n, l)' = 0
           \/ /\ AppendChunk /\ n = Current.file /\ l = Label(Current)
              /\ Own(n, l)' = docs + 1 /\ docs' = docs + 1
           \/ /\ n = Tmp /\ Copied(l, obn'[n][l]) /\ obn'[n][l] \in Docs \ shared
              /\ Own(n, l)' = obn'[n][l] /\ shared' = shared
<1> USE TextsAre
<1>0. docs \in Nat /\ \A d \in shared : d <= docs
  BY DocsGrow
<1>1. \/ shared' = shared
      \/ AppendChunk /\ docs' = docs + 1 /\ shared' = shared \cup {docs + 1}
  BY DocsGrow
<1>2. obn[n][l] # docs + 1 \/ obn[n][l] \notin Docs
  BY <1>0 DEF Fresh
<1>3. Own(n, l)' = IF obn'[n][l] \in Docs \ shared' THEN obn'[n][l] ELSE 0
  BY DEF Own
<1>4. CASE obn'[n][l] = obn[n][l]
  BY <1>1, <1>2, <1>3, <1>4 DEF Own
<1>5. CASE obn'[n][l] = 0 \/ obn'[n][l] = Beyond \/ obn'[n][l] = Refused
  BY <1>3, <1>5
<1>6. CASE /\ AppendChunk /\ n = Current.file /\ (l = Label(Current) \/ obn[n][l] = Beyond)
           /\ obn'[n][l] = docs + 1 /\ docs' = docs + 1
           /\ l # Label(Current) => shared' = shared \cup {docs + 1}
  <2> HIDE DEF Current, Label
  <2>1. CASE l = Label(Current)
    BY <1>3, <1>6, <2>1
  <2>2. CASE l # Label(Current)
    BY <1>3, <1>6, <2>2
  <2> QED BY <2>1, <2>2
<1>7. CASE n = Tmp /\ Copied(l, obn'[n][l])
  <2>1. shared' = shared
    BY <1>7, CopyTexts DEF Copied
  <2> QED BY <1>3, <1>7, <2>1
<1> QED
  BY <1>4, <1>5, <1>6, <1>7, EntriesStep

\* What a doc of one's own is.
LEMMA OwnIs ==
    ASSUME Shape, Fresh, NEW n \in Names, NEW l \in Labels
    PROVE  /\ Own(n, l) \in Nat /\ Own(n, l) <= docs /\ Own(n, l) \in Docs \cup {0}
           /\ Own(n, l) # 0 => Own(n, l) = obn[n][l] /\ Own(n, l) \in Docs \ shared
           /\ obn[n][l] \in Docs \ shared => Own(n, l) = obn[n][l] /\ Own(n, l) # 0
<1>1. docs \in Nat /\ 0 \notin Docs /\ \A d \in Docs : d \in Nat
  BY NamesAre, TextsAre DEF Shape, TypeOK
<1> QED
  BY <1>1 DEF Own, Fresh

\* No chunk stands in two entries, those of the shard that a merge makes apart, and
\* those of a death.
BaseApart ==
    \A m, n \in Base, k, l \in Labels :
        Own(m, k) = Own(n, l) /\ Own(m, k) # 0 => m = n /\ k = l

\* Every step keeps a doc under one label of one name, those of merges aside.
LEMMA BaseApartStep == Shape /\ Fresh /\ BaseApart /\ [Next]_vars => BaseApart'
<1> SUFFICES ASSUME Shape, Fresh, BaseApart, [Next]_vars,
                    NEW m \in Base, NEW n \in Base, NEW k \in Labels, NEW l \in Labels,
                    Own(m, k)' = Own(n, l)', Own(m, k)' # 0
             PROVE  m = n /\ k = l
  BY DEF BaseApart
<1> USE NamesAre
<1>1. ASSUME NEW p \in Base, NEW j \in Labels
      PROVE  \/ Own(p, j)' = Own(p, j) \/ Own(p, j)' = 0
             \/ p = Current.file /\ j = Label(Current) /\ Own(p, j)' = docs + 1
  BY OwnStep
<1>2. ASSUME NEW p \in Base, NEW j \in Labels PROVE Own(p, j) \in Nat /\ Own(p, j) <= docs
  BY OwnIs
<1>3. docs \in Nat
  BY DocsGrow
<1> HIDE DEF Current, Label
<1>4. CASE Own(m, k)' = docs + 1
  <2>1. Own(m, k) # docs + 1 /\ Own(n, l) # docs + 1 /\ docs + 1 # 0
    BY <1>2, <1>3
  <2>2. m = Current.file /\ k = Label(Current)
    BY <1>1, <1>4, <2>1
  <2>3. n = Current.file /\ l = Label(Current)
    BY <1>1, <1>4, <2>1
  <2> QED BY <2>2, <2>3
<1>5. CASE Own(m, k)' # docs + 1
  <2>1. Own(m, k)' = Own(m, k)
    BY <1>1, <1>5
  <2>2. Own(n, l)' = Own(n, l)
    BY <1>1, <1>5
  <2>3. Own(m, k) = Own(n, l) /\ Own(m, k) # 0
    BY <2>1, <2>2
  <2> QED BY <2>3 DEF BaseApart
<1> QED BY <1>4, <1>5

\* The labels of shards that no merge made are below their capacity.
BaseLabels ==
    /\ \A n \in Base, l \in Labels : obn[n][l] # 0 => l < MaxElements
    /\ \A i \in 1 .. Len(shards) : shards[i].file # Tmp =>
          /\ shards[i].cap = MaxElements
          /\ \A k \in 1 .. Len(shards[i].free) : shards[i].free[k] < MaxElements

\* What BaseLabels says of one shard.
Within(s) ==
    s.file # Tmp => s.cap = MaxElements /\ \A k \in 1 .. Len(s.free) : s.free[k] < MaxElements

\* A label that is taken is one the shard has room for.
LEMMA TakeWithin ==
    ASSUME NEW s \in ShardType, Within(s), HasLabel(s), Label(s) < MaxLabel,
           NEW t \in ShardType, t.file = s.file, t.cap = s.cap, t.free = TakeLabel(s).free
    PROVE  Within(t) /\ (s.file # Tmp => Label(s) < MaxElements)
<1>1. s.free \in Seq(Labels) /\ s.next \in Nat /\ MaxElements \in Nat
  BY NamesAre DEF ShardType
<1>2. CASE s.free # <<>>
  <2>1. Label(s) = s.free[1] /\ t.free = Tail(s.free)
    BY <1>2, TakeLabelIs
  <2>2. Len(s.free) > 0 /\ Len(Tail(s.free)) = Len(s.free) - 1
        /\ \A k \in 1 .. Len(s.free) - 1 : Tail(s.free)[k] = s.free[k + 1]
    BY <1>1, <1>2
  <2>3. 1 \in 1 .. Len(s.free) /\ \A k \in 1 .. Len(s.free) - 1 : k + 1 \in 1 .. Len(s.free)
    BY <1>1, <2>2
  <2> HIDE DEF Label
  <2> QED BY <2>1, <2>2, <2>3 DEF Within
<1>3. CASE s.free = <<>>
  <2>1. Label(s) = s.next /\ t.free = <<>>
    BY <1>3, TakeLabelIs
  <2> QED BY <1>3, <2>1 DEF Within, HasLabel
<1> QED BY <1>2, <1>3

\* After any step the open shards recycle only labels they have.
LEMMA ShardsWithin ==
    ASSUME Shape, BaseLabels, [Next]_vars
    PROVE  \A i \in 1 .. Len(shards') : Within(shards'[i])
<1> DEFINE Goal == \A i \in 1 .. Len(shards') : Within(shards'[i])
<1> USE NamesAre
<1>0. \A i \in 1 .. Len(shards) : Within(shards[i])
  BY DEF BaseLabels, Within
<1>1. ASSUME shards' = shards PROVE Goal
  BY <1>0, <1>1
<1>2. ASSUME NEW n \in Base PROVE Within(OpenShard(n, MaxElements)) /\ OpenShard(n, MaxElements) \in ShardType
  BY OpenShardIs DEF Within, Shape
<1>3. CASE Open
  BY <1>2, <1>3, OpenShape
<1>4. ASSUME NEW s \in ShardType, s.file = Current.file, Appending, Roll(s), Within(s) PROVE Goal
  <2>1. /\ shards'[Len(shards')] = s
        /\ \A i \in 1 .. Len(shards') :
              i # Len(shards') => i \in 1 .. Len(shards) /\ shards'[i] = shards[i]
    BY <1>4, RollIs
  <2>2. ASSUME NEW i \in 1 .. Len(shards') PROVE Within(shards'[i])
    <3>1. CASE i = Len(shards')
      BY <1>4, <2>1, <3>1
    <3>2. CASE i # Len(shards')
      BY <1>0, <2>1, <3>2
    <3> QED BY <3>1, <3>2
  <2> QED BY <2>2
<1>5. ASSUME Appending PROVE Current \in ShardType /\ Within(Current)
  <2>1. CASE Full
    BY <1>2, <1>5, <2>1, CurrentIs
  <2>2. CASE ~Full
    <3>1. Current \in ShardType /\ Current = shards[Len(shards)] /\ Len(shards) \in 1 .. Len(shards)
      BY <1>5, <2>2, CurrentIs, ShardsAre
    <3> QED BY <1>0, <3>1
  <2> QED BY <2>1, <2>2
<1>6. CASE AppendChunk
  <2>1. PICK s \in ShardType :
           s.file = Current.file /\ s.cap = Current.cap /\ Roll(s) /\ s.free = TakeLabel(Current).free
    BY <1>6, AppendIs
  <2>2. Appending /\ HasLabel(Current) /\ Label(Current) < MaxLabel
    BY <1>6 DEF AppendChunk
  <2>3. Within(s)
    BY <1>5, <2>1, <2>2, TakeWithin
  <2> QED BY <1>4, <2>1, <2>2, <2>3
<1>7. CASE AppendRejected
  <2>1. Appending /\ HasLabel(Current) /\ Label(Current) < MaxLabel /\ Roll(TakeLabel(Current))
    BY <1>7 DEF AppendRejected
  <2>2. TakeLabel(Current) \in ShardType /\ TakeLabel(Current).file = Current.file
        /\ TakeLabel(Current).cap = Current.cap
    BY <1>5, <2>1, TakeLabelIs
  <2>3. Within(TakeLabel(Current))
    BY <1>5, <2>1, <2>2, TakeWithin
  <2> QED BY <1>4, <2>1, <2>2, <2>3
<1>8. CASE AppendRefused
  BY <1>4, <1>5, <1>8 DEF AppendRefused
<1>9. ASSUME NEW i \in 1 .. Len(shards), NEW l \in Labels, Remove(i, l), BaseLabels PROVE Goal
  <2>1. /\ Len(shards') = Len(shards) /\ shards'[i].free = Append(shards[i].free, l)
        /\ \A j \in 1 .. Len(shards) :
              /\ j # i => shards'[j] = shards[j]
              /\ shards'[j].file = shards[j].file /\ shards'[j].cap = shards[j].cap
        /\ Entry(shards[i], l) # 0
    BY <1>9, RemoveIs
  <2>2. shards[i].free \in Seq(Labels) /\ shards[i].file \in {i - 1, Tmp} /\ i - 1 \in Base
    BY ShardsAre DEF ShardType
  <2>3. shards[i].file # Tmp => l < MaxElements
    BY <1>9, <2>1, <2>2 DEF BaseLabels, Entry
  <2>4. \A k \in 1 .. Len(shards'[i].free) :
           \/ k \in 1 .. Len(shards[i].free) /\ shards'[i].free[k] = shards[i].free[k]
           \/ shards'[i].free[k] = l
    BY <2>1, <2>2
  <2>5. Within(shards'[i])
    BY <1>0, <2>1, <2>3, <2>4 DEF Within
  <2> QED BY <1>0, <2>1, <2>5
<1>10. CASE Flush
  <2>1. shards' = [i \in 1 .. Len(shards) |-> Saved(shards[i])]
    BY <1>10 DEF Flush
  <2>2. /\ Len(shards') = Len(shards)
        /\ \A j \in 1 .. Len(shards) : shards'[j].file = shards[j].file /\ shards'[j].cap = shards[j].cap
                                       /\ shards'[j].free = shards[j].free
    <3>1. ASSUME NEW j \in 1 .. Len(shards)
          PROVE  shards'[j].file = shards[j].file /\ shards'[j].cap = shards[j].cap
                 /\ shards'[j].free = shards[j].free
      BY <2>1, <3>1, ShardsAre, SavedIs
    <3>2. Len(shards') = Len(shards)
      BY <2>1, ShardsAre
    <3> QED BY <3>1, <3>2
  <2>3. ASSUME NEW j \in 1 .. Len(shards') PROVE Within(shards'[j])
    <3>1. j \in 1 .. Len(shards) /\ Within(shards[j])
      BY <1>0, <2>2
    <3> QED BY <2>2, <3>1 DEF Within
  <2> QED BY <2>3
<1>11. CASE Clear \/ Close \/ Death
  <2>1. Len(shards') = 0
    BY <1>11, DeathIs DEF Clear, Close
  <2> QED BY <2>1
<1>12. ASSUME NEW mode \in Modes, MergeBegin(mode) PROVE Goal
  BY <1>1, <1>12 DEF MergeBegin
<1>13. CASE Copy \/ AddItem \/ CopyEmpty \/ CopyDone \/ AddDone \/ MergeFlush \/ CopyOverflows
            \/ MergeRemove \/ MergeRemoveGraph
  BY <1>1, <1>13
     DEF Copy, AddItem, CopyEmpty, CopyDone, AddDone, MergeFlush, CopyOverflows, MergeRemove,
         MergeRemoveGraph
<1>14. CASE MergeInstall
  <2>1. Making /\ Len(shards') = Len(shards) /\ shards'[First] = made
        /\ \A i \in 1 .. Len(shards) : i # First => shards'[i] = shards[i]
    BY <1>14, InstallShape
  <2>2. Within(made)
    BY <2>1, MakingIs DEF Within
  <2> QED BY <1>0, <2>1, <2>2
<1>15. CASE MergeDone
  <2>1. /\ Len(shards') = First /\ \A i \in 1 .. First : shards'[i] = shards[i]
    BY <1>15, DoneShape
  <2>2. First \in Nat /\ First + 1 = Len(shards)
    BY <1>15, DoneShape, FirstIs
  <2> QED BY <1>0, <2>1, <2>2
<1>16. CASE UNCHANGED vars
  BY <1>1, <1>16 DEF vars
<1>17. ASSUME NEW i \in 1 .. Len(shards), ReadText(i) PROVE Goal
  BY <1>1, <1>17, ReadIs
<1> QED
  BY <1>17, <1>3, <1>6, <1>7, <1>8, <1>9, <1>10, <1>11, <1>12, <1>13, <1>14, <1>15, <1>16
     DEF Next, MergeStep, Death

\* Every step keeps entries of unmerged shards below the capacity of a shard.
LEMMA BaseLabelsStep == Shape /\ Waiting /\ BaseLabels /\ [Next]_vars => BaseLabels'
<1> SUFFICES ASSUME Shape, Waiting, BaseLabels, [Next]_vars PROVE BaseLabels'
  OBVIOUS
<1> USE NamesAre
<1>1. ASSUME NEW n \in Base, NEW l \in Labels, obn'[n][l] # 0 PROVE l < MaxElements
  <2>0. Beyond # 0 /\ (l \in unwritten[n] => obn[n][l] # 0)
    BY TextsAre DEF Waiting
  <2>1. obn[n][l] # 0 \/ (AppendChunk /\ n = Current.file /\ l = Label(Current))
    BY <1>1, <2>0, EntriesStep
  <2>2. CASE AppendChunk /\ n = Current.file /\ l = Label(Current)
    <3>1. Appending /\ HasLabel(Current) /\ Label(Current) < MaxLabel /\ Current \in ShardType
      BY <2>2, CurrentIs DEF AppendChunk
    <3>2. Within(Current)
      <4>1. CASE Full
        BY <3>1, <4>1, CurrentIs, OpenShardIs DEF Within, Shape
      <4>2. CASE ~Full
        <5>1. Current = shards[Len(shards)] /\ Len(shards) \in 1 .. Len(shards)
          BY <3>1, <4>2, CurrentIs, ShardsAre
        <5> QED BY <5>1 DEF BaseLabels, Within
      <4> QED BY <4>1, <4>2
    <3>3. TakeLabel(Current) \in ShardType /\ TakeLabel(Current).file = Current.file
          /\ TakeLabel(Current).cap = Current.cap
      BY <3>1, TakeLabelIs
    <3>4. Label(Current) < MaxElements
      BY <2>2, <3>1, <3>2, <3>3, TakeWithin
    <3> QED BY <2>2, <3>4
  <2> QED BY <1>1, <2>1, <2>2 DEF BaseLabels
<1>2. \A i \in 1 .. Len(shards') : Within(shards'[i])
  BY ShardsWithin
<1> QED BY <1>1, <1>2 DEF BaseLabels, Within

-----------------------------------------------------------------------------
(* The merged shard.                                                       *)

\* A merge that found the files of an earlier one stays noted; a merge that did not
\* found nothing under its name.
LEMMA ReusedStays ==
    ASSUME Shape, [Next]_vars, ~reused'
    PROVE  ~reused /\ \A mode \in Modes : MergeBegin(mode) =>
                        hix[Tmp] = Nothing /\ obn[Tmp] = Nothing /\ Tmp \notin OpenFiles /\ Tmp \notin blank
<1>1. ASSUME NEW mode \in Modes, MergeBegin(mode)
      PROVE  ~reused /\ hix[Tmp] = Nothing /\ obn[Tmp] = Nothing /\ Tmp \notin OpenFiles /\ Tmp \notin blank
  BY <1>1, BeginIs
<1>2. ASSUME Death PROVE reused' = reused
  BY <1>2, DeathIs
<1>3. reused' = reused \/ \E mode \in Modes : MergeBegin(mode)
  BY <1>2
     DEF Next, MergeStep, Death, vars, merging, Open, AppendChunk, AppendRejected, AppendRefused, Remove,
         ReadText, Flush, Clear, Close, Copy, CopyEmpty, CopyDone, AddItem, AddDone, CopyOverflows,
         MergeFlush, MergeInstall, MergeRemove, MergeRemoveGraph, MergeDone
<1> QED BY <1>1, <1>3

\* A merge makes its shard until it is installed or given up.
LEMMA MakingStep ==
    ASSUME Shape, [Next]_vars
    PROVE  /\ Making' => Making \/ \E mode \in Modes : MergeBegin(mode)
           /\ Making /\ ~Making' => MergeInstall \/ CopyOverflows \/ shards' = <<>>
           /\ Making /\ Making' =>
                 \/ Copy \/ AddItem \/ CopyEmpty \/ CopyDone \/ AddDone \/ MergeFlush
                 \/ UNCHANGED vars
<1>1. CASE Idle
  <2>1. ~Making
    BY <1>1 DEF Idle, Making
  <2>2. CASE \E mode \in Modes : MergeBegin(mode)
    BY <2>1, <2>2
  <2>3. CASE ~\E mode \in Modes : MergeBegin(mode)
    <3>0. ASSUME Death PROVE job' = NoJob
      BY <3>0, DeathIs
    <3>1. job' = job \/ job' = NoJob
      BY <1>1, <2>1, <2>3, <3>0
         DEF Next, MergeStep, Death, vars, mergeVars, Open, AppendChunk, AppendRejected, AppendRefused, Remove,
             ReadText, Flush, Clear, Close, Copy, CopyEmpty, CopyDone, Reading, Overflows,
             AddItem, AddDone, CopyOverflows, MergeFlush, MergeInstall, MergeRemove,
             MergeRemoveGraph, MergeDone, Idle
    <3> QED BY <2>1, <3>1 DEF Making, NoJob
  <2> QED BY <2>2, <2>3
<1>2. CASE ~Idle
  <2>1. \/ Open \/ Crash \/ MergeStep \/ UNCHANGED vars
    BY <1>2 DEF Next, ReadText, CrashInSave, Appending, AppendChunk, AppendRejected, AppendRefused, Remove, Flush, Clear, Close,
                SearchFaults, MergeBegin
  <2>2. CASE Open
    BY <2>2, OpenShape DEF Open, mergeVars, Making
  <2>3. CASE Death
    <3>1. shards' = <<>> /\ job' = NoJob
      BY <2>3, DeathIs
    <3> QED BY <3>1 DEF Making, NoJob
  <2>4. CASE CopyOverflows
    BY <2>4, OverflowShape DEF Making
  <2>5. CASE MergeInstall
    BY <2>5, InstallShape DEF Making
  <2>6. CASE MergeRemove \/ MergeRemoveGraph
    BY <2>6, ReplaceShape DEF Making
  <2>7. CASE MergeDone
    BY <2>7, DoneShape DEF Making
  <2>8. CASE Copy \/ AddItem \/ CopyEmpty
    BY <2>8, CopyShape
  <2>9. CASE CopyDone \/ AddDone \/ MergeFlush
    BY <2>9, TurnShape
  <2>10. CASE UNCHANGED vars
    BY <2>10 DEF vars, mergeVars, Making
  <2> QED BY <2>1, <2>2, <2>3, <2>4, <2>5, <2>6, <2>7, <2>8, <2>9, <2>10 DEF MergeStep, Death
<1> QED BY <1>1, <1>2

\* A shard with the name that merges use is there, or is installed.
LEMMA TmpShards ==
    ASSUME Shape, [Next]_vars, NEW i \in 1 .. Len(shards'), shards'[i].file = Tmp
    PROVE  (i \in 1 .. Len(shards) /\ shards[i].file = Tmp) \/ (MergeInstall /\ i = First)
<1> DEFINE Goal == (i \in 1 .. Len(shards) /\ shards[i].file = Tmp) \/ (MergeInstall /\ i = First)
<1> USE NamesAre
<1>1. ASSUME shards' = shards PROVE Goal
  BY <1>1
<1>2. CASE Open
  <2>1. i - 1 \in Base /\ shards'[i] = OpenShard(i - 1, MaxElements)
    BY <1>2, OpenShape
  <2>2. shards'[i].file = i - 1
    BY <2>1, OpenShardIs DEF Shape
  <2> QED BY <2>1, <2>2
<1>3. ASSUME NEW s \in ShardType, s.file = Current.file, Appending, Roll(s) PROVE Goal
  <2>1. /\ shards'[Len(shards')] = s
        /\ \A j \in 1 .. Len(shards') :
              j # Len(shards') => j \in 1 .. Len(shards) /\ shards'[j] = shards[j]
        /\ ~Full => Len(shards') = Len(shards)
    BY <1>3, RollIs
  <2>2. (Full => Current.file \in Base) /\ (~Full => Current = shards[Len(shards)])
    BY <1>3, CurrentIs
  <2> HIDE DEF Full
  <2> QED BY <1>3, <2>1, <2>2
<1>4. CASE AppendChunk
  <2>1. PICK s \in ShardType : s.file = Current.file /\ Roll(s)
    BY <1>4, AppendIs
  <2> QED BY <1>3, <1>4, <2>1 DEF AppendChunk
<1>5. CASE AppendRejected
  <2>1. TakeLabel(Current) \in ShardType /\ TakeLabel(Current).file = Current.file
    BY <1>5, CurrentIs, TakeLabelIs DEF AppendRejected
  <2> QED BY <1>3, <1>5, <2>1 DEF AppendRejected
<1>6. CASE AppendRefused
  BY <1>3, <1>6, CurrentIs DEF AppendRefused
<1>7. ASSUME NEW j \in 1 .. Len(shards), NEW l \in Labels, Remove(j, l) PROVE Goal
  BY <1>7, RemoveIs
<1>8. CASE Flush
  <2>1. shards' = [j \in 1 .. Len(shards) |-> Saved(shards[j])]
    BY <1>8 DEF Flush
  <2>2. Len(shards') = Len(shards) /\ \A j \in 1 .. Len(shards) : shards'[j].file = shards[j].file
    BY <2>1, ShardsAre, SavedIs
  <2> QED BY <2>2
<1>9. CASE Clear \/ Close \/ Death
  <2>1. Len(shards') = 0
    BY <1>9, DeathIs DEF Clear, Close
  <2> QED BY <2>1
<1>10. ASSUME NEW mode \in Modes, MergeBegin(mode) PROVE Goal
  BY <1>1, <1>10 DEF MergeBegin
<1>11. CASE Copy \/ AddItem \/ CopyEmpty \/ CopyDone \/ AddDone \/ MergeFlush \/ CopyOverflows
            \/ MergeRemove \/ MergeRemoveGraph
  BY <1>1, <1>11
     DEF Copy, AddItem, CopyEmpty, CopyDone, AddDone, MergeFlush, CopyOverflows, MergeRemove,
         MergeRemoveGraph
<1>12. CASE MergeInstall
  BY <1>12, InstallShape
<1>13. CASE MergeDone
  <2>1. /\ Len(shards') = First /\ \A j \in 1 .. First : shards'[j] = shards[j]
    BY <1>13, DoneShape
  <2>2. First \in Nat /\ First + 1 = Len(shards)
    BY <1>13, DoneShape, FirstIs
  <2> QED BY <2>1, <2>2
<1>14. CASE UNCHANGED vars
  BY <1>1, <1>14 DEF vars
<1>15. ASSUME NEW j \in 1 .. Len(shards), ReadText(j) PROVE Goal
  BY <1>1, <1>15, ReadIs
<1> QED
  BY <1>15, <1>2, <1>4, <1>5, <1>6, <1>7, <1>8, <1>9, <1>10, <1>11, <1>12, <1>13, <1>14
     DEF Next, MergeStep, Death

\* One shard at most has the name that merges use, and none while a merge makes its
\* shard, unless a merge found the files of an earlier one.
OneTmp ==
    ~reused => /\ \A i, j \in 1 .. Len(shards) : shards[i].file = Tmp /\ shards[j].file = Tmp => i = j
               /\ Making => \A i \in 1 .. Len(shards) : shards[i].file # Tmp

\* Every step keeps the name of a merge to one shard, in the place of the first source.
LEMMA OneTmpStep == Shape /\ OneTmp /\ [Next]_vars => OneTmp'
<1> SUFFICES ASSUME Shape, OneTmp, [Next]_vars, ~reused'
             PROVE  /\ \A i, j \in 1 .. Len(shards') : shards'[i].file = Tmp /\ shards'[j].file = Tmp => i = j
                    /\ Making' => \A i \in 1 .. Len(shards') : shards'[i].file # Tmp
  BY DEF OneTmp, Making
<1>1. ~reused
  BY ReusedStays
<1>2. \A i \in 1 .. Len(shards') : shards'[i].file = Tmp =>
         (i \in 1 .. Len(shards) /\ shards[i].file = Tmp) \/ (MergeInstall /\ i = First)
  BY TmpShards
<1>3. MergeInstall => \A i \in 1 .. Len(shards) : shards[i].file # Tmp
  BY <1>1, InstallShape DEF OneTmp
<1>4. \A i, j \in 1 .. Len(shards') : shards'[i].file = Tmp /\ shards'[j].file = Tmp => i = j
  BY <1>1, <1>2, <1>3 DEF OneTmp
<1>5. ASSUME Making', NEW i \in 1 .. Len(shards'), shards'[i].file = Tmp PROVE FALSE
  <2>1. ~MergeInstall
    BY <1>5, InstallShape DEF Making
  <2>2. i \in 1 .. Len(shards) /\ shards[i].file = Tmp
    BY <1>2, <1>5, <2>1
  <2>3. CASE Making
    BY <1>1, <2>2, <2>3 DEF OneTmp
  <2>4. CASE \E mode \in Modes : MergeBegin(mode)
    BY <2>2, <2>4, ReusedStays DEF OpenFiles
  <2> QED BY <1>5, <2>3, <2>4, MakingStep
<1> QED BY <1>4, <1>5

\* Before a merge finds the files of an earlier one it takes shards of other names.
LEMMA SourcesAre ==
    ASSUME Shape, OneTmp, ~reused, Making
    PROVE  /\ First \in Nat /\ First \in 1 .. Len(shards) /\ First + 1 \in 1 .. Len(shards)
           /\ \A p \in {First, First + 1} : p \in 1 .. Len(shards) /\ shards[p].file = p - 1 /\ p - 1 \in Base
           /\ A = shards[First] /\ B = shards[First + 1]
<1>1. Len(shards) > 1
  BY MakingIs
<1>2. First \in Nat /\ First \in 1 .. Len(shards) /\ First + 1 \in 1 .. Len(shards)
  BY <1>1, FirstIs
<1>3. \A i \in 1 .. Len(shards) : shards[i].file = i - 1 /\ i - 1 \in Base
  BY ShardsAre DEF OneTmp
<1> QED BY <1>1, <1>2, <1>3, ShardsAre

-----------------------------------------------------------------------------
(* What is copied already.                                                 *)

\* The entry at l of the shard at p has been copied.
Moved(p, l) ==
    /\ p \in {First, First + 1} /\ l \in Labels /\ Entry(shards[p], l) # 0
    /\ job.phase = "copyA" => p = First /\ l < job.at
    /\ job.phase = "copyB" => p = First \/ l < job.at
    /\ job.phase = "add" => <<p, l, Entry(shards[p], l)>> \notin items

\* The shard that a merge makes holds the docs that were copied and nothing else: all of
\* them but what was lost when they were collected.
CopyInv ==
    ~reused /\ Making =>
        /\ \A k \in Labels : obn[Tmp][k] # 0 =>
              /\ obn[Tmp][k] \in Docs
              /\ \E p \in {First, First + 1}, l \in Labels : Moved(p, l) /\ obn[Tmp][k] = Entry(shards[p], l)
        /\ \A p \in {First, First + 1}, l \in Labels : Moved(p, l) /\ Entry(shards[p], l) \in Docs \ mislaid =>
              \E k \in Labels : k < made.next /\ obn[Tmp][k] = Entry(shards[p], l) /\ made.vec[k] = obn[Tmp][k]
        /\ job.phase = "add" =>
              \A t \in items : t[1] \in {First, First + 1} /\ t[2] \in Labels /\ t[3] = Entry(shards[t[1]], t[2])

\* Its docs are told apart by where they stand, those that a death left shared aside.
LEMMA SourcesApart ==
    ASSUME Shape, Fresh, OneTmp, BaseApart, ~reused, Making
    PROVE  \A p, q \in {First, First + 1}, i, j \in Labels :
              Entry(shards[p], i) = Entry(shards[q], j) /\ Entry(shards[p], i) \in Docs \ shared => p = q /\ i = j
<1>1. \A p \in {First, First + 1} : shards[p].file = p - 1 /\ p - 1 \in Base /\ p \in Int
  BY SourcesAre
<1>2. ASSUME NEW p \in {First, First + 1}, NEW i \in Labels, Entry(shards[p], i) \in Docs \ shared
      PROVE  Own(p - 1, i) = Entry(shards[p], i) /\ Own(p - 1, i) # 0
  BY <1>1, <1>2, OwnIs, NamesAre DEF Entry
<1>3. ASSUME NEW p \in {First, First + 1}, NEW q \in {First, First + 1}, NEW i \in Labels, NEW j \in Labels,
             Entry(shards[p], i) = Entry(shards[q], j), Entry(shards[p], i) \in Docs \ shared
      PROVE  p = q /\ i = j
  <2>1. Own(p - 1, i) = Own(q - 1, j) /\ Own(p - 1, i) # 0
    BY <1>2, <1>3
  <2>2. p - 1 = q - 1 /\ i = j
    BY <1>1, <2>1 DEF BaseApart
  <2> QED BY <1>1, <2>2
<1> QED BY <1>3

\* A step copies the entry at j of the shard at p: a doc into the next label, and nothing
\* of another.
Took(p, j) ==
    /\ p \in {First, First + 1} /\ j \in Labels /\ Entry(shards[p], j) # 0
    /\ made'.next \in Nat /\ made'.next >= made.next
    /\ Entry(shards[p], j) \in Docs =>
          /\ made.next \in Labels /\ made'.next = made.next + 1
          /\ \A k \in Labels : obn'[Tmp][k] = IF k = made.next THEN Entry(shards[p], j) ELSE obn[Tmp][k]
          /\ \A k \in Labels : made'.vec[k] = IF k = made.next THEN Entry(shards[p], j) ELSE made.vec[k]
    /\ Entry(shards[p], j) \notin Docs =>
          /\ \A k \in Labels : obn'[Tmp][k] = obn[Tmp][k]
          /\ made'.vec = made.vec

\* An entry that is added is taken so: before a merge finds the files of an earlier one,
\* the shard it makes has no entry that a death left without its text.
LEMMA AddTakes ==
    ASSUME Shape, CopyInv, ~reused, Making, NEW p \in {First, First + 1}, NEW j \in Labels,
           Entry(shards[p], j) \in Texts, NEW w, w \in [Names -> SUBSET Labels],
           Add(Entry(shards[p], j), w)
    PROVE  Took(p, j)
<1> USE NamesAre, TextsAre
<1>1. PICK d \in Texts : d = Entry(shards[p], j)
  OBVIOUS
<1>2. Add(d, w)
  BY <1>1
<1>3. /\ made.next \in Labels /\ d # Beyond
      /\ \A l \in Labels :
            obn'[Tmp][l] = IF (d # Refused /\ l = made.next) \/ obn[Tmp][l] = Beyond
                           THEN d ELSE obn[Tmp][l]
      /\ made'.vec = IF d = Refused THEN made.vec ELSE [made.vec EXCEPT ![made.next] = d]
      /\ made'.next = made.next + 1
  BY <1>2, AddIs
<1>4. made.vec \in [Labels -> 0 .. MaxDocs] /\ made.next \in Nat
  BY <1>3, MakingIs DEF Maps
<1>5. \A k \in Labels : obn[Tmp][k] # Beyond
  BY DEF CopyInv
<1>6. CASE d = Refused
  BY <1>1, <1>3, <1>4, <1>5, <1>6 DEF Took
<1>7. CASE d # Refused
  <2>1. d \in Docs
    BY <1>3, <1>7
  <2>2. \A k \in Labels : /\ obn'[Tmp][k] = IF k = made.next THEN d ELSE obn[Tmp][k]
                          /\ made'.vec[k] = IF k = made.next THEN d ELSE made.vec[k]
    BY <1>3, <1>4, <1>5, <1>7
  <2>3. made'.next \in Nat /\ made'.next >= made.next
    BY <1>3, <1>4
  <2> QED BY <1>1, <1>3, <2>1, <2>2, <2>3 DEF Took
<1> QED BY <1>6, <1>7

\* A text that is not there adds nothing.
LEMMA NoneTaken ==
    ASSUME Shape, Making, NEW p \in {First, First + 1}, NEW j \in Labels,
           Entry(shards[p], j) = Beyond, UNCHANGED <<made, texts>>
    PROVE  Took(p, j)
<1>1. obn' = obn /\ made' = made /\ made.next \in Nat /\ Beyond # 0 /\ Beyond \notin Docs
  BY MakingIs, TextsAre DEF texts
<1> QED BY <1>1 DEF Took

\* A step of the serial merge takes the entry with the least label left in its source.
LEMMA CopyTakes ==
    ASSUME Shape, OneTmp, CopyInv, ~reused, Copy \/ CopyEmpty,
           NEW p, p = IF job.phase = "copyA" THEN First ELSE First + 1
    PROVE  /\ Making /\ job.phase \in {"copyA", "copyB"} /\ p \in {First, First + 1} /\ Source = shards[p]
           /\ NextLabel \in Labels /\ NextLabel >= job.at /\ Took(p, NextLabel)
           /\ job' = [job EXCEPT !.at = NextLabel + 1] /\ items' = items
           /\ \A i \in Labels : i >= job.at /\ i < NextLabel /\ i < shards[p].cap => Entry(shards[p], i) = 0
<1>1. Reading /\ Ahead # {} /\ Making /\ job.phase \in {"copyA", "copyB"}
  BY DEF Copy, CopyEmpty, Reading, Making
<1>2. A = shards[First] /\ B = shards[First + 1] /\ p \in {First, First + 1} /\ shards[p].file # Tmp
  BY <1>1, SourcesAre, NamesAre
<1>3. Source = shards[p]
  BY <1>2 DEF Source
<1>4. /\ NextLabel \in Labels /\ NextLabel >= job.at /\ Entry(shards[p], NextLabel) \in Texts
      /\ \A i \in Labels : i >= job.at /\ i < NextLabel /\ i < shards[p].cap => Entry(shards[p], i) = 0
  BY <1>1, <1>3, NextLabelIs
<1>5. job' = [job EXCEPT !.at = NextLabel + 1] /\ items' = items
  BY DEF Copy, CopyEmpty
<1>6. Took(p, NextLabel)
  <2>0. PICK j \in Labels : j = NextLabel
    BY <1>4
  <2>1. CASE Copy
    <3>1. Add(Entry(shards[p], j), WrittenOut({Source.file}))
      BY <1>3, <2>0, <2>1 DEF Copy
    <3>2. WrittenOut({Source.file}) \in [Names -> SUBSET Labels]
      BY WrittenOutIs DEF Shape, TypeOK
    <3> QED BY <1>1, <1>2, <1>4, <2>0, <3>1, <3>2, AddTakes
  <2>2. CASE CopyEmpty
    <3>1. Entry(shards[p], j) = Beyond /\ UNCHANGED <<made, texts>>
      BY <1>2, <1>3, <2>0, <2>2 DEF CopyEmpty, Unseen, files
    <3> QED BY <1>1, <1>2, <2>0, <3>1, NoneTaken
  <2> QED BY <2>1, <2>2
<1> QED BY <1>1, <1>2, <1>3, <1>4, <1>5, <1>6

\* A step of the parallel merge takes an entry of a source that was not taken before.
LEMMA ItemTakes ==
    ASSUME Shape, OneTmp, CopyInv, ~reused, AddItem
    PROVE  /\ Making /\ job.phase = "add" /\ job' = job
           /\ \E p \in {First, First + 1}, j \in Labels :
                 /\ Took(p, j) /\ <<p, j, Entry(shards[p], j)>> \in items
                 /\ items' = items \ {<<p, j, Entry(shards[p], j)>>}
<1>1. Making /\ job.phase = "add" /\ job' = job
  BY DEF AddItem, Making
<1>2. PICK t \in items : items' = items \ {t} /\ (Add(t[3], unwritten) \/ (t[3] = Beyond /\ UNCHANGED <<made, hix, texts>>))
  BY DEF AddItem
<1>3. t[1] \in {First, First + 1} /\ t[2] \in Labels /\ t[3] = Entry(shards[t[1]], t[2]) /\ t[3] \in Texts
      /\ t = <<t[1], t[2], t[3]>>
  BY <1>1 DEF CopyInv, Shape, TypeOK
<1>4. PICK p \in {First, First + 1}, j \in Labels : p = t[1] /\ j = t[2]
  BY <1>3
<1>5. unwritten \in [Names -> SUBSET Labels]
  BY DEF Shape, TypeOK, TextsOK
<1>6. Took(p, j)
  <2>1. CASE Add(t[3], unwritten)
    BY <1>1, <1>3, <1>4, <1>5, <2>1, AddTakes
  <2>2. CASE t[3] = Beyond /\ UNCHANGED <<made, hix, texts>>
    BY <1>1, <1>3, <1>4, <2>2, NoneTaken
  <2> QED BY <1>2, <2>1, <2>2
<1>7. t = <<p, j, Entry(shards[p], j)>>
  BY <1>3, <1>4
<1> QED BY <1>1, <1>2, <1>6, <1>7

\* An entry of a shard that is merged stays as it is, and is below the capacity.
LEMMA SourcesKept ==
    ASSUME Shape, OneTmp, BaseLabels, ~reused, Making, [Next]_vars, Making'
    PROVE  /\ shards' = shards /\ First' = First /\ mislaid' = mislaid
           /\ \A p \in {First, First + 1}, l \in Labels :
                 /\ Entry(shards[p], l)' = Entry(shards[p], l)
                 /\ Entry(shards[p], l) # 0 => l < shards[p].cap
<1> USE NamesAre
<1>1. Copy \/ AddItem \/ CopyEmpty \/ CopyDone \/ AddDone \/ MergeFlush \/ UNCHANGED vars
  BY MakingStep
<1>2. shards' = shards /\ First' = First /\ mislaid' = mislaid
  BY <1>1, CopyShape, TurnShape DEF vars, merging, First
<1>3. \A p \in {First, First + 1} : p \in 1 .. Len(shards) /\ shards[p].file = p - 1 /\ p - 1 \in Base
  BY SourcesAre
<1>4. obn' = obn \/ \E d \in Texts, w \in [Names -> SUBSET Labels] : Add(d, w)
  <2>1. CASE Copy \/ AddItem \/ CopyEmpty
    BY <2>1, CopyTexts DEF texts
  <2>2. CASE CopyDone \/ AddDone \/ MergeFlush \/ UNCHANGED vars
    BY <2>2, TurnShape DEF texts, vars, files
  <2> QED BY <1>1, <2>1, <2>2
<1>5. \A n \in Base : obn'[n] = obn[n]
  BY <1>4, AddIs
<1>6. ASSUME NEW p \in {First, First + 1}, NEW l \in Labels
      PROVE  /\ Entry(shards[p], l)' = Entry(shards[p], l)
             /\ Entry(shards[p], l) # 0 => l < shards[p].cap
  <2>1. p \in 1 .. Len(shards) /\ shards[p].file = p - 1 /\ p - 1 \in Base /\ p - 1 # Tmp
    BY <1>3
  <2>2. Entry(shards[p], l)' = Entry(shards[p], l)
    BY <1>2, <1>5, <2>1 DEF Entry
  <2>3. Entry(shards[p], l) # 0 => l < shards[p].cap
    BY <2>1 DEF Entry, BaseLabels
  <2> QED BY <2>2, <2>3
<1> QED BY <1>2, <1>6

\* A merge copies a text that it has not copied yet.
LEMMA StepTakes ==
    ASSUME Shape, Fresh, OneTmp, CopyInv, BaseApart, BaseLabels, ~reused, [Next]_vars,
           Copy \/ CopyEmpty \/ AddItem
    PROVE  \E p \in {First, First + 1}, j \in Labels :
              /\ Took(p, j)
              /\ Entry(shards[p], j) \in Docs \ shared => \A k \in Labels : obn[Tmp][k] # Entry(shards[p], j)
              /\ \A q \in {First, First + 1}, i \in Labels :
                    Moved(q, i)' <=> Moved(q, i) \/ (q = p /\ i = j)
<1> USE NamesAre
<1>1. Making /\ Making' /\ job'.phase = job.phase
  BY CopyShape
<1>2. /\ shards' = shards /\ First' = First
      /\ \A p \in {First, First + 1}, l \in Labels :
            /\ Entry(shards[p], l)' = Entry(shards[p], l)
            /\ Entry(shards[p], l) # 0 => l < shards[p].cap
  BY <1>1, SourcesKept
<1>3. First \in Nat /\ First # First + 1
  BY <1>1, SourcesAre
<1>4. ASSUME NEW p \in {First, First + 1}, NEW j \in Labels, Entry(shards[p], j) \in Docs \ shared, ~Moved(p, j)
      PROVE  \A k \in Labels : obn[Tmp][k] # Entry(shards[p], j)
  <2> SUFFICES ASSUME NEW k \in Labels, obn[Tmp][k] = Entry(shards[p], j) PROVE FALSE
    OBVIOUS
  <2>1. PICK q \in {First, First + 1}, i \in Labels : Moved(q, i) /\ obn[Tmp][k] = Entry(shards[q], i)
    BY <1>1, <1>4, TextsAre DEF CopyInv
  <2>2. q = p /\ i = j
    <3>1. \A r, s \in {First, First + 1}, x, y \in Labels :
             Entry(shards[r], x) = Entry(shards[s], y) /\ Entry(shards[r], x) \in Docs \ shared => r = s /\ x = y
      BY <1>1, SourcesApart
    <3>2. Entry(shards[q], i) = Entry(shards[p], j) /\ Entry(shards[q], i) \in Docs \ shared
      BY <1>4, <2>1
    <3> HIDE NamesAre
    <3> QED BY <1>4, <2>1, <3>1, <3>2
  <2> QED BY <1>4, <2>1, <2>2
<1>5. CASE Copy \/ CopyEmpty
  <2> DEFINE p == IF job.phase = "copyA" THEN First ELSE First + 1
  <2>1. /\ job.phase \in {"copyA", "copyB"} /\ p \in {First, First + 1}
        /\ NextLabel \in Labels /\ NextLabel >= job.at
        /\ Took(p, NextLabel)
        /\ job' = [job EXCEPT !.at = NextLabel + 1] /\ items' = items
        /\ \A i \in Labels : i >= job.at /\ i < NextLabel /\ i < shards[p].cap => Entry(shards[p], i) = 0
    BY <1>5, CopyTakes
  <2>2. p = IF job.phase = "copyA" THEN First ELSE First + 1
    OBVIOUS
  <2> HIDE DEF p
  <2>3. job'.at = NextLabel + 1 /\ job.at \in Nat
    BY <2>1 DEF Shape, TypeOK
  <2>4. PICK j \in Labels : j = NextLabel
    BY <2>1
  <2>5. Entry(shards[p], j) # 0
    BY <2>1, <2>4 DEF Took
  <2>6. ~Moved(p, j)
    BY <1>3, <2>1, <2>2, <2>3, <2>4 DEF Moved
  <2>7. ASSUME NEW q \in {First, First + 1}, NEW i \in Labels
        PROVE  Moved(q, i)' <=> Moved(q, i) \/ (q = p /\ i = j)
    <3>1. Moved(q, i)' <=> /\ Entry(shards[q], i) # 0
                           /\ job.phase = "copyA" => q = First /\ i < j + 1
                           /\ job.phase = "copyB" => q = First \/ i < j + 1
      BY <1>1, <1>2, <2>1, <2>3, <2>4 DEF Moved
    <3>2. Moved(q, i) <=> /\ Entry(shards[q], i) # 0
                          /\ job.phase = "copyA" => q = First /\ i < job.at
                          /\ job.phase = "copyB" => q = First \/ i < job.at
      BY <2>1 DEF Moved
    <3>3. i \in Nat /\ j \in Nat /\ (i < j + 1 <=> i < j \/ i = j) /\ (i < job.at => i < j)
      BY <2>1, <2>3, <2>4
    <3>4. q = p /\ i < j /\ ~(i < job.at) => Entry(shards[q], i) = 0
      BY <1>2, <2>1, <2>3, <2>4, <3>3
    <3>5. CASE job.phase = "copyA"
      BY <1>3, <2>2, <2>5, <3>1, <3>2, <3>3, <3>4, <3>5
    <3>6. CASE job.phase = "copyB"
      BY <1>3, <2>2, <2>5, <3>1, <3>2, <3>3, <3>4, <3>6
    <3> QED BY <2>1, <3>5, <3>6
  <2>8. Entry(shards[p], j) \in Docs \ shared => \A k \in Labels : obn[Tmp][k] # Entry(shards[p], j)
    BY <1>4, <2>1, <2>6
  <2> QED BY <2>1, <2>4, <2>7, <2>8
<1>6. CASE AddItem
  <2>1. job.phase = "add" /\ job' = job
    BY <1>6, ItemTakes
  <2>2. PICK p \in {First, First + 1}, j \in Labels :
           /\ Took(p, j) /\ <<p, j, Entry(shards[p], j)>> \in items
           /\ items' = items \ {<<p, j, Entry(shards[p], j)>>}
    BY <1>6, ItemTakes
  <2>3. Entry(shards[p], j) # 0
    BY <2>2 DEF Took
  <2>4. ~Moved(p, j)
    BY <2>1, <2>2 DEF Moved
  <2>5. ASSUME NEW q \in {First, First + 1}, NEW i \in Labels
        PROVE  Moved(q, i)' <=> Moved(q, i) \/ (q = p /\ i = j)
    <3>1. Moved(q, i)' <=> Entry(shards[q], i) # 0 /\ <<q, i, Entry(shards[q], i)>> \notin items'
      BY <1>1, <1>2, <2>1 DEF Moved
    <3>2. Moved(q, i) <=> Entry(shards[q], i) # 0 /\ <<q, i, Entry(shards[q], i)>> \notin items
      BY <2>1 DEF Moved
    <3>3. <<q, i, Entry(shards[q], i)>> = <<p, j, Entry(shards[p], j)>> <=> q = p /\ i = j
      OBVIOUS
    <3> QED BY <2>2, <2>3, <3>1, <3>2, <3>3
  <2>6. Entry(shards[p], j) \in Docs \ shared => \A k \in Labels : obn[Tmp][k] # Entry(shards[p], j)
    BY <1>4, <2>4
  <2> QED BY <2>2, <2>5, <2>6
<1> QED BY <1>5, <1>6

-----------------------------------------------------------------------------
(* What is copied, kept by every step.                                     *)

\* Turning to the next phase of a merge copies nothing.
LEMMA TurnMoves ==
    ASSUME Shape, OneTmp, BaseLabels, ~reused, [Next]_vars, Making, Making', ~(Copy \/ CopyEmpty \/ AddItem)
    PROVE  /\ obn' = obn /\ items' = items /\ made'.vec = made.vec /\ made'.next = made.next
           /\ job'.phase = "add" => job.phase = "add"
           /\ \A q \in {First, First + 1}, i \in Labels : Moved(q, i)' <=> Moved(q, i)
<1> USE NamesAre
<1>1. /\ shards' = shards /\ First' = First
      /\ \A p \in {First, First + 1}, l \in Labels :
            /\ Entry(shards[p], l)' = Entry(shards[p], l)
            /\ Entry(shards[p], l) # 0 => l < shards[p].cap
  BY SourcesKept
<1>2. CopyDone \/ AddDone \/ MergeFlush \/ UNCHANGED vars
  BY MakingStep
<1>3. First \in Nat /\ First # First + 1 /\ A = shards[First] /\ B = shards[First + 1]
      /\ A.file # Tmp /\ B.file # Tmp
  <2>1. First \in Nat /\ A = shards[First] /\ B = shards[First + 1]
        /\ \A p \in {First, First + 1} : p \in 1 .. Len(shards) /\ shards[p].file = p - 1 /\ p - 1 \in Base
    BY SourcesAre
  <2>2. shards[First].file # Tmp /\ shards[First + 1].file # Tmp
    BY <2>1
  <2> QED BY <2>1, <2>2
<1>5. job \in [phase : Phases, at : 0 .. MaxLabel, limit : Nat]
  BY DEF Shape, TypeOK
<1>6. CASE UNCHANGED vars
  <2>1. job' = job /\ obn' = obn /\ items' = items /\ made' = made
    BY <1>6 DEF vars, files, texts, mergeVars
  <2> QED BY <1>1, <2>1 DEF Moved
<1>7. ASSUME CopyDone \/ AddDone \/ MergeFlush,
             NEW q \in {First, First + 1}, NEW i \in Labels
      PROVE  (Moved(q, i)' <=> Moved(q, i)) /\ job'.phase # "add"
  <2>1. Entry(shards[q], i)' = Entry(shards[q], i)
    BY <1>1
  <2>2. items' = items
    BY <1>7, TurnShape
  <2>3. CASE CopyDone
    <3>1. job.phase \in {"copyA", "copyB"} /\ Ahead = {}
      BY <2>3 DEF CopyDone, Reading
    <3>2. job' = [job EXCEPT !.phase = IF @ = "copyA" THEN "copyB" ELSE "copied", !.at = 0]
      BY <2>3 DEF CopyDone
    <3>3. job'.at = 0 /\ job'.phase = (IF job.phase = "copyA" THEN "copyB" ELSE "copied")
      BY <1>5, <3>2
    <3>4. q = (IF job.phase = "copyA" THEN First ELSE First + 1) /\ Entry(shards[q], i) # 0 => i < job.at
      <4>1. ASSUME q = (IF job.phase = "copyA" THEN First ELSE First + 1), Entry(shards[q], i) # 0, ~(i < job.at)
            PROVE  FALSE
        <5>1. Source = shards[q]
          BY <1>3, <3>1, <4>1 DEF Source
        <5>2. i >= job.at
          BY <1>5, <4>1
        <5>3. i < shards[q].cap
          BY <1>1, <4>1
        <5> QED BY <3>1, <4>1, <5>1, <5>2, <5>3 DEF Ahead
      <4> QED BY <4>1
    <3>5. ~(i < 0)
      OBVIOUS
    <3>6. CASE job.phase = "copyA"
      BY <1>1, <1>3, <2>1, <3>3, <3>4, <3>5, <3>6 DEF Moved
    <3>7. CASE job.phase = "copyB"
      BY <1>1, <1>3, <2>1, <3>3, <3>4, <3>7 DEF Moved
    <3> QED BY <3>1, <3>6, <3>7
  <2>4. CASE AddDone
    <3>1. job.phase = "add" /\ items = {} /\ job'.phase = "copied"
      BY <1>5, <2>4 DEF AddDone
    <3> QED BY <1>1, <2>1, <3>1 DEF Moved
  <2>5. CASE MergeFlush
    <3>1. job.phase = "copied" /\ job'.phase = "flushed"
      BY <1>5, <2>5 DEF MergeFlush
    <3> QED BY <1>1, <2>1, <3>1 DEF Moved
  <2> QED BY <1>7, <2>3, <2>4, <2>5
<1>8. CASE CopyDone \/ AddDone \/ MergeFlush
  <2>1. obn' = obn /\ items' = items /\ made'.vec = made.vec /\ made'.next = made.next
    BY <1>8, TurnShape DEF texts
  <2>2. First \in {First, First + 1} /\ 0 \in Labels
    OBVIOUS
  <2>3. job'.phase # "add"
    BY <1>7, <1>8, <2>2
  <2> QED BY <1>7, <1>8, <2>1, <2>3
<1> QED BY <1>2, <1>6, <1>8

\* Every step keeps the account of what a merge has copied.
LEMMA CopyInvStep ==
    Shape /\ Fresh /\ OneTmp /\ BaseApart /\ BaseLabels /\ CopyInv /\ [Next]_vars => CopyInv'
<1> SUFFICES ASSUME Shape, Fresh, OneTmp, BaseApart, BaseLabels, CopyInv, [Next]_vars, ~reused', Making'
             PROVE  CopyInv'
  BY DEF CopyInv
<1> USE NamesAre
<1>1. ~reused
  BY ReusedStays
<1>2. Making \/ \E mode \in Modes : MergeBegin(mode)
  BY MakingStep
<1>3. ASSUME NEW mode \in Modes, MergeBegin(mode) PROVE CopyInv'
  <2>1. /\ Len(shards) > 1 /\ shards' = shards /\ obn' = obn /\ First' = First
        /\ job' \in [phase : {"copyA", "add"}, at : {0}, limit : Nat]
        /\ job'.phase = "add" => items' \subseteq Collected /\ mislaid' = {t[3] : t \in Collected \ items'} \cap Docs
    BY <1>3, BeginIs DEF First
  <2>2. obn[Tmp] = Nothing /\ Tmp \notin OpenFiles
    BY <1>3, ReusedStays
  <2>3. \A k \in Labels : obn[Tmp][k] = 0
    BY <2>2 DEF Nothing
  <2>4. \A p \in {First, First + 1}, l \in Labels :
           /\ Entry(shards[p], l)' = Entry(shards[p], l)
           /\ Entry(shards[p], l) # 0 => l < shards[p].cap
    <3> SUFFICES ASSUME NEW p \in {First, First + 1}, NEW l \in Labels
                 PROVE  /\ Entry(shards[p], l)' = Entry(shards[p], l)
                        /\ Entry(shards[p], l) # 0 => l < shards[p].cap
      OBVIOUS
    <3>1. p \in 1 .. Len(shards)
      BY <2>1, FirstIs
    <3>2. shards[p].file # Tmp /\ shards[p].file \in Base
      BY <2>2, <3>1, ShardsAre DEF OpenFiles
    <3>3. Entry(shards[p], l)' = Entry(shards[p], l)
      BY <2>1 DEF Entry
    <3>4. Entry(shards[p], l) # 0 => l < shards[p].cap
      BY <3>1, <3>2 DEF Entry, BaseLabels
    <3> QED BY <3>3, <3>4
  <2>5. ASSUME NEW p \in {First, First + 1}, NEW l \in Labels, Moved(p, l)'
        PROVE  Entry(shards[p], l)' \notin Docs \ mislaid'
    <3>1. Entry(shards[p], l) # 0
      BY <2>1, <2>4, <2>5 DEF Moved
    <3>2. CASE job'.phase = "copyA"
      <4>1. l < job'.at /\ job'.at = 0
        BY <2>1, <2>5, <3>2 DEF Moved
      <4> QED BY <4>1
    <3>3. CASE job'.phase = "add"
      <4>1. <<p, l, Entry(shards[p], l)>> \notin items'
        BY <2>1, <2>4, <2>5, <3>3 DEF Moved
      <4>2. <<p, l, Entry(shards[p], l)>> \in Collected
        BY <2>1, <2>4, <3>1, CollectedIs
      <4> QED BY <2>1, <2>4, <3>3, <4>1, <4>2
    <3> QED BY <2>1, <3>2, <3>3
  <2>6. job'.phase = "add" =>
           \A t \in items' : t[1] \in {First, First + 1} /\ t[2] \in Labels /\ t[3] = Entry(shards[t[1]], t[2])'
    <3> SUFFICES ASSUME job'.phase = "add", NEW t \in items'
                 PROVE  t[1] \in {First, First + 1} /\ t[2] \in Labels /\ t[3] = Entry(shards[t[1]], t[2])'
      OBVIOUS
    <3>1. t \in Collected
      BY <2>1
    <3>2. t[1] \in {First, First + 1} /\ t[2] \in Labels /\ t[3] = Entry(shards[t[1]], t[2])
      BY <2>1, <3>1, CollectedIs
    <3>3. PICK p \in {First, First + 1}, l \in Labels : p = t[1] /\ l = t[2]
      BY <3>2
    <3> QED BY <2>4, <3>2, <3>3
  <2>7. \A k \in Labels : obn'[Tmp][k] = 0
    BY <2>1, <2>3
  <2>8. First' = First
    BY <2>1
  <2> QED BY <2>5, <2>6, <2>7, <2>8 DEF CopyInv
<1>4. CASE Making
  <2>1. /\ shards' = shards /\ First' = First /\ mislaid' = mislaid
        /\ \A p \in {First, First + 1}, l \in Labels : Entry(shards[p], l)' = Entry(shards[p], l)
    BY <1>1, <1>4, SourcesKept
  <2>2. CASE Copy \/ CopyEmpty \/ AddItem
    <3>1. PICK p \in {First, First + 1}, j \in Labels :
              /\ Took(p, j)
              /\ \A q \in {First, First + 1}, i \in Labels :
                    Moved(q, i)' <=> Moved(q, i) \/ (q = p /\ i = j)
      BY <1>1, <2>2, StepTakes
    <3>2. PICK d : d = Entry(shards[p], j)
      OBVIOUS
    <3>3. made.next \in Nat /\ made'.next \in Nat /\ made'.next >= made.next
      BY <1>4, <3>1, MakingIs DEF Took
    <3>4. d \in Docs => made.next \in Labels /\ made'.next = made.next + 1
      BY <3>1, <3>2 DEF Took
    <3>5. \A k \in Labels : /\ obn'[Tmp][k] = IF d \in Docs /\ k = made.next THEN d ELSE obn[Tmp][k]
                            /\ made'.vec[k] = IF d \in Docs /\ k = made.next THEN d ELSE made.vec[k]
      BY <3>1, <3>2 DEF Took
    <3>6. ASSUME NEW k \in Labels, obn'[Tmp][k] # 0
          PROVE  obn'[Tmp][k] \in Docs /\ \E q \in {First, First + 1}, l \in Labels :
                    Moved(q, l)' /\ obn'[Tmp][k] = Entry(shards[q], l)'
      <4>1. CASE d \in Docs /\ k = made.next
        <5>1. Moved(p, j)' /\ obn'[Tmp][k] = Entry(shards[p], j)'
          BY <2>1, <3>1, <3>2, <3>5, <4>1
        <5> QED BY <3>5, <4>1, <5>1
      <4>2. CASE ~(d \in Docs /\ k = made.next)
        <5>1. obn'[Tmp][k] = obn[Tmp][k]
          BY <3>5, <4>2
        <5>2. obn[Tmp][k] \in Docs
          BY <1>1, <1>4, <3>6, <5>1 DEF CopyInv
        <5>4. PICK q \in {First, First + 1}, l \in Labels : Moved(q, l) /\ obn[Tmp][k] = Entry(shards[q], l)
          BY <1>1, <1>4, <3>6, <5>1 DEF CopyInv
        <5>3. Moved(q, l)' /\ obn'[Tmp][k] = Entry(shards[q], l)'
          BY <2>1, <3>1, <5>1, <5>4
        <5> QED BY <5>1, <5>2, <5>3
      <4> QED BY <4>1, <4>2
    <3>7. ASSUME NEW q \in {First, First + 1}, NEW l \in Labels, Moved(q, l)',
                 Entry(shards[q], l)' \in Docs \ mislaid'
          PROVE  \E k \in Labels : k < made'.next /\ obn'[Tmp][k] = Entry(shards[q], l)' /\ made'.vec[k] = obn'[Tmp][k]
      <4>1. CASE q = p /\ l = j
        <5>0. d \in Docs
          BY <2>1, <3>2, <3>7, <4>1
        <5>1. made.next < made'.next /\ obn'[Tmp][made.next] = d /\ made'.vec[made.next] = d
          BY <3>3, <3>4, <3>5, <5>0
        <5> QED BY <2>1, <3>2, <3>4, <4>1, <5>0, <5>1
      <4>2. CASE Moved(q, l)
        <5>0. Entry(shards[q], l) \in Docs \ mislaid
          BY <2>1, <3>7
        <5>1. PICK k \in Labels : k < made.next /\ obn[Tmp][k] = Entry(shards[q], l) /\ made.vec[k] = obn[Tmp][k]
          BY <1>1, <1>4, <4>2, <5>0 DEF CopyInv
        <5>2. k # made.next /\ k < made'.next
          <6>1. k \in Int /\ k < made.next
            BY <5>1
          <6> HIDE NamesAre
          <6> QED BY <3>3, <6>1
        <5>3. obn'[Tmp][k] = obn[Tmp][k] /\ made'.vec[k] = made.vec[k]
          BY <3>5, <5>2
        <5> QED BY <2>1, <5>1, <5>2, <5>3
      <4> QED BY <3>1, <3>7, <4>1, <4>2
    <3>8. job'.phase = job.phase /\ items' \subseteq items
      BY <2>2, CopyShape DEF Copy, CopyEmpty, AddItem
    <3>9. job'.phase = "add" =>
             \A t \in items' : t[1] \in {First, First + 1} /\ t[2] \in Labels /\ t[3] = Entry(shards[t[1]], t[2])'
      <4> SUFFICES ASSUME job'.phase = "add", NEW t \in items'
                   PROVE  t[1] \in {First, First + 1} /\ t[2] \in Labels /\ t[3] = Entry(shards[t[1]], t[2])'
        OBVIOUS
      <4>1. t[1] \in {First, First + 1} /\ t[2] \in Labels /\ t[3] = Entry(shards[t[1]], t[2])
        BY <1>1, <1>4, <3>8 DEF CopyInv
      <4>2. PICK q \in {First, First + 1}, l \in Labels : q = t[1] /\ l = t[2]
        BY <4>1
      <4> QED BY <2>1, <4>1, <4>2
    <3> QED BY <2>1, <3>6, <3>7, <3>9 DEF CopyInv
  <2>3. CASE ~(Copy \/ CopyEmpty \/ AddItem)
    <3>1. /\ obn' = obn /\ items' = items /\ made'.vec = made.vec /\ made'.next = made.next
          /\ job'.phase = "add" => job.phase = "add"
          /\ \A q \in {First, First + 1}, i \in Labels : Moved(q, i)' <=> Moved(q, i)
      BY <1>1, <1>4, <2>3, TurnMoves
    <3>2. ASSUME NEW k \in Labels, obn'[Tmp][k] # 0
          PROVE  obn'[Tmp][k] \in Docs /\ \E q \in {First, First + 1}, l \in Labels :
                    Moved(q, l)' /\ obn'[Tmp][k] = Entry(shards[q], l)'
      <4>0. obn'[Tmp][k] = obn[Tmp][k] /\ obn[Tmp][k] \in Docs
        BY <1>1, <1>4, <3>1, <3>2 DEF CopyInv
      <4>1. PICK q \in {First, First + 1}, l \in Labels : Moved(q, l) /\ obn[Tmp][k] = Entry(shards[q], l)
        BY <1>1, <1>4, <3>1, <3>2 DEF CopyInv
      <4>2. Moved(q, l)' /\ obn'[Tmp][k] = Entry(shards[q], l)'
        BY <2>1, <4>0, <4>1, <3>1
      <4> QED BY <4>0, <4>2
    <3>3. ASSUME NEW q \in {First, First + 1}, NEW l \in Labels, Moved(q, l)',
                 Entry(shards[q], l)' \in Docs \ mislaid'
          PROVE  \E k \in Labels : k < made'.next /\ obn'[Tmp][k] = Entry(shards[q], l)' /\ made'.vec[k] = obn'[Tmp][k]
      <4>1. PICK k \in Labels : k < made.next /\ obn[Tmp][k] = Entry(shards[q], l) /\ made.vec[k] = obn[Tmp][k]
        <5>1. Moved(q, l) /\ Entry(shards[q], l) \in Docs \ mislaid
          BY <2>1, <3>1, <3>3
        <5> QED BY <1>1, <1>4, <5>1 DEF CopyInv
      <4> QED BY <2>1, <3>1, <4>1
    <3>4. job'.phase = "add" =>
             \A t \in items' : t[1] \in {First, First + 1} /\ t[2] \in Labels /\ t[3] = Entry(shards[t[1]], t[2])'
      <4> SUFFICES ASSUME job'.phase = "add", NEW t \in items'
                   PROVE  t[1] \in {First, First + 1} /\ t[2] \in Labels /\ t[3] = Entry(shards[t[1]], t[2])'
        OBVIOUS
      <4>1. t[1] \in {First, First + 1} /\ t[2] \in Labels /\ t[3] = Entry(shards[t[1]], t[2])
        BY <1>1, <1>4, <3>1 DEF CopyInv
      <4>2. PICK q \in {First, First + 1}, l \in Labels : q = t[1] /\ l = t[2]
        BY <4>1
      <4> QED BY <2>1, <4>1, <4>2
    <3> QED BY <2>1, <3>2, <3>3, <3>4 DEF CopyInv
  <2> QED BY <2>2, <2>3
<1> QED BY <1>2, <1>3, <1>4

-----------------------------------------------------------------------------
(* What a merge takes over.                                                *)

\* What may happen after the merged shard is installed.
LEMMA LateStep ==
    ASSUME Shape, [Next]_vars
    PROVE  /\ job'.phase \in {"installed", "removed", "dropped"} =>
                 \/ MergeInstall /\ job'.phase = "installed"
                 \/ MergeRemove /\ job'.phase = "removed"
                 \/ MergeRemoveGraph /\ job'.phase = "dropped"
                 \/ UNCHANGED vars
           /\ job.phase = "installed" => MergeRemove \/ UNCHANGED vars \/ shards' = <<>>
<1>1. \/ MergeInstall \/ MergeRemove \/ MergeRemoveGraph \/ UNCHANGED vars
      \/ job'.phase = "no"
      \/ Making'
      \/ \E i \in 1 .. Len(shards), l \in Labels : Remove(i, l)
      \/ AppendChunk \/ AppendRejected \/ AppendRefused \/ Flush \/ Clear \/ Close
      \/ \E i \in 1 .. Len(shards) : ReadText(i)
  <2>1. Open => job'.phase = "no"
    BY OpenShape DEF Open, mergeVars
  <2>2. Death \/ CopyOverflows \/ MergeDone => job'.phase = "no"
    BY DeathIs DEF CopyOverflows, MergeDone, NoJob
  <2>3. Copy \/ AddItem \/ CopyEmpty \/ CopyDone \/ AddDone \/ MergeFlush => Making'
    BY CopyShape, TurnShape
  <2>4. (\E mode \in Modes : MergeBegin(mode)) => Making'
    BY BeginIs
  <2> QED BY <2>1, <2>2, <2>3, <2>4 DEF Next, MergeStep, Death
<1>2. ASSUME \/ \E i \in 1 .. Len(shards), l \in Labels : Remove(i, l)
             \/ AppendChunk \/ AppendRejected \/ AppendRefused \/ Flush \/ Clear \/ Close
             \/ \E i \in 1 .. Len(shards) : ReadText(i)
      PROVE  job'.phase = "no" /\ job.phase = "no"
  BY <1>2 DEF Remove, AppendChunk, AppendRejected, AppendRefused, Appending, ReadText, Flush, Clear, Close, Idle, mergeVars
<1>3. /\ MergeInstall => job'.phase = "installed" /\ job.phase # "installed"
      /\ MergeRemove => job'.phase = "removed"
      /\ MergeRemoveGraph => job'.phase = "dropped" /\ job.phase # "installed"
  BY DEF MergeInstall, MergeRemove, MergeRemoveGraph, Shape, TypeOK
<1>4. job.phase = "installed" =>
         /\ ~Making' /\ ~Open /\ ~CopyOverflows /\ ~MergeDone
         /\ Death => shards' = <<>>
  <2>1. job.phase = "installed" => ~Making /\ ~Idle /\ isOpen
    BY DEF Making, Idle, Shape
  <2>2. job.phase = "installed" => ~Making'
    BY <2>1, MakingStep DEF MergeBegin
  <2> QED
    BY <2>1, <2>2, DeathIs DEF Open, CopyOverflows, Overflows, Reading, MergeDone
<1>5. /\ job'.phase \in {"installed", "removed", "dropped"} =>
            \/ MergeInstall /\ job'.phase = "installed"
            \/ MergeRemove /\ job'.phase = "removed"
            \/ MergeRemoveGraph /\ job'.phase = "dropped"
            \/ UNCHANGED vars
  BY <1>1, <1>2, <1>3 DEF Making
<1>6. job.phase = "installed" => MergeRemove \/ UNCHANGED vars \/ shards' = <<>>
  <2> SUFFICES ASSUME job.phase = "installed" PROVE MergeRemove \/ UNCHANGED vars \/ shards' = <<>>
    OBVIOUS
  <2>1. ~(Copy \/ AddItem \/ CopyEmpty \/ CopyDone \/ AddDone \/ MergeFlush)
    BY <1>4, CopyShape, TurnShape
  <2>2. ~\E mode \in Modes : MergeBegin(mode)
    BY <1>4, BeginIs
  <2> QED BY <1>2, <1>3, <1>4, <2>1, <2>2 DEF Next, MergeStep, Death
<1> QED BY <1>5, <1>6

\* Once it is installed the merged shard has what the second has, but what was lost
\* when it was collected, until the entries of that one are gone.
TakenOver ==
    /\ ~reused /\ job.phase = "installed" =>
        \A l \in Labels : Entry(B, l) \in Docs \ mislaid =>
              \E k \in Labels : obn[Tmp][k] = Entry(B, l) /\ A.vec[k] = obn[Tmp][k]
    /\ job.phase \in {"removed", "dropped"} => obn[First] = Nothing

\* Every step keeps what a merge has taken over, until the sources are gone.
LEMMA TakenOverStep == Shape /\ OneTmp /\ CopyInv /\ TakenOver /\ [Next]_vars => TakenOver'
<1> SUFFICES ASSUME Shape, OneTmp, CopyInv, TakenOver, [Next]_vars,
                    job'.phase \in {"installed", "removed", "dropped"}
             PROVE  TakenOver'
  BY DEF TakenOver
<1>1. CASE MergeInstall
  <2>1. /\ Making /\ Len(shards) > 1 /\ Len(shards') = Len(shards) /\ shards'[First] = made /\ obn' = obn
        /\ \A i \in 1 .. Len(shards) : i # First => shards'[i] = shards[i]
        /\ reused' = reused /\ mislaid' = mislaid /\ job'.phase = "installed" /\ job.phase = "flushed"
    BY <1>1, InstallShape DEF MergeInstall, merging
  <2> SUFFICES ASSUME ~reused, NEW l \in Labels, Entry(B, l)' \in Docs \ mislaid'
               PROVE  \E k \in Labels : obn'[Tmp][k] = Entry(B, l)' /\ A'.vec[k] = obn'[Tmp][k]
    BY <2>1 DEF TakenOver
  <2>2. /\ First \in Nat /\ First + 1 \in 1 .. Len(shards) /\ B = shards[First + 1] /\ First + 1 = Len(shards)
    BY <2>1, SourcesAre, FirstIs
  <2>3. B' = shards[First + 1] /\ A' = made
    <3>1. Len(shards') = First + 1
      BY <2>1, <2>2
    <3>2. shards'[First + 1] = shards[First + 1]
      BY <2>1, <2>2
    <3>3. B' = shards'[Len(shards')] /\ A' = shards'[Len(shards') - 1]
      BY DEF B, A, Last
    <3> QED BY <2>1, <2>2, <3>1, <3>2, <3>3
  <2>4. Entry(B, l)' = Entry(shards[First + 1], l)
    BY <2>1, <2>3 DEF Entry
  <2>5. Moved(First + 1, l)
    BY <2>1, <2>4, TextsAre DEF Moved
  <2>6. PICK k \in Labels : obn[Tmp][k] = Entry(shards[First + 1], l) /\ made.vec[k] = obn[Tmp][k]
    BY <2>1, <2>4, <2>5 DEF CopyInv
  <2> QED BY <2>1, <2>3, <2>4, <2>6
<1>2. CASE MergeRemove
  <2>1. First \in Base /\ shards' = shards /\ obn' = [obn EXCEPT ![First] = Nothing] /\ job'.phase = "removed"
    BY <1>2, ReplaceShape DEF MergeRemove, Shape, TypeOK
  <2>2. First \in Names /\ obn \in [Names -> EntryMaps]
    BY <2>1, NamesAre DEF Shape, TypeOK, TextsOK
  <2>3. obn'[First] = Nothing /\ First' = First
    BY <2>1, <2>2 DEF First
  <2> QED BY <2>1, <2>3 DEF TakenOver
<1>3. CASE MergeRemoveGraph
  <2>1. shards' = shards /\ obn' = obn /\ job.phase = "removed" /\ job'.phase = "dropped"
    BY <1>3 DEF MergeRemoveGraph, Shape, TypeOK, texts
  <2>2. First' = First
    BY <2>1 DEF First
  <2> QED BY <2>1, <2>2 DEF TakenOver
<1>4. CASE UNCHANGED vars
  BY <1>4 DEF vars, files, texts, mergeVars, merging, TakenOver, Entry, A, B, Last, First
<1> QED BY <1>1, <1>2, <1>3, <1>4, LateStep

\* Unless a merge found the files of an earlier one, no chunk stands twice in the
\* shard that a merge makes,
TmpOnce ==
    ~reused => \A k, l \in Labels : Own(Tmp, k) = Own(Tmp, l) /\ Own(Tmp, k) # 0 => k = l

\* and once that is installed, in no other shard: only in the files of the first
\* that it was made from, and until they are removed those of the second.
TmpApart ==
    ~reused =>
        \A i \in 1 .. Len(shards) : shards[i].file = Tmp =>
            \A n \in Base \ {i - 1} : ~(job.phase = "installed" /\ n = First) =>
                \A k, l \in Labels : Own(Tmp, k) = Own(n, l) => Own(Tmp, k) = 0

\* Every step keeps a doc to one label of the merged shard.
LEMMA TmpOnceStep ==
    Shape /\ Fresh /\ OneTmp /\ BaseApart /\ BaseLabels /\ CopyInv /\ TmpOnce /\ [Next]_vars => TmpOnce'
<1> SUFFICES ASSUME Shape, Fresh, OneTmp, BaseApart, BaseLabels, CopyInv, TmpOnce, [Next]_vars, ~reused',
                    NEW k \in Labels, NEW l \in Labels, Own(Tmp, k)' = Own(Tmp, l)', Own(Tmp, k)' # 0
             PROVE  k = l
  BY DEF TmpOnce
<1> USE NamesAre
<1>1. ~reused
  BY ReusedStays
<1>2. CASE Copy \/ CopyEmpty \/ AddItem
  <2>1. Making /\ shared' = shared
    BY <1>2, CopyShape DEF history
  <2>2. PICK p \in {First, First + 1}, j \in Labels :
              /\ Took(p, j)
              /\ Entry(shards[p], j) \in Docs \ shared => \A i \in Labels : obn[Tmp][i] # Entry(shards[p], j)
    BY <1>1, <1>2, StepTakes
  <2>3. PICK d : d = Entry(shards[p], j)
    OBVIOUS
  <2>4. \A i \in Labels : obn'[Tmp][i] = IF d \in Docs /\ i = made.next THEN d ELSE obn[Tmp][i]
    BY <2>2, <2>3 DEF Took
  <2>5. \A i \in Labels : Own(Tmp, i)' = IF d \in Docs /\ i = made.next THEN (IF d \notin shared THEN d ELSE 0)
                                         ELSE Own(Tmp, i)
    BY <2>1, <2>4 DEF Own
  <2>6. d \in Docs \ shared => \A i \in Labels : Own(Tmp, i) # d
    BY <2>2, <2>3, TextsAre DEF Own
  <2> QED BY <1>1, <2>5, <2>6 DEF TmpOnce
<1>3. CASE ~(Copy \/ CopyEmpty \/ AddItem)
  <2>1. ASSUME NEW j \in Labels
        PROVE  \/ Own(Tmp, j)' = Own(Tmp, j) \/ Own(Tmp, j)' = 0
               \/ j = Label(Current) /\ Own(Tmp, j)' = docs + 1
    BY <1>3, OwnStep DEF Copied
  <2>2. ASSUME NEW j \in Labels PROVE Own(Tmp, j) \in Nat /\ Own(Tmp, j) <= docs
    BY OwnIs
  <2>3. docs \in Nat
    BY DocsGrow
  <2> HIDE DEF Label, Current
  <2>4. \A j \in Labels : Own(Tmp, j) # docs + 1
    BY <2>2, <2>3
  <2>5. CASE Own(Tmp, k)' = docs + 1
    BY <2>1, <2>3, <2>4, <2>5
  <2>6. CASE Own(Tmp, k)' # docs + 1
    <3>1. Own(Tmp, k)' = Own(Tmp, k) /\ Own(Tmp, l)' = Own(Tmp, l)
      BY <2>1, <2>6
    <3> QED BY <1>1, <3>1 DEF TmpOnce
  <2> QED BY <2>5, <2>6
<1> QED BY <1>2, <1>3

\* Every step keeps the docs of the merged shard apart from those of unmerged ones that
\* stay.
LEMMA TmpApartStep ==
    Shape /\ Fresh /\ OneTmp /\ BaseApart /\ CopyInv /\ TmpApart /\ [Next]_vars => TmpApart'
<1> SUFFICES ASSUME Shape, Fresh, OneTmp, BaseApart, CopyInv, TmpApart, [Next]_vars, ~reused',
                    NEW i \in 1 .. Len(shards'), shards'[i].file = Tmp,
                    NEW n \in Base \ {i - 1}, ~(job'.phase = "installed" /\ n = First'),
                    NEW k \in Labels, NEW l \in Labels, Own(Tmp, k)' = Own(n, l)', Own(Tmp, k)' # 0
             PROVE  FALSE
  BY DEF TmpApart
<1> USE NamesAre
<1>1. ~reused
  BY ReusedStays
<1>2. CASE MergeInstall
  <2>1. /\ Making /\ obn' = obn /\ shared' = shared /\ Len(shards') = Len(shards) /\ job'.phase = "installed"
    BY <1>2, InstallShape DEF history
  <2>2. /\ First \in Nat /\ First' = First
        /\ \A p \in {First, First + 1} : shards[p].file = p - 1 /\ p - 1 \in Base /\ p \in 1 .. Len(shards)
    BY <1>1, <2>1, SourcesAre DEF First
  <2>3. i = First
    BY <1>1, <1>2, <2>1, TmpShards DEF OneTmp
  <2>4. Own(Tmp, k) = Own(n, l) /\ Own(Tmp, k) # 0 /\ Own(Tmp, k) = obn[Tmp][k] /\ obn[Tmp][k] \in Docs \ shared
    BY <2>1, OwnIs DEF Own
  <2>5. PICK p \in {First, First + 1}, j \in Labels : obn[Tmp][k] = Entry(shards[p], j)
    BY <1>1, <2>1, <2>4, TextsAre DEF CopyInv
  <2>6. PICK m \in Base : m = p - 1 /\ obn[m][j] = obn[Tmp][k]
    BY <2>2, <2>5 DEF Entry
  <2>7. n = m
    <3>1. Own(m, j) = Own(n, l) /\ Own(m, j) # 0
      BY <2>4, <2>6 DEF Own
    <3> QED BY <3>1 DEF BaseApart
  <2> QED BY <2>1, <2>2, <2>3, <2>6, <2>7
<1>3. CASE ~MergeInstall
  <2>1. i \in 1 .. Len(shards) /\ shards[i].file = Tmp
    BY <1>3, TmpShards
  <2>2. ~Making
    BY <1>1, <2>1 DEF OneTmp
  <2>3. ASSUME NEW m \in Names, NEW j \in Labels
        PROVE  \/ Own(m, j)' = Own(m, j) \/ Own(m, j)' = 0
               \/ m = Current.file /\ j = Label(Current) /\ Own(m, j)' = docs + 1
    BY <2>2, OwnStep DEF Copied
  <2>4. ASSUME NEW m \in Names, NEW j \in Labels PROVE Own(m, j) \in Nat /\ Own(m, j) <= docs
    BY OwnIs
  <2>5. docs \in Nat /\ n \in Names /\ Tmp \in Names /\ n # Tmp
    BY DocsGrow
  <2> HIDE DEF Label, Current
  <2>6. \A m \in Names, j \in Labels : Own(m, j) # docs + 1
    BY <2>4, <2>5
  <2>7. Own(Tmp, k)' # docs + 1
    <3> SUFFICES ASSUME Own(Tmp, k)' = docs + 1 PROVE FALSE
      OBVIOUS
    <3>1. Tmp = Current.file
      BY <2>3, <2>5, <2>6
    <3>2. n = Current.file
      BY <2>3, <2>5, <2>6
    <3> QED BY <2>5, <3>1, <3>2
  <2>8. Own(Tmp, k) = Own(n, l) /\ Own(Tmp, k) # 0
    <3>1. Own(Tmp, k)' = Own(Tmp, k) /\ Own(n, l)' = Own(n, l)
      BY <2>3, <2>5, <2>7
    <3> QED BY <3>1
  <2>9. job.phase = "installed" /\ n = First
    BY <1>1, <2>1, <2>8 DEF TmpApart
  <2>10. CASE MergeRemove
    <3>1. obn' = [obn EXCEPT ![First] = Nothing] /\ obn \in [Names -> EntryMaps]
      BY <2>10 DEF MergeRemove, Shape, TypeOK, TextsOK
    <3>2. obn'[n][l] = 0
      BY <2>5, <2>9, <3>1 DEF Nothing
    <3> QED BY <3>2, TextsAre DEF Own
  <2>11. CASE UNCHANGED vars
    BY <2>9, <2>11 DEF vars, mergeVars, First
  <2>12. CASE shards' = <<>>
    BY <2>12
  <2> QED BY <2>9, <2>10, <2>11, <2>12, LateStep
<1> QED BY <1>2, <1>3

-----------------------------------------------------------------------------
\* What a search relies on: where each text stands.
Placed ==
    /\ Shape /\ Fresh /\ Waiting /\ BaseApart /\ BaseLabels /\ OneTmp /\ CopyInv
    /\ TakenOver /\ TmpOnce /\ TmpApart

\* Before the first session nothing is anywhere.
LEMMA PlacedInit == Init => Placed
<1> SUFFICES ASSUME Init PROVE Placed
  OBVIOUS
<1> USE NamesAre
<1>1. \A n \in Names, l \in Labels : obn[n][l] = 0 /\ Own(n, l) = 0
  BY TextsAre DEF Init, Nothing, Own
<1>2. Len(shards) = 0 /\ removed = {} /\ items = {} /\ docs = 0 /\ job.phase = "no" /\ ~Making
  BY DEF Init, NoJob, Making
<1>3. Shape
  BY ShapeInit
<1>4. Fresh /\ Waiting /\ BaseApart /\ BaseLabels /\ TmpOnce
  <2>1. Fresh
    <3>1. docs \in Nat /\ 0 <= docs
      BY <1>2
    <3> QED BY <1>1, <1>2, <3>1, TextsAre DEF Fresh
  <2>5. Waiting
    BY DEF Init, Waiting
  <2>2. BaseApart
    BY <1>1 DEF BaseApart
  <2>3. BaseLabels
    BY <1>1, <1>2 DEF BaseLabels
  <2>4. TmpOnce
    BY <1>1 DEF TmpOnce
  <2> QED BY <2>1, <2>2, <2>3, <2>4, <2>5
<1>5. OneTmp /\ CopyInv /\ TakenOver /\ TmpApart
  BY <1>2 DEF OneTmp, CopyInv, TakenOver, TmpApart
<1> QED BY <1>3, <1>4, <1>5 DEF Placed

\* Every step of the specification keeps the inductive invariant of the merge.
LEMMA PlacedStep == Placed /\ [Next]_vars => Placed'
  BY ShapeStep, FreshStep, WaitingStep, BaseApartStep, BaseLabelsStep, OneTmpStep, CopyInvStep, TakenOverStep,
     TmpOnceStep, TmpApartStep DEF Placed

\* For any number of shards, labels, merges, crashes and sessions: as long as no merge
\* finds the files of an earlier one, no doc is found in two places, but one whose text
\* an older entry shows too that a death left without its own.
THEOREM FoundOnceHolds == Spec => []FoundOnce
<1>1. Placed => FoundOnce
  <2> SUFFICES ASSUME Placed, Idle, ~reused,
                      NEW i \in 1 .. Len(shards), NEW j \in 1 .. Len(shards), NEW k \in Labels, NEW l \in Labels,
                      shards[i].vec[k] \notin shared \cup {0}, Entry(shards[i], k) = shards[i].vec[k],
                      shards[j].vec[l] = shards[i].vec[k], Entry(shards[j], l) = shards[j].vec[l]
               PROVE  i = j /\ k = l
    BY DEF FoundOnce
  <2>1. /\ shards[i].file \in {i - 1, Tmp} /\ shards[j].file \in {j - 1, Tmp}
        /\ i - 1 \in Base /\ j - 1 \in Base /\ job.phase = "no"
    BY ShardsAre DEF Placed, Idle
  <2>6. Own(shards[i].file, k) = Own(shards[j].file, l) /\ Own(shards[i].file, k) # 0
    <3>1. shards[i].vec[k] \in Docs
      <4>1. shards[i].vec \in Maps
        BY ShardsAre DEF Placed, ShardType
      <4> QED BY <4>1 DEF Maps, Docs
    <3>2. obn[shards[i].file][k] \in Docs \ shared /\ obn[shards[j].file][l] = obn[shards[i].file][k]
      BY <3>1 DEF Entry
    <3> QED BY <3>2, TextsAre DEF Own
  <2>2. CASE shards[i].file = i - 1 /\ shards[j].file = j - 1
    <3>1. i - 1 = j - 1 /\ k = l
      BY <2>1, <2>2, <2>6 DEF Placed, BaseApart
    <3> QED BY <3>1
  <2>3. CASE shards[i].file = Tmp /\ shards[j].file = Tmp
    BY <2>1, <2>3, <2>6 DEF Placed, OneTmp, TmpOnce
  <2>4. CASE shards[i].file = Tmp /\ shards[j].file # Tmp
    <3>1. shards[j].file = j - 1 /\ i # j /\ j - 1 \in Base \ {i - 1}
      BY <2>1, <2>4
    <3> QED BY <2>1, <2>4, <2>6, <3>1 DEF Placed, TmpApart
  <2>5. CASE shards[i].file # Tmp /\ shards[j].file = Tmp
    <3>1. shards[i].file = i - 1 /\ i # j /\ i - 1 \in Base \ {j - 1}
      BY <2>1, <2>5
    <3> QED BY <2>1, <2>5, <2>6, <3>1 DEF Placed, TmpApart
  <2> QED BY <2>1, <2>2, <2>3, <2>4, <2>5
<1> QED
  BY <1>1, PlacedInit, PlacedStep, PTL DEF Spec

-----------------------------------------------------------------------------
(* What was taken out.                                                     *)

\* A chunk that was removed stands in no entry any more, and in a merged shard only
\* if it was removed there, unless an older entry showed it too.
RemovedGone ==
    /\ \A r \in removed, n \in Base, l \in Labels : r[2] # Tmp => Own(n, l) # r[1]
    /\ ~reused /\ (Making \/ Tmp \in OpenFiles) =>
          \A r \in removed, l \in Labels : r[2] # Tmp => Own(Tmp, l) # r[1]

\* Every step keeps what remove took out out of the place it was taken from.
LEMMA RemovedGoneStep == Placed /\ RemovedGone /\ [Next]_vars => RemovedGone'
<1> SUFFICES ASSUME Placed, RemovedGone, [Next]_vars PROVE RemovedGone'
  OBVIOUS
<1> USE NamesAre
<1>0. Shape /\ Fresh /\ BaseApart /\ OneTmp /\ CopyInv /\ BaseLabels /\ TmpApart
  BY DEF Placed
<1>1. docs \in Nat /\ \A d \in Docs : d # 0
  BY <1>0, DocsGrow, TextsAre
<1>2. \A r \in removed : r[1] \in Docs /\ r[1] # 0 /\ r[1] <= docs
  BY <1>0, TextsAre DEF Shape, TypeOK, Fresh
<1>3. ASSUME NEW r \in removed', r \notin removed, r[2] # Tmp
      PROVE  \E i \in 1 .. Len(shards), l \in Labels :
                /\ Remove(i, l) /\ i - 1 \in Base /\ shards[i].file = i - 1 /\ shared' = shared
                /\ r[1] = obn[i - 1][l] /\ r[1] \in Docs /\ obn' = [obn EXCEPT ![i - 1][l] = 0]
  <2>1. PICK i \in 1 .. Len(shards), l \in Labels :
           Remove(i, l) /\ removed' = removed \cup (({Entry(shards[i], l)} \cap Docs) \X {shards[i].file})
    BY <1>0, <1>3, RemovedStep
  <2>2. r = <<Entry(shards[i], l), shards[i].file>> /\ Entry(shards[i], l) \in Docs
    BY <1>3, <2>1
  <2>3. i - 1 \in Base /\ shards[i].file \in {i - 1, Tmp}
    BY <1>0, ShardsAre
  <2>4. obn' = [obn EXCEPT ![shards[i].file][l] = 0] /\ shared' = shared
    BY <1>0, <2>1, RemoveIs DEF Remove
  <2>5. shards[i].file = i - 1
    BY <1>3, <2>2, <2>3
  <2> QED BY <2>1, <2>2, <2>3, <2>4, <2>5 DEF Entry
<1>4. obn \in [Names -> [Labels -> Texts \cup {0}]]
  BY <1>0 DEF Shape, TypeOK, TextsOK, EntryMaps
<1>5. ASSUME NEW r \in removed', NEW n \in Base, NEW l \in Labels, r[2] # Tmp, Own(n, l)' = r[1]
      PROVE  FALSE
  <2>1. CASE r \in removed
    <3>1. \/ Own(n, l)' = Own(n, l) \/ Own(n, l)' = 0 \/ Own(n, l)' = docs + 1
      BY <1>0, OwnStep
    <3>2. Own(n, l) # r[1]
      BY <1>5, <2>1 DEF RemovedGone
    <3>3. r[1] # 0 /\ r[1] # docs + 1
      BY <1>1, <1>2, <2>1 DEF Docs
    <3> QED BY <1>5, <3>1, <3>2, <3>3
  <2>2. CASE r \notin removed
    <3>1. PICK i \in 1 .. Len(shards), j \in Labels :
                /\ i - 1 \in Base /\ r[1] = obn[i - 1][j] /\ r[1] \in Docs /\ obn' = [obn EXCEPT ![i - 1][j] = 0]
                /\ shared' = shared
      BY <1>3, <1>5, <2>2
    <3>2. obn'[n][l] = IF n = i - 1 /\ l = j THEN 0 ELSE obn[n][l]
      BY <1>4, <3>1
    <3>3. obn'[n][l] = r[1] /\ r[1] \notin shared
      BY <1>1, <1>5, <3>1 DEF Own
    <3>4. obn'[n][l] = obn[n][l] /\ ~(n = i - 1 /\ l = j)
      BY <1>1, <3>1, <3>2, <3>3
    <3>5. Own(n, l) = Own(i - 1, j) /\ Own(n, l) # 0
      BY <1>1, <3>1, <3>3, <3>4 DEF Own
    <3> QED BY <1>0, <3>1, <3>4, <3>5 DEF BaseApart
  <2> QED BY <2>1, <2>2
<1>6. ASSUME ~reused', Making' \/ Tmp \in OpenFiles',
             NEW r \in removed', NEW l \in Labels, r[2] # Tmp, Own(Tmp, l)' = r[1]
      PROVE  FALSE
  <2>1. ~reused
    BY <1>0, <1>6, ReusedStays
  <2>2. CASE \E mode \in Modes : MergeBegin(mode)
    <3>1. obn' = obn /\ removed' = removed /\ obn[Tmp] = Nothing
      BY <1>0, <1>6, <2>2, BeginIs, ReusedStays DEF history
    <3>2. Own(Tmp, l)' = 0
      BY <1>1, <3>1 DEF Nothing, Own
    <3> QED BY <1>2, <1>6, <3>1, <3>2
  <2>3. CASE ~\E mode \in Modes : MergeBegin(mode)
    <3>1. Making \/ Tmp \in OpenFiles
      <4>1. CASE Making'
        BY <1>0, <2>3, <4>1, MakingStep
      <4>2. CASE Tmp \in OpenFiles'
        <5>1. PICK i \in 1 .. Len(shards') : shards'[i].file = Tmp
          BY <4>2 DEF OpenFiles
        <5>2. (i \in 1 .. Len(shards) /\ shards[i].file = Tmp) \/ MergeInstall
          BY <1>0, <5>1, TmpShards
        <5> QED BY <1>0, <5>2, InstallShape DEF OpenFiles
      <4> QED BY <1>6, <4>1, <4>2
    <3>2. CASE r \in removed
      <4>1. Own(Tmp, l) # r[1] /\ r[1] # 0 /\ r[1] # docs + 1
        BY <1>1, <1>2, <1>6, <2>1, <3>1, <3>2 DEF RemovedGone, Docs
      <4>2. Copied(l, obn'[Tmp][l]) /\ obn'[Tmp][l] = r[1] /\ r[1] \in Docs \ shared
        BY <1>0, <1>6, <4>1, OwnStep
      <4>3. Making /\ (Copy \/ AddItem)
        BY <4>2 DEF Copied
      <4>4. PICK p \in {First, First + 1}, j \in Labels : Took(p, j)
        BY <1>0, <2>1, <4>3, StepTakes
      <4>5. obn'[Tmp][l] = Entry(shards[p], j)
        <5>1. obn[Tmp][l] # r[1]
          BY <1>1, <4>1, <4>2 DEF Own
        <5> QED BY <4>2, <4>4, <5>1 DEF Took
      <4>6. p - 1 \in Base /\ obn[p - 1][j] = r[1]
        BY <1>0, <2>1, <4>2, <4>3, <4>5, SourcesAre DEF Entry
      <4>7. Own(p - 1, j) = r[1]
        BY <4>2, <4>6 DEF Own
      <4> QED BY <1>6, <3>2, <4>6, <4>7 DEF RemovedGone
    <3>3. CASE r \notin removed
      <4>1. PICK i \in 1 .. Len(shards), j \in Labels :
                /\ Remove(i, j) /\ i - 1 \in Base /\ shards[i].file = i - 1
                /\ r[1] = obn[i - 1][j] /\ r[1] \in Docs /\ obn' = [obn EXCEPT ![i - 1][j] = 0]
                /\ shared' = shared
        BY <1>3, <1>6, <3>3
      <4>2. obn'[Tmp][l] = obn[Tmp][l]
        BY <1>4, <4>1
      <4>3. job.phase = "no" /\ ~Making
        BY <4>1 DEF Remove, Idle, Making
      <4>4. PICK m \in 1 .. Len(shards) : shards[m].file = Tmp
        BY <3>1, <4>3 DEF OpenFiles
      <4>5. m - 1 \in Base /\ i - 1 \in Base \ {m - 1}
        BY <1>0, <4>1, <4>4, ShardsAre, SMTT(30)
      <4>6. Own(Tmp, l) = Own(i - 1, j) /\ Own(Tmp, l) # 0
        BY <1>1, <1>6, <4>1, <4>2 DEF Own
      <4>7. Own(Tmp, l) = Own(i - 1, j) => Own(Tmp, l) = 0
        <5>1. job.phase # "installed"
          BY <4>3
        <5>2. \A n \in Base \ {m - 1}, k, h \in Labels : Own(Tmp, k) = Own(n, h) => Own(Tmp, k) = 0
          BY <1>0, <2>1, <4>4, <5>1 DEF TmpApart
        <5> QED BY <4>5, <5>2
      <4> QED BY <4>6, <4>7
    <3> QED BY <3>2, <3>3
  <2> QED BY <2>2, <2>3
<1> QED BY <1>5, <1>6 DEF RemovedGone

-----------------------------------------------------------------------------
(* Before the first merge.                                                 *)

\* The names whose image was cut off.
Cut == blank \cup torn

\* Each shard has the name of its place, and its files hold what was saved of it; none
\* but the last is empty, unless its image was cut off.
Unmerged ==
    merges = 0 =>
        /\ Tmp \notin OpenFiles /\ job.phase = "no"
        /\ \A i \in 1 .. Len(shards) :
              /\ i - 1 \in sets
              /\ ~shards[i].unsaved => hix[i - 1] = shards[i].vec
              /\ i < Len(shards) => shards[i].vec # Nothing \/ i - 1 \in Cut

\* Before the first merge the shard at i has the name of its place.
LEMMA PlainFiles ==
    ASSUME Shape, Unmerged, merges = 0
    PROVE  \A i \in 1 .. Len(shards) : shards[i].file = i - 1 /\ i - 1 \in Base /\ i - 1 \in Names /\ i \in Int
  BY ShardsAre, NamesAre DEF Unmerged, OpenFiles

\* Before the first merge each shard is saved under a name of its own.
LEMMA SaveAllPlain ==
    ASSUME Shape, Unmerged, merges = 0, NEW i \in 1 .. Len(shards)
    PROVE  SaveAll[i - 1] = shards[i].vec
<1>1. \A j \in 1 .. Len(shards) : shards[j].file = j - 1 /\ j - 1 \in Names /\ j \in Int
  BY PlainFiles
<1>2. CASE shards[i].unsaved
  <2>1. PICK j \in 1 .. Len(shards) :
           shards[j].file = shards[i].file /\ SaveAll[shards[i].file] = shards[j].vec
    BY <1>2, SaveAllIs
  <2>2. j = i
    BY <1>1, <2>1
  <2> QED BY <1>1, <2>1, <2>2
<1>3. CASE ~shards[i].unsaved
  <2>1. hix[i - 1] = shards[i].vec
    BY <1>3 DEF Unmerged
  <2>2. i - 1 \in Names
    BY <1>1
  <2>3. SaveAll[i - 1] = hix[i - 1] \/ \E j \in 1 .. Len(shards) :
            shards[j].file = i - 1 /\ shards[j].unsaved /\ SaveAll[i - 1] = shards[j].vec
    BY <2>2, SaveAllIs
  <2>4. \A j \in 1 .. Len(shards) : shards[j].file = i - 1 => j = i
    BY <1>1
  <2> QED BY <1>3, <2>1, <2>3, <2>4
<1> QED BY <1>2, <1>3

\* The steps that there are before the first merge.
LEMMA PlainSteps ==
    ASSUME Shape, Unmerged, [Next]_vars, merges' = 0
    PROVE  /\ merges = 0 /\ job.phase = "no" /\ job'.phase = "no"
           /\ \/ Open \/ AppendChunk \/ AppendRejected \/ AppendRefused
              \/ \E i \in 1 .. Len(shards), l \in Labels : Remove(i, l)
              \/ \E i \in 1 .. Len(shards) : ReadText(i)
              \/ Flush \/ Clear \/ Close \/ Death \/ UNCHANGED vars
<1>1. merges \in Nat
  BY DEF Shape, TypeOK
<1>2. ~\E mode \in Modes : MergeBegin(mode)
  <2> SUFFICES ASSUME NEW mode \in Modes, MergeBegin(mode) PROVE FALSE
    OBVIOUS
  <2>1. merges' = merges + 1
    BY BeginIs
  <2> QED BY <1>1, <2>1
<1>3. merges' = merges
  <2>1. Death => merges' = merges
    BY DeathIs
  <2> QED
    BY <1>2, <2>1
       DEF Next, MergeStep, Death, vars, merging, Open, AppendChunk, AppendRejected, AppendRefused, Remove,
           ReadText, Flush, Clear, Close, Copy, CopyEmpty, CopyDone, AddItem, AddDone, CopyOverflows,
           MergeFlush, MergeInstall, MergeRemove, MergeRemoveGraph, MergeDone
<1>4. merges = 0 /\ job.phase = "no"
  BY <1>3 DEF Unmerged
<1>5. ~MergeStep
  BY <1>4
     DEF MergeStep, Copy, CopyEmpty, CopyDone, Reading, AddItem, AddDone, Overflows, CopyOverflows,
         AddOverflows, AddFaults, CrashInMerge, MergeFlush, MergeInstall, MergeRemove, MergeRemoveGraph, MergeDone
<1>6. \/ Open \/ AppendChunk \/ AppendRejected \/ AppendRefused
      \/ \E i \in 1 .. Len(shards), l \in Labels : Remove(i, l)
      \/ \E i \in 1 .. Len(shards) : ReadText(i)
      \/ Flush \/ Clear \/ Close \/ Death \/ UNCHANGED vars
  <2>1. ASSUME NEW i \in 1 .. Len(shards), ReadText(i) \/ CrashInSave(i)
        PROVE  Death \/ \E k \in 1 .. Len(shards) : ReadText(k)
    BY <2>1 DEF Death
  <2>2. Crash \/ SearchFaults => Death
    BY DEF Death
  <2> QED BY <1>2, <1>5, <2>1, <2>2 DEF Next
<1>7. job' = job \/ job' = NoJob
  <2>1. Death => job' = NoJob
    BY DeathIs
  <2> QED
    BY <1>6, <2>1, ReadIs
       DEF vars, mergeVars, Open, AppendChunk, AppendRejected, AppendRefused, Remove, ReadText, Flush, Clear,
           Close
<1> QED BY <1>4, <1>6, <1>7 DEF NoJob

-----------------------------------------------------------------------------
(* Before the first merge, kept by every step.                             *)

\* Every step keeps graphs and entries in step until the first merge.
LEMMA UnmergedStep == Shape /\ Unmerged /\ [Next]_vars => Unmerged'
<1> SUFFICES ASSUME Shape, Unmerged, [Next]_vars, merges' = 0
             PROVE  /\ Tmp \notin OpenFiles' /\ job'.phase = "no"
                    /\ \A i \in 1 .. Len(shards') :
                          /\ i - 1 \in sets'
                          /\ ~shards'[i].unsaved => hix'[i - 1] = shards'[i].vec
                          /\ i < Len(shards') => shards'[i].vec # Nothing \/ i - 1 \in Cut'
  BY DEF Unmerged
<1> USE NamesAre
<1> DEFINE Goal == \A i \in 1 .. Len(shards') :
                      /\ shards'[i].file = i - 1 /\ i - 1 \in sets'
                      /\ ~shards'[i].unsaved => hix'[i - 1] = shards'[i].vec
                      /\ i < Len(shards') => shards'[i].vec # Nothing \/ i - 1 \in Cut'
<1>1. merges = 0 /\ job.phase = "no" /\ job'.phase = "no"
  BY PlainSteps
<1>2. \A i \in 1 .. Len(shards) :
         /\ shards[i].file = i - 1 /\ i - 1 \in Base /\ i - 1 \in Names /\ i - 1 \in sets /\ i \in Int
         /\ ~shards[i].unsaved => hix[i - 1] = shards[i].vec
         /\ i < Len(shards) => shards[i].vec # Nothing \/ i - 1 \in Cut
         /\ shards[i] \in ShardType
  BY <1>1, PlainFiles, ShardsAre DEF Unmerged
<1>3. ASSUME Goal
      PROVE  /\ Tmp \notin OpenFiles'
             /\ \A i \in 1 .. Len(shards') :
                          /\ i - 1 \in sets'
                          /\ ~shards'[i].unsaved => hix'[i - 1] = shards'[i].vec
                          /\ i < Len(shards') => shards'[i].vec # Nothing \/ i - 1 \in Cut'
  <2>1. \A i \in 1 .. Len(shards') : shards'[i].file # Tmp
    <3>1. Shape'
      BY ShapeStep
    <3>2. Len(shards') \in Nat
      BY <3>1 DEF Shape, TypeOK
    <3> QED BY <1>3, <3>2 DEF Tmp
  <2> QED BY <1>3, <2>1 DEF OpenFiles
<1>4. CASE Open
  <2>1. /\ Discovered # {} => Discovered = 0 .. Len(shards') - 1
        /\ Len(shards') = (IF Discovered = {} THEN 1 ELSE Cardinality(Discovered))
        /\ \A i \in 1 .. Len(shards') : shards'[i] = OpenShard(i - 1, MaxElements) /\ i - 1 \in Base
    BY <1>4, OpenShape
  <2>2. sets' = sets \cup 0 .. Len(shards') - 1 /\ hix' = hix /\ Cut' = Cut
    BY <1>4, <2>1 DEF Open, cuts, Cut
  <2>3. Len(shards') \in Nat
    BY <1>4, OpenShape DEF Shape, TypeOK
  <2>4. TypeOK
    BY DEF Shape
  <2> SUFFICES ASSUME NEW i \in 1 .. Len(shards')
               PROVE  /\ shards'[i].file = i - 1 /\ i - 1 \in sets'
                      /\ ~shards'[i].unsaved => hix'[i - 1] = shards'[i].vec
                      /\ i < Len(shards') => shards'[i].vec # Nothing \/ i - 1 \in Cut'
    BY <1>1, <1>3
  <2>5. shards'[i].file = i - 1 /\ shards'[i].vec = hix[i - 1]
    <3>1. shards'[i] = OpenShard(i - 1, MaxElements) /\ i - 1 \in Names
      BY <2>1, NamesAre
    <3> QED BY <2>4, <3>1, NamesAre, OpenShardIs
  <2>6. i - 1 \in sets'
    BY <2>2, <2>3
  <2>7. ASSUME i < Len(shards') PROVE hix[i - 1] # Nothing \/ i - 1 \in Cut
    <3>1. Discovered # {}
      BY <2>1, <2>3, <2>7
    <3>2. i - 1 \in Discovered
      BY <2>1, <2>3, <3>1
    <3> QED BY <3>2 DEF Discovered, Whole, Cut
  <2> QED BY <2>2, <2>5, <2>6, <2>7
<1>5. ASSUME Appending, NEW s \in ShardType, s.file = Current.file, Roll(s),
             ~s.unsaved => hix'[s.file] = s.vec,
             \A n \in Names : n # s.file => hix'[n] = hix[n], Cut' = Cut
      PROVE  Goal
  <2>1. /\ Len(shards') \in Nat /\ shards'[Len(shards')] = s /\ s.file \in {Len(shards') - 1, Tmp}
        /\ \A i \in 1 .. Len(shards') :
              i # Len(shards') => i \in 1 .. Len(shards) /\ shards'[i] = shards[i]
        /\ Full => /\ Len(shards') = Len(shards) + 1 /\ sets' = sets \cup {Len(shards)}
                   /\ shards'[Len(shards)] = Last
        /\ ~Full => Len(shards') = Len(shards) /\ sets' = sets
    BY <1>5, RollIs
  <2>2. /\ Len(shards) \in 1 .. Len(shards) /\ Len(shards) \in Nat
        /\ Full => Current.file = Len(shards) /\ Last.vec # Nothing
        /\ ~Full => Current = shards[Len(shards)]
    BY <1>5, CurrentIs, ShardsAre
  <2> HIDE DEF Full, Current, Last
  <2>3. s.file = Len(shards') - 1
    BY <1>2, <1>5, <2>1, <2>2
  <2> SUFFICES ASSUME NEW i \in 1 .. Len(shards')
               PROVE  /\ shards'[i].file = i - 1 /\ i - 1 \in sets'
                      /\ ~shards'[i].unsaved => hix'[i - 1] = shards'[i].vec
                      /\ i < Len(shards') => shards'[i].vec # Nothing \/ i - 1 \in Cut'
    OBVIOUS
  <2>4. CASE i = Len(shards')
    <3>1. i - 1 \in sets'
      BY <1>2, <2>1, <2>2, <2>4
    <3> QED BY <1>5, <2>1, <2>3, <2>4, <3>1
  <2>5. CASE i # Len(shards')
    <3>1. i \in 1 .. Len(shards) /\ shards'[i] = shards[i] /\ i - 1 \in Names /\ shards[i].file = i - 1
      BY <1>2, <2>1, <2>5
    <3>2. i - 1 # s.file /\ hix'[i - 1] = hix[i - 1]
      BY <1>5, <2>1, <2>3, <2>5, <3>1
    <3>3. i - 1 \in sets'
      BY <1>2, <2>1, <3>1
    <3>4. shards'[i].vec # Nothing \/ i - 1 \in Cut'
      <4>1. CASE i < Len(shards)
        BY <1>2, <1>5, <3>1, <4>1
      <4>2. CASE i = Len(shards)
        BY <2>1, <2>2, <2>5, <4>2
      <4> QED BY <2>2, <3>1, <4>1, <4>2
    <3> QED BY <1>2, <3>1, <3>2, <3>3, <3>4
  <2> QED BY <2>4, <2>5
<1>6. CASE AppendChunk
  <2>1. PICK s \in ShardType :
           /\ s.file = Current.file /\ Roll(s)
           /\ \/ s.unsaved /\ hix' = hix
              \/ ~s.unsaved /\ hix' = [hix EXCEPT ![s.file] = s.vec]
    BY <1>6, AppendIs
  <2>2. Appending /\ s.file \in Names /\ hix \in [Names -> Maps] /\ Cut' = Cut
    BY <1>6 DEF AppendChunk, ShardType, Shape, TypeOK, cuts, Cut
  <2>3. /\ ~s.unsaved => hix'[s.file] = s.vec
        /\ \A n \in Names : n # s.file => hix'[n] = hix[n]
    BY <2>1, <2>2
  <2>4. Goal
    BY <1>5, <2>1, <2>2, <2>3
  <2> QED BY <1>1, <1>3, <2>4
<1>7. ASSUME Appending
      PROVE  Current \in ShardType /\ (~Current.unsaved => hix[Current.file] = Current.vec)
  <2>1. CASE Full
    <3>1. Current = OpenShard(Len(shards), MaxElements) /\ Len(shards) \in Base
          /\ Current.file = Len(shards) /\ Current \in ShardType
      BY <1>7, <2>1, CurrentIs
    <3>2. Current.vec = hix[Len(shards)]
      BY <3>1, OpenShardIs DEF Shape
    <3> QED BY <3>1, <3>2
  <2>2. CASE ~Full
    <3>1. Current = shards[Len(shards)] /\ Len(shards) \in 1 .. Len(shards) /\ Current \in ShardType
      BY <1>7, <2>2, CurrentIs, ShardsAre
    <3> QED BY <1>2, <3>1
  <2> QED BY <2>1, <2>2
<1>8. CASE AppendRejected
  <2>1. Appending /\ Label(Current) < MaxLabel /\ Roll(TakeLabel(Current)) /\ hix' = hix /\ Cut' = Cut
    BY <1>8 DEF AppendRejected, cuts, Cut
  <2>2. PICK s \in ShardType :
           s = TakeLabel(Current) /\ s.file = Current.file /\ s.vec = Current.vec /\ s.unsaved = Current.unsaved
    BY <1>7, <2>1, TakeLabelIs
  <2>3. Goal
    BY <1>5, <1>7, <2>1, <2>2
  <2> QED BY <1>1, <1>3, <2>3
<1>9. CASE AppendRefused
  <2>1. Appending /\ Roll(Current) /\ hix' = hix /\ Cut' = Cut
    BY <1>9 DEF AppendRefused, cuts, Cut
  <2>2. Goal
    BY <1>5, <1>7, <2>1
  <2> QED BY <1>1, <1>3, <2>2
<1>10. ASSUME NEW j \in 1 .. Len(shards), NEW l \in Labels, Remove(j, l) PROVE Goal
  <2>0. Cut' = Cut
    BY <1>10 DEF Remove, cuts, Cut
  <2>1. /\ Len(shards') = Len(shards) /\ sets' = sets
        /\ \A i \in 1 .. Len(shards) :
              /\ i # j => shards'[i] = shards[i]
              /\ shards'[i].file = shards[i].file /\ shards'[i].vec = shards[i].vec
        /\ \/ shards'[j].unsaved = shards[j].unsaved /\ hix' = hix
           \/ ~shards'[j].unsaved /\ hix' = Save(shards[j], hix)
    BY <1>10, RemoveIs
  <2>2. hix \in [Names -> Maps] /\ shards[j] \in ShardType /\ shards[j].file = j - 1 /\ j - 1 \in Names
    BY <1>2 DEF Shape, TypeOK
  <2>3. /\ Save(shards[j], hix)[j - 1] = IF shards[j].unsaved THEN shards[j].vec ELSE hix[j - 1]
        /\ \A n \in Names : n # j - 1 => Save(shards[j], hix)[n] = hix[n]
    BY <2>2, SaveIs
  <2>4. ~shards'[j].unsaved => hix'[j - 1] = shards'[j].vec
    <3>1. CASE shards'[j].unsaved = shards[j].unsaved /\ hix' = hix
      BY <1>2, <2>1, <3>1
    <3>2. CASE hix' = Save(shards[j], hix)
      BY <1>2, <2>1, <2>3, <3>2
    <3> QED BY <2>1, <3>1, <3>2
  <2>5. \A n \in Names : n # j - 1 => hix'[n] = hix[n]
    BY <2>1, <2>3
  <2> SUFFICES ASSUME NEW i \in 1 .. Len(shards')
               PROVE  /\ shards'[i].file = i - 1 /\ i - 1 \in sets'
                      /\ ~shards'[i].unsaved => hix'[i - 1] = shards'[i].vec
                      /\ i < Len(shards') => shards'[i].vec # Nothing \/ i - 1 \in Cut'
    OBVIOUS
  <2>6. ASSUME i # j, ~shards'[i].unsaved PROVE hix'[i - 1] = shards'[i].vec
    <3>1. i - 1 \in Names /\ i - 1 # j - 1 /\ shards'[i] = shards[i] /\ hix[i - 1] = shards[i].vec
      BY <1>2, <2>1, <2>6
    <3> QED BY <2>5, <3>1
  <2> QED BY <1>2, <2>0, <2>1, <2>4, <2>6
<1>11. CASE Flush
  <2>1. shards' = [i \in 1 .. Len(shards) |-> Saved(shards[i])] /\ hix' = SaveAll /\ sets' = sets /\ Cut' = Cut
    BY <1>11 DEF Flush, cuts, Cut
  <2>2. Len(shards') = Len(shards) /\ \A i \in 1 .. Len(shards) :
           shards'[i].file = shards[i].file /\ shards'[i].vec = shards[i].vec
    BY <2>1, ShardsAre, SavedIs
  <2>3. \A i \in 1 .. Len(shards) : hix'[i - 1] = shards[i].vec
    BY <1>1, <2>1, SaveAllPlain
  <2>4. Goal
    BY <1>2, <2>1, <2>2, <2>3
  <2> QED BY <1>1, <1>3, <2>4
<1>12. CASE Clear \/ Close \/ Death
  <2>1. Len(shards') = 0
    BY <1>12, DeathIs DEF Clear, Close
  <2>2. Goal
    BY <2>1
  <2> QED BY <1>1, <1>3, <2>2
<1>13. CASE UNCHANGED vars
  <2>1. Goal
    BY <1>2, <1>13 DEF vars, files, cuts, Cut
  <2> QED BY <1>1, <1>3, <2>1
<1>14. ASSUME NEW j \in 1 .. Len(shards), ReadText(j) PROVE Goal
  BY <1>2, <1>14, ReadIs DEF cuts, Cut
<1> QED
  BY <1>14, <1>1, <1>3, <1>4, <1>6, <1>8, <1>9, <1>10, <1>11, <1>12, <1>13, PlainSteps

\* Before the first merge a graph that is saved anew still has what its image and its
\* entries agree on.
Synced ==
    merges = 0 =>
        /\ \A n \in Base, l \in Labels : hix[n][l] <= docs
        /\ \A i \in 1 .. Len(shards) :
              /\ shards[i].unsaved => shards[i].vec # Nothing
              /\ \A l \in Labels :
                    /\ shards[i].vec[l] <= docs
                    /\ hix[i - 1][l] # 0 /\ obn[i - 1][l] = hix[i - 1][l] => shards[i].vec[l] = hix[i - 1][l]

\* Before the first merge what stands in a file is what it was, or a shard of its name.
LEMMA SaveToPlain ==
    ASSUME Shape, Unmerged, merges = 0, NEW k \in 0 .. Len(shards), NEW n \in Base
    PROVE  \/ SaveTo(k)[n] = hix[n]
           \/ n + 1 \in 1 .. Len(shards) /\ shards[n + 1].unsaved /\ SaveTo(k)[n] = shards[n + 1].vec
<1>1. n \in Names /\ n \in Int
  BY NamesAre
<1>2. CASE SaveTo(k)[n] # hix[n]
  <2>1. PICK i \in 1 .. Len(shards) :
           shards[i].file = n /\ shards[i].unsaved /\ SaveTo(k)[n] = shards[i].vec
    BY <1>1, <1>2, SaveToIs
  <2>2. i = n + 1
    BY <1>1, <2>1, PlainFiles
  <2> QED BY <2>1, <2>2
<1> QED BY <1>2

\* A death outside of merges leaves what was saved, and of the others the old image or,
\* of one that was being written, one that is cut off.
LEMMA DeathSaves ==
    ASSUME Shape, Unmerged, merges = 0, Death, NEW n \in Base
    PROVE  /\ blank \subseteq blank' /\ torn \subseteq torn'
           /\ \/ hix'[n] = hix[n]
              \/ n + 1 \in 1 .. Len(shards) /\ shards[n + 1].unsaved /\ hix'[n] = shards[n + 1].vec
              \/ hix'[n] = Nothing /\ n \in Cut'
<1> DEFINE Left(v) == \/ v = hix[n]
                      \/ n + 1 \in 1 .. Len(shards) /\ shards[n + 1].unsaved /\ v = shards[n + 1].vec
           Goal == blank \subseteq blank' /\ torn \subseteq torn'
                   /\ (Left(hix'[n]) \/ (hix'[n] = Nothing /\ n \in Cut'))
<1>1. job.phase = "no" /\ hix \in [Names -> Maps] /\ n \in Names /\ Len(shards) \in Nat
  BY NamesAre, ShardsAre DEF Unmerged, Shape, TypeOK
<1>2. ASSUME NEW h \in [Names -> Maps], Left(h[n]), NEW out, DiesOutside(h, out) PROVE Goal
  <2>1. hix' = h /\ blank' = blank /\ torn' = torn
    BY <1>2 DEF DiesOutside, Dies, cuts
  <2>2. hix'[n] = h[n]
    BY <2>1
  <2>3. Left(hix'[n])
    BY <1>2, <2>2
  <2> HIDE DEF Left
  <2> QED BY <2>1, <2>3
<1>3. ASSUME NEW h \in [Names -> Maps], Left(h[n]), NEW out, NEW s \in ShardType, DiesInSave(s, h, out) PROVE Goal
  <2>1. hix' = [h EXCEPT ![s.file] = Nothing] /\ blank \subseteq blank' /\ torn \subseteq torn' /\ s.file \in Cut'
    BY <1>3 DEF DiesInSave, Dies, Cut
  <2>2. hix'[n] = IF n = s.file THEN Nothing ELSE h[n]
    BY <1>1, <2>1
  <2>3. CASE n = s.file
    BY <2>1, <2>2, <2>3
  <2>4. CASE n # s.file
    <3>1. hix'[n] = h[n]
      BY <2>2, <2>4
    <3>2. Left(hix'[n])
      BY <1>3, <3>1
    <3> HIDE DEF Left
    <3> QED BY <2>1, <3>2
  <2> QED BY <2>3, <2>4
<1>4. Left(hix[n])
  OBVIOUS
<1>5. ASSUME NEW k \in 1 .. Len(shards)
      PROVE  SaveTo(k - 1) \in [Names -> Maps] /\ Left(SaveTo(k - 1)[n]) /\ shards[k] \in ShardType
  <2>1. k - 1 \in 0 .. Len(shards) /\ shards[k] \in ShardType
    BY <1>1, ShardsAre
  <2> QED BY <2>1, SaveToIs, SaveToPlain
<1> HIDE DEF Left, Goal
<1>6. ASSUME Crash \/ SearchFaults PROVE Goal
  BY <1>1, <1>2, <1>4, <1>6 DEF Crash, SearchFaults
<1>7. ASSUME NEW k \in 1 .. Len(shards), CrashInSave(k) PROVE Goal
  <2>1. CASE DiesInSave(shards[k], hix, {})
    BY <1>1, <1>3, <1>4, <1>5, <2>1
  <2>2. ASSUME NEW out, DiesInSave(shards[k], SaveTo(k - 1), out) PROVE Goal
    BY <1>3, <1>5, <2>2
  <2>3. ASSUME NEW out, DiesOutside(SaveTo(k - 1), out) PROVE Goal
    BY <1>2, <1>5, <2>3
  <2> QED BY <1>7, <2>1, <2>2, <2>3 DEF CrashInSave
<1>8. ~(AddOverflows \/ AddFaults \/ CrashInMerge)
  BY <1>1 DEF AddOverflows, AddFaults, CrashInMerge, Reading, Overflows
<1>9. Goal
  BY <1>6, <1>7, <1>8 DEF Death
<1> QED BY <1>9 DEF Goal, Left

\* Every step keeps open graphs in step with their files until the first merge.
LEMMA SyncedStep == Shape /\ Unmerged /\ Synced /\ [Next]_vars => Synced'
<1> SUFFICES ASSUME Shape, Unmerged, Synced, [Next]_vars, merges' = 0 PROVE Synced'
  BY DEF Synced
<1> USE NamesAre
<1>1. merges = 0
  BY PlainSteps
<1>2. /\ \A n \in Base, l \in Labels : hix[n][l] <= docs
      /\ \A i \in 1 .. Len(shards) :
            /\ shards[i].unsaved => shards[i].vec # Nothing
            /\ \A l \in Labels :
                  /\ shards[i].vec[l] <= docs
                  /\ hix[i - 1][l] # 0 /\ obn[i - 1][l] = hix[i - 1][l] => shards[i].vec[l] = hix[i - 1][l]
  BY <1>1 DEF Synced
<1>3. \A i \in 1 .. Len(shards) :
         shards[i].file = i - 1 /\ i - 1 \in Base /\ i - 1 \in Names /\ i \in Int /\ shards[i] \in ShardType
  BY <1>1, PlainFiles, ShardsAre
<1>4. docs \in Nat /\ docs' \in Nat /\ docs' >= docs
  BY DocsGrow
<1>5. hix \in [Names -> [Labels -> 0 .. MaxDocs]] /\ obn \in [Names -> EntryMaps]
  BY DEF Shape, TypeOK, TextsOK, Maps
<1> DEFINE InStep(i) ==
              /\ shards'[i].unsaved => shards'[i].vec # Nothing
              /\ \A l \in Labels :
                    /\ shards'[i].vec[l] <= docs'
                    /\ hix'[i - 1][l] # 0 /\ obn'[i - 1][l] = hix'[i - 1][l] => shards'[i].vec[l] = hix'[i - 1][l]
           Bound == \A n \in Base, l \in Labels : hix'[n][l] <= docs'
<1>6. ASSUME Bound, \A i \in 1 .. Len(shards') : InStep(i) PROVE Synced'
  BY <1>6 DEF Synced
<1>7. ASSUME \A n \in Base : hix'[n] = hix[n] \/ hix'[n] = Nothing
                             \/ \E i \in 1 .. Len(shards) : hix'[n] = shards[i].vec
      PROVE  Bound
  <2> SUFFICES ASSUME NEW n \in Base, NEW l \in Labels PROVE hix'[n][l] <= docs'
    OBVIOUS
  <2>1. CASE hix'[n] = hix[n]
    <3>1. hix[n][l] <= docs /\ hix[n][l] \in Nat
      BY <1>2, <1>5
    <3> QED BY <1>4, <2>1, <3>1
  <2>2. CASE hix'[n] = Nothing
    BY <1>4, <2>2 DEF Nothing
  <2>3. ASSUME NEW i \in 1 .. Len(shards), hix'[n] = shards[i].vec PROVE hix'[n][l] <= docs'
    <3>1. shards[i].vec[l] <= docs /\ shards[i].vec[l] \in Nat
      <4>1. shards[i].vec \in Maps
        BY <1>3 DEF ShardType
      <4> QED BY <1>2, <4>1 DEF Maps
    <3> QED BY <1>4, <2>3, <3>1
  <2> QED BY <1>7, <2>1, <2>2, <2>3
<1>8. ASSUME NEW i \in 1 .. Len(shards), shards'[i].vec = shards[i].vec, i - 1 \in Base,
             shards'[i].unsaved => shards[i].unsaved,
             hix'[i - 1] = hix[i - 1] \/ hix'[i - 1] = shards[i].vec,
             \A l \in Labels : obn'[i - 1][l] = obn[i - 1][l] \/ obn'[i - 1][l] = 0 \/ obn'[i - 1][l] = Refused
      PROVE  InStep(i)
  <2>1. ASSUME NEW l \in Labels
        PROVE  /\ shards'[i].vec[l] <= docs'
               /\ hix'[i - 1][l] # 0 /\ obn'[i - 1][l] = hix'[i - 1][l] => shards'[i].vec[l] = hix'[i - 1][l]
    <3>1. shards[i].vec[l] <= docs /\ shards[i].vec[l] \in Nat
      <4>1. shards[i].vec \in Maps
        BY <1>3 DEF ShardType
      <4>2. shards[i].vec[l] <= docs
        BY <1>2
      <4> QED BY <4>1, <4>2 DEF Maps
    <3>2. hix[i - 1][l] # Refused
      BY <1>5, <1>8, TextsAre DEF Docs, Refused
    <3>3. shards'[i].vec[l] <= docs'
      BY <1>4, <1>8, <3>1
    <3>4. hix[i - 1][l] # 0 /\ obn[i - 1][l] = hix[i - 1][l] => shards[i].vec[l] = hix[i - 1][l]
      BY <1>2
    <3>5. obn'[i - 1][l] = obn[i - 1][l] \/ obn'[i - 1][l] = 0 \/ obn'[i - 1][l] = Refused
      BY <1>8
    <3> QED BY <1>8, <3>2, <3>3, <3>4, <3>5
  <2> QED BY <1>2, <1>8, <2>1
<1>9. CASE Open
  <2>1. /\ \A i \in 1 .. Len(shards') : shards'[i] = OpenShard(i - 1, MaxElements) /\ i - 1 \in Base
        /\ hix' = hix /\ docs' = docs
    BY <1>9, OpenShape DEF Open, history
  <2>2. ASSUME NEW i \in 1 .. Len(shards') PROVE InStep(i)
    <3>1. shards'[i] = OpenShard(i - 1, MaxElements) /\ i - 1 \in Names /\ TypeOK
      BY <2>1 DEF Shape
    <3>2. shards'[i].vec = hix[i - 1] /\ ~shards'[i].unsaved
      BY <3>1, OpenShardIs
    <3> QED BY <1>2, <2>1, <3>2
  <2> HIDE DEF InStep, Bound
  <2> QED BY <1>6, <1>7, <2>1, <2>2
<1>10. ASSUME Appending
       PROVE  /\ Current \in ShardType /\ (Current.unsaved => Current.vec # Nothing)
              /\ \A l \in Labels :
                    /\ Current.vec[l] <= docs
                    /\ hix[Current.file][l] # 0 /\ obn[Current.file][l] = hix[Current.file][l]
                       => Current.vec[l] = hix[Current.file][l]
  <2>1. CASE Full
    <3>1. Current = OpenShard(Len(shards), MaxElements) /\ Len(shards) \in Base
          /\ Current.file = Len(shards) /\ Current \in ShardType
      BY <1>10, <2>1, CurrentIs
    <3>2. Current.vec = hix[Len(shards)] /\ ~Current.unsaved
      BY <3>1, OpenShardIs DEF Shape
    <3> HIDE DEF Current
    <3> QED BY <1>2, <3>1, <3>2
  <2>2. CASE ~Full
    <3>1. Current = shards[Len(shards)] /\ Len(shards) \in 1 .. Len(shards) /\ Current \in ShardType
      BY <1>10, <2>2, CurrentIs, ShardsAre
    <3>2. Current.file = Len(shards) - 1
      BY <1>3, <3>1
    <3> HIDE DEF Current
    <3> QED BY <1>2, <3>1, <3>2
  <2> QED BY <2>1, <2>2
<1>11. ASSUME Appending, NEW s \in ShardType, s.file = Current.file, Roll(s)
       PROVE  /\ Len(shards') \in Nat /\ shards'[Len(shards')] = s /\ s.file = Len(shards') - 1 /\ s.file \in Base
              /\ \A i \in 1 .. Len(shards') : i # Len(shards') =>
                    i \in 1 .. Len(shards) /\ shards'[i] = shards[i] /\ i - 1 \in Names /\ i - 1 # s.file
  <2>1. /\ Len(shards') \in Nat /\ shards'[Len(shards')] = s /\ s.file \in {Len(shards') - 1, Tmp}
        /\ \A i \in 1 .. Len(shards') :
              i # Len(shards') => i \in 1 .. Len(shards) /\ shards'[i] = shards[i]
    BY <1>11, RollIs
  <2>2. s.file # Tmp /\ s.file \in Names
    <3>1. CASE Full
      BY <1>11, <3>1, CurrentIs
    <3>2. CASE ~Full
      <4>1. Current = shards[Len(shards)] /\ Len(shards) \in 1 .. Len(shards)
        BY <1>11, <3>2, CurrentIs, ShardsAre
      <4> QED BY <1>3, <1>11, <4>1
    <3> QED BY <3>1, <3>2
  <2> HIDE DEF Current
  <2>3. s.file = Len(shards') - 1 /\ s.file \in Base
    BY <2>1, <2>2
  <2> QED BY <1>3, <2>1, <2>3
<1>12. CASE AppendChunk
  <2>1. PICK s \in ShardType :
           /\ s.file = Current.file /\ Roll(s)
           /\ s.vec = [Current.vec EXCEPT ![Label(Current)] = docs']
           /\ \/ s.unsaved /\ hix' = hix
              \/ ~s.unsaved /\ hix' = [hix EXCEPT ![s.file] = s.vec]
    BY <1>12, AppendIs
  <2>2. Appending /\ Label(Current) \in Labels /\ docs' = docs + 1 /\ {Label(Current)} \subseteq Labels
        /\ StoreText(Current.file, {Label(Current)}, docs', unwritten) /\ Current.file \in Names /\ docs' \in Texts
    BY <1>12, AppendIs, TextsAre
  <2> DEFINE c == Current
             f == Label(Current)
  <2>3. /\ c \in ShardType /\ f \in Labels
        /\ \A l \in Labels :
                    /\ c.vec[l] <= docs
                    /\ hix[s.file][l] # 0 /\ obn[s.file][l] = hix[s.file][l] => c.vec[l] = hix[s.file][l]
    BY <1>10, <2>1, <2>2
  <2>4. /\ Len(shards') \in Nat /\ shards'[Len(shards')] = s /\ s.file = Len(shards') - 1 /\ s.file \in Base
        /\ \A i \in 1 .. Len(shards') : i # Len(shards') =>
              i \in 1 .. Len(shards) /\ shards'[i] = shards[i] /\ i - 1 \in Names /\ i - 1 # s.file
    BY <1>11, <2>1, <2>2
  <2>5. /\ \A m \in Names : m # s.file => obn'[m] = obn[m]
        /\ \A l \in Labels : obn'[s.file][l] = IF l = f \/ obn[s.file][l] = Beyond THEN docs' ELSE obn[s.file][l]
    <3>1. TextsOK /\ unwritten \in [Names -> SUBSET Labels]
      BY DEF Shape, TypeOK, TextsOK
    <3>2. Stored(Current.file, {Label(Current)}, docs')
      BY <2>2, <3>1, StoreTextIs
    <3> HIDE DEF Current, Label
    <3> QED BY <2>1, <3>2 DEF Stored
  <2>6. /\ \A l \in Labels : s.vec[l] = IF l = f THEN docs' ELSE c.vec[l]
        /\ c.vec \in [Labels -> 0 .. MaxDocs]
    BY <2>1, <2>3 DEF ShardType, Maps
  <2>7. hix'[s.file] = hix[s.file] \/ hix'[s.file] = s.vec
    BY <1>5, <2>1, <2>4
  <2>8. \A m \in Names : m # s.file => hix'[m] = hix[m]
    BY <1>5, <2>1, <2>4
  <2> HIDE DEF c, f, Current, Label
  <2>9. ASSUME NEW l \in Labels
        PROVE  /\ s.vec[l] <= docs'
               /\ hix'[s.file][l] # 0 /\ obn'[s.file][l] = hix'[s.file][l] => s.vec[l] = hix'[s.file][l]
    <3>1. hix[s.file][l] <= docs /\ hix[s.file][l] \in Nat
      BY <1>2, <1>5, <2>4
    <3>2. c.vec[l] <= docs /\ c.vec[l] \in Nat
      BY <2>3, <2>6
    <3>3. s.vec[l] <= docs'
      BY <1>4, <2>2, <2>6, <3>2
    <3>4. hix[s.file][l] # 0 /\ obn'[s.file][l] = hix[s.file][l] => s.vec[l] = hix[s.file][l]
      BY <1>4, <2>2, <2>3, <2>5, <2>6, <3>1
    <3> QED BY <2>7, <3>3, <3>4
  <2>10. s.vec # Nothing
    <3>1. s.vec[f] # 0
      BY <1>4, <2>2, <2>3, <2>6
    <3> QED BY <2>3, <3>1 DEF Nothing
  <2>11. ASSUME NEW i \in 1 .. Len(shards') PROVE InStep(i)
    <3>1. CASE i = Len(shards')
      BY <2>4, <2>9, <2>10, <3>1
    <3>2. CASE i # Len(shards')
      <4>1. i \in 1 .. Len(shards) /\ shards'[i] = shards[i] /\ i - 1 \in Names /\ i - 1 # s.file
        BY <2>4, <3>2
      <4>2. hix'[i - 1] = hix[i - 1] /\ obn'[i - 1] = obn[i - 1] /\ i - 1 \in Base
        BY <1>3, <2>5, <2>8, <4>1
      <4> HIDE DEF InStep
      <4> QED BY <1>8, <4>1, <4>2
    <3> QED BY <3>1, <3>2
  <2>12. Bound
    <3> SUFFICES ASSUME NEW n \in Base, NEW l \in Labels PROVE hix'[n][l] <= docs'
      OBVIOUS
    <3>1. hix[n][l] <= docs /\ hix[n][l] \in Nat
      <4>1. hix[n][l] <= docs
        BY <1>2
      <4> QED BY <1>5, <4>1
    <3>2. hix'[n] = hix[n] \/ (n = s.file /\ hix'[n] = s.vec)
      BY <2>7, <2>8
    <3> QED BY <1>4, <2>9, <3>1, <3>2
  <2> HIDE DEF InStep, Bound
  <2> QED BY <1>6, <2>11, <2>12
<1>13. CASE AppendRejected \/ AppendRefused
  <2>1. Appending /\ hix' = hix
    BY <1>13 DEF AppendRejected, AppendRefused
  <2>2. PICK s \in ShardType :
           s.file = Current.file /\ Roll(s) /\ s.vec = Current.vec /\ s.unsaved = Current.unsaved
    <3>1. CASE AppendRejected
      BY <1>10, <2>1, <3>1, TakeLabelIs DEF AppendRejected
    <3>2. CASE AppendRefused
      BY <1>10, <2>1, <3>2 DEF AppendRefused
    <3> QED BY <1>13, <3>1, <3>2
  <2>3. \A n \in Names, l \in Labels : obn'[n][l] = obn[n][l] \/ obn'[n][l] = Refused
    <3>1. CASE AppendRefused
      BY <3>1 DEF AppendRefused, texts
    <3>2. CASE AppendRejected
      <4>1. StoreText(Current.file, {}, Refused, unwritten) /\ Current.file \in Names /\ {} \subseteq Labels
            /\ TextsOK /\ unwritten \in [Names -> SUBSET Labels] /\ Refused \in Texts
        BY <2>1, <3>2, CurrentIs, TextsAre DEF AppendRejected, Shape, TypeOK, TextsOK
      <4>2. Stored(Current.file, {}, Refused)
        BY <4>1, StoreTextIs
      <4> HIDE DEF Current
      <4> QED BY <4>2 DEF Stored
    <3> QED BY <1>13, <3>1, <3>2
  <2>4. /\ Len(shards') \in Nat /\ shards'[Len(shards')] = s /\ s.file = Len(shards') - 1 /\ s.file \in Base
        /\ \A i \in 1 .. Len(shards') : i # Len(shards') =>
              i \in 1 .. Len(shards) /\ shards'[i] = shards[i] /\ i - 1 \in Names /\ i - 1 # s.file
    BY <1>11, <2>1, <2>2
  <2>5. ASSUME NEW i \in 1 .. Len(shards') PROVE InStep(i)
    <3>1. CASE i = Len(shards')
      <4>1. s.unsaved => s.vec # Nothing
        BY <1>10, <2>1, <2>2
      <4>2. ASSUME NEW l \in Labels
            PROVE  /\ s.vec[l] <= docs'
                   /\ hix[s.file][l] # 0 /\ obn'[s.file][l] = hix[s.file][l] => s.vec[l] = hix[s.file][l]
        <5>1. /\ s.vec[l] <= docs
              /\ hix[s.file][l] # 0 /\ obn[s.file][l] = hix[s.file][l] => s.vec[l] = hix[s.file][l]
          BY <1>10, <2>1, <2>2
        <5>2. s.vec[l] \in Nat /\ hix[s.file][l] # Refused
          BY <1>5, <2>4 DEF ShardType, Maps, Refused
        <5>3. obn'[s.file][l] = obn[s.file][l] \/ obn'[s.file][l] = Refused
          BY <2>3, <2>4
        <5> QED BY <1>4, <5>1, <5>2, <5>3
      <4> QED BY <2>1, <2>4, <3>1, <4>1, <4>2
    <3>2. CASE i # Len(shards')
      <4>1. i \in 1 .. Len(shards) /\ shards'[i] = shards[i] /\ i - 1 \in Names /\ i - 1 \in Base
        BY <1>3, <2>4, <3>2
      <4> HIDE DEF InStep
      <4> QED BY <1>8, <2>1, <2>3, <4>1
    <3> QED BY <3>1, <3>2
  <2> HIDE DEF InStep, Bound
  <2> QED BY <1>6, <1>7, <2>1, <2>5
<1>14. ASSUME NEW j \in 1 .. Len(shards), NEW k \in Labels, Remove(j, k) PROVE Synced'
  <2>1. /\ Len(shards') = Len(shards)
        /\ \A i \in 1 .. Len(shards) :
              /\ i # j => shards'[i] = shards[i]
              /\ shards'[i].vec = shards[i].vec
        /\ \/ shards'[j].unsaved = shards[j].unsaved /\ hix' = hix
           \/ ~shards'[j].unsaved /\ hix' = Save(shards[j], hix)
        /\ obn' = [obn EXCEPT ![shards[j].file][k] = 0]
    BY <1>14, RemoveIs
  <2>2. /\ Save(shards[j], hix)[j - 1] \in {shards[j].vec, hix[j - 1]}
        /\ \A n \in Names : n # j - 1 => Save(shards[j], hix)[n] = hix[n]
    <3>1. hix \in [Names -> Maps] /\ shards[j] \in ShardType /\ shards[j].file = j - 1
      BY <1>3 DEF Shape, TypeOK
    <3> QED BY <3>1, SaveIs
  <2>3. \A n \in Names, l \in Labels : obn'[n][l] = obn[n][l] \/ obn'[n][l] = 0
    BY <1>5, <2>1 DEF EntryMaps
  <2>4. \A n \in Names : hix'[n] = hix[n] \/ (n = j - 1 /\ hix'[n] = shards[j].vec)
    BY <2>1, <2>2
  <2>5. ASSUME NEW i \in 1 .. Len(shards) PROVE InStep(i)
    <3>1. i - 1 \in Base /\ i - 1 \in Names /\ i \in Int /\ j \in Int
      BY <1>3
    <3>2. hix'[i - 1] = hix[i - 1] \/ hix'[i - 1] = shards[i].vec
      BY <2>4, <3>1
    <3>3. shards'[i].vec = shards[i].vec /\ (shards'[i].unsaved => shards[i].unsaved)
      BY <2>1
    <3>4. \A l \in Labels : obn'[i - 1][l] = obn[i - 1][l] \/ obn'[i - 1][l] = 0
      BY <2>3, <3>1
    <3> HIDE DEF InStep
    <3> QED BY <1>8, <3>1, <3>2, <3>3, <3>4
  <2> HIDE DEF InStep, Bound
  <2> QED BY <1>6, <1>7, <2>1, <2>4, <2>5
<1>15. CASE Flush
  <2>1. shards' = [i \in 1 .. Len(shards) |-> Saved(shards[i])] /\ hix' = SaveAll /\ obn' = obn
    BY <1>15 DEF Flush, texts
  <2>2. Len(shards') = Len(shards) /\ Len(shards) \in 0 .. Len(shards)
    BY <2>1, ShardsAre
  <2>3. ASSUME NEW i \in 1 .. Len(shards) PROVE InStep(i)
    <3>1. shards'[i].vec = shards[i].vec /\ ~shards'[i].unsaved /\ i - 1 \in Base
      BY <1>3, <2>1, SavedIs
    <3>2. hix'[i - 1] = shards[i].vec
      BY <1>1, <2>1, SaveAllPlain
    <3> HIDE DEF InStep
    <3> QED BY <1>8, <2>1, <3>1, <3>2
  <2>4. \A n \in Base : hix'[n] = hix[n] \/ \E i \in 1 .. Len(shards) : hix'[n] = shards[i].vec
    BY <1>1, <2>1, <2>2, SaveToPlain DEF SaveAll
  <2> HIDE DEF InStep, Bound
  <2> QED BY <1>6, <1>7, <2>2, <2>3, <2>4
<1>16. CASE Clear \/ Close \/ Death
  <2>1. \A i \in 1 .. Len(shards') : InStep(i)
    <3>1. Len(shards') = 0
      BY <1>16, DeathIs DEF Clear, Close
    <3> QED BY <3>1
  <2>2. \A n \in Base : hix'[n] = hix[n] \/ hix'[n] = Nothing
                        \/ \E i \in 1 .. Len(shards) : hix'[n] = shards[i].vec
    <3>1. CASE Clear
      BY <3>1 DEF Clear
    <3>2. CASE Close
      <4>1. hix' = SaveTo(Len(shards)) /\ Len(shards) \in 0 .. Len(shards)
        BY <3>2, ShardsAre DEF Close, SaveAll
      <4> QED BY <1>1, <4>1, SaveToPlain
    <3>3. CASE Death
      BY <1>1, <3>3, DeathSaves
    <3> QED BY <1>16, <3>1, <3>2, <3>3
  <2> HIDE DEF InStep, Bound
  <2> QED BY <1>6, <1>7, <2>1, <2>2
<1>17. CASE UNCHANGED vars \/ \E i \in 1 .. Len(shards) : ReadText(i)
  <2>1. shards' = shards /\ hix' = hix /\ obn' = obn /\ docs' = docs
    BY <1>17, ReadIs DEF vars, files, texts, history
  <2> HIDE DEF InStep, Bound
  <2>2. \A i \in 1 .. Len(shards) : InStep(i)
    BY <1>3, <1>8, <2>1
  <2> QED BY <1>6, <1>7, <2>1, <2>2
<1> QED
  BY <1>9, <1>12, <1>13, <1>14, <1>15, <1>16, <1>17, PlainSteps

-----------------------------------------------------------------------------
(* What was cleared.                                                       *)

\* Without merge and death: only open shards have entries, each entry has its vector,
\* what a closed index has entries for the next session will find, and what was
\* cleared has no entry.
Cleared ==
    merges = 0 /\ crashes = 0 =>
        /\ isOpen => \A n \in Base, l \in Labels : n >= Len(shards) => obn[n][l] = 0
        /\ isOpen => \A i \in 1 .. Len(shards), l \in Labels : obn[i - 1][l] # 0 => shards[i].vec[l] # 0
        /\ ~isOpen => \A n \in Base, l \in Labels : obn[n][l] # 0 => n \in Discovered /\ hix[n][l] # 0
        /\ \A n \in Base, l \in Labels : obn[n][l] \notin cleared
        /\ Cut = {} /\ \A n \in Base, l \in Labels : obn[n][l] # Beyond

\* Every step keeps what clear took out from coming back.
LEMMA ClearedStep == Shape /\ Fresh /\ Unmerged /\ Cleared /\ [Next]_vars => Cleared'
<1> SUFFICES ASSUME Shape, Fresh, Unmerged, Cleared, [Next]_vars, merges' = 0, crashes' = 0
             PROVE  Cleared'
  BY DEF Cleared
<1> USE NamesAre
<1>1. merges = 0 /\ job.phase = "no"
  BY PlainSteps
<1>2. crashes = 0 /\ ~Death
  <2>1. crashes \in Nat
    BY DEF Shape, TypeOK
  <2>2. Death => crashes' = crashes + 1
    BY DeathIs
  <2>3. ~Death => crashes' = crashes
    BY PlainSteps, ReadIs
       DEF Open, AppendChunk, AppendRejected, AppendRefused, Remove, Flush, Clear, Close, vars, session
  <2> QED BY <2>1, <2>2, <2>3
<1>3. \A i \in 1 .. Len(shards) : shards[i].file = i - 1 /\ i - 1 \in Base /\ i \in Int /\ shards[i] \in ShardType
  BY <1>1, PlainFiles, ShardsAre
<1>4. /\ isOpen => \A n \in Base, l \in Labels : n >= Len(shards) => obn[n][l] = 0
      /\ isOpen => \A i \in 1 .. Len(shards), l \in Labels : obn[i - 1][l] # 0 => shards[i].vec[l] # 0
      /\ ~isOpen => \A n \in Base, l \in Labels : obn[n][l] # 0 => n \in Discovered /\ hix[n][l] # 0
      /\ \A n \in Base, l \in Labels : obn[n][l] \notin cleared
      /\ Cut = {} /\ \A n \in Base, l \in Labels : obn[n][l] # Beyond
  BY <1>1, <1>2 DEF Cleared
<1>5. obn \in [Names -> [Labels -> Texts \cup {0}]] /\ Len(shards) \in Nat /\ cleared \subseteq 1 .. docs /\ docs \in Nat
  <2>1. Len(shards) \in Nat
    BY ShardsAre
  <2>2. obn \in [Names -> [Labels -> Texts \cup {0}]] /\ cleared \subseteq 1 .. docs /\ docs \in 0 .. MaxDocs
    BY DEF Shape, TypeOK, TextsOK, EntryMaps
  <2>3. docs \in Nat
    BY <2>2
  <2> QED BY <2>1, <2>2, <2>3
<1>14. Cut' = {}
  <2>1. blank = {} /\ torn = {}
    BY <1>4 DEF Cut
  <2>2. blank' \subseteq blank /\ torn' = torn
    BY <1>2, PlainSteps, ReadIs
       DEF Open, AppendChunk, AppendRejected, AppendRefused, Remove, Flush, Clear, Close, vars, files, cuts
  <2> QED BY <2>1, <2>2 DEF Cut
<1>6. CASE Open
  <2>1. /\ Discovered # {} => Discovered = 0 .. Len(shards') - 1
        /\ Len(shards') = (IF Discovered = {} THEN 1 ELSE Cardinality(Discovered))
        /\ \A i \in 1 .. Len(shards') : shards'[i] = OpenShard(i - 1, MaxElements) /\ i - 1 \in Base
        /\ isOpen' /\ ~isOpen /\ obn' = obn /\ cleared' = cleared
    BY <1>6, OpenShape DEF Open, history, texts
  <2>2. Len(shards') \in Nat
    BY <1>6, OpenShape DEF Shape, TypeOK
  <2>3. ASSUME NEW n \in Base, NEW l \in Labels, n >= Len(shards'), obn[n][l] # 0 PROVE FALSE
    <3>1. n \in Discovered
      BY <1>4, <2>1, <2>3
    <3>2. n \in 0 .. Len(shards') - 1
      BY <2>1, <3>1
    <3> QED BY <2>2, <2>3, <3>2
  <2>4. ASSUME NEW i \in 1 .. Len(shards'), NEW l \in Labels, obn[i - 1][l] # 0
        PROVE  shards'[i].vec[l] # 0
    <3>1. i - 1 \in Base /\ hix[i - 1][l] # 0
      BY <1>4, <2>1, <2>4
    <3>2. shards'[i].vec = hix[i - 1]
      BY <2>1, OpenShardIs DEF Shape
    <3> QED BY <3>1, <3>2
  <2> QED BY <1>4, <1>14, <2>1, <2>3, <2>4 DEF Cleared
<1>7. CASE AppendChunk
  <2>1. PICK s \in ShardType :
           /\ s.file = Current.file /\ Roll(s)
           /\ s.vec = [Current.vec EXCEPT ![Label(Current)] = docs']
    BY <1>7, AppendIs
  <2>2. /\ Appending /\ isOpen /\ isOpen' /\ cleared' = cleared /\ docs' = docs + 1
        /\ Current \in ShardType /\ Label(Current) \in Labels /\ Current.file \in Names
        /\ StoreText(Current.file, {Label(Current)}, docs', unwritten)
        /\ docs' \in Texts /\ {Label(Current)} \subseteq Labels /\ docs' # Beyond
    BY <1>7, AppendIs, CurrentIs, TextsAre
  <2>3. /\ Len(shards') \in Nat /\ shards'[Len(shards')] = s /\ s.file \in {Len(shards') - 1, Tmp}
        /\ \A i \in 1 .. Len(shards') :
              i # Len(shards') => i \in 1 .. Len(shards) /\ shards'[i] = shards[i]
        /\ Full => Len(shards') = Len(shards) + 1
        /\ ~Full => Len(shards') = Len(shards)
    BY <2>1, <2>2, RollIs, SMTT(30)
  <2>4. /\ Full => Current.file = Len(shards) /\ Len(shards) \in Base
        /\ ~Full => Current = shards[Len(shards)] /\ Len(shards) \in 1 .. Len(shards)
    BY <2>2, CurrentIs, ShardsAre
  <2>5. ASSUME NEW n \in Base, NEW l \in Labels
        PROVE  obn'[n][l] = IF n = Current.file /\ l = Label(Current) THEN docs' ELSE obn[n][l]
    <3>1. TextsOK /\ unwritten \in [Names -> SUBSET Labels]
      BY DEF Shape, TypeOK, TextsOK
    <3>2. Stored(Current.file, {Label(Current)}, docs')
      BY <2>2, <3>1, StoreTextIs
    <3>3. obn[n][l] # Beyond
      BY <1>4
    <3> HIDE DEF Current, Label
    <3> QED BY <3>2, <3>3 DEF Stored
  <2> DEFINE c == Current
             f == Label(Current)
  <2>6. c.vec \in [Labels -> 0 .. MaxDocs] /\ f \in Labels
    BY <2>2 DEF ShardType, Maps
  <2> HIDE DEF Full, Current, Label, c, f
  <2>7. s.file = Len(shards') - 1 /\ Len(shards') >= Len(shards)
    BY <1>3, <1>5, <2>1, <2>3, <2>4
  <2>8. \A l \in Labels : s.vec[l] = IF l = f THEN docs' ELSE c.vec[l]
    BY <2>1, <2>6 DEF c, f
  <2>12. Current.file \in Base
    <3>1. CASE Full
      BY <2>4, <3>1
    <3>2. CASE ~Full
      BY <1>3, <2>4, <3>2
    <3> QED BY <3>1, <3>2
  <2>9. ASSUME NEW n \in Base, NEW l \in Labels, n >= Len(shards') PROVE obn'[n][l] = 0
    <3>1. n # Current.file /\ n >= Len(shards)
      BY <1>5, <2>1, <2>3, <2>7, <2>9
    <3> QED BY <1>4, <2>2, <2>5, <3>1
  <2>10. ASSUME NEW i \in 1 .. Len(shards'), NEW l \in Labels, obn'[i - 1][l] # 0 PROVE shards'[i].vec[l] # 0
    <3>1. CASE i = Len(shards')
      <4>1. i - 1 = Current.file
        BY <2>1, <2>7, <3>1
      <4>2. CASE l = f
        <5>1. docs' # 0
          BY <1>5, <2>2
        <5> QED BY <2>3, <2>8, <3>1, <4>2, <5>1
      <4>3. CASE l # f
        <5>1. obn[i - 1][l] # 0
          BY <2>2, <2>5, <2>10, <2>12, <4>1, <4>3 DEF f
        <5>2. CASE Full
          <6>1. i - 1 \in Base /\ i - 1 >= Len(shards)
            BY <1>5, <2>4, <4>1, <5>2
          <6> QED BY <1>4, <2>2, <5>1, <6>1
        <5>3. CASE ~Full
          <6>1. i \in 1 .. Len(shards) /\ c = shards[i]
            BY <2>3, <2>4, <3>1, <5>3 DEF c
          <6>2. c.vec[l] # 0
            BY <1>4, <2>2, <5>1, <6>1
          <6> QED BY <2>3, <2>8, <3>1, <4>3, <6>2
        <5> QED BY <5>2, <5>3
      <4> QED BY <4>2, <4>3
    <3>2. CASE i # Len(shards')
      <4>1. i \in 1 .. Len(shards) /\ shards'[i] = shards[i] /\ i - 1 \in Base
        BY <1>3, <2>3, <3>2
      <4>2. i - 1 # Current.file
        BY <2>1, <2>3, <2>7, <3>2
      <4>3. obn'[i - 1][l] = obn[i - 1][l]
        BY <2>5, <4>1, <4>2
      <4> QED BY <1>4, <2>2, <2>10, <4>1, <4>3
    <3> QED BY <3>1, <3>2
  <2>11. ASSUME NEW n \in Base, NEW l \in Labels PROVE obn'[n][l] \notin cleared' /\ obn'[n][l] # Beyond
    <3>1. docs' \notin cleared
      BY <1>5, <2>2
    <3>2. obn[n][l] \notin cleared /\ obn[n][l] # Beyond
      BY <1>4
    <3>3. obn'[n][l] = docs' \/ obn'[n][l] = obn[n][l]
      BY <2>5
    <3> QED BY <2>2, <3>1, <3>2, <3>3
  <2> QED BY <1>14, <2>2, <2>9, <2>10, <2>11 DEF Cleared
<1>8. CASE AppendRejected \/ AppendRefused
  <2>1. Appending /\ isOpen /\ isOpen' /\ cleared' = cleared /\ Current \in ShardType /\ Current.file \in Names
    BY <1>8, CurrentIs DEF AppendRejected, AppendRefused, history
  <2>8. ASSUME NEW n \in Base, NEW l \in Labels PROVE obn'[n][l] = obn[n][l]
    <3>1. CASE AppendRefused
      BY <3>1 DEF AppendRefused, texts
    <3>2. CASE AppendRejected
      <4>1. StoreText(Current.file, {}, Refused, unwritten) /\ {} \subseteq Labels
            /\ TextsOK /\ unwritten \in [Names -> SUBSET Labels] /\ Refused \in Texts
        BY <3>2, TextsAre DEF AppendRejected, Shape, TypeOK, TextsOK
      <4>2. Stored(Current.file, {}, Refused)
        BY <2>1, <4>1, StoreTextIs
      <4>3. obn[n][l] # Beyond
        BY <1>4
      <4> HIDE DEF Current
      <4> QED BY <4>2, <4>3 DEF Stored
    <3> QED BY <1>8, <3>1, <3>2
  <2>2. PICK s \in ShardType : s.file = Current.file /\ Roll(s) /\ s.vec = Current.vec
    <3>1. CASE AppendRejected
      BY <2>1, <3>1, TakeLabelIs DEF AppendRejected
    <3>2. CASE AppendRefused
      BY <2>1, <3>2 DEF AppendRefused
    <3> QED BY <1>8, <3>1, <3>2
  <2>3. /\ Len(shards') \in Nat /\ shards'[Len(shards')] = s
        /\ \A i \in 1 .. Len(shards') :
              i # Len(shards') => i \in 1 .. Len(shards) /\ shards'[i] = shards[i]
        /\ Full => Len(shards') = Len(shards) + 1
        /\ ~Full => Len(shards') = Len(shards)
    BY <2>1, <2>2, RollIs, SMTT(30)
  <2>4. /\ Full => Len(shards) \in Base
        /\ ~Full => Current = shards[Len(shards)] /\ Len(shards) \in 1 .. Len(shards)
    BY <2>1, CurrentIs, ShardsAre
  <2> HIDE DEF Full, Current
  <2>5. Len(shards') >= Len(shards)
    BY <1>5, <2>3
  <2>6. ASSUME NEW n \in Base, NEW l \in Labels, n >= Len(shards') PROVE obn[n][l] = 0
    <3>1. n >= Len(shards)
      <4>1. Len(shards') \in Nat /\ n \in Nat
        BY <2>3
      <4> QED BY <1>5, <2>5, <2>6, <4>1
    <3> QED BY <1>4, <2>1, <3>1
  <2>7. ASSUME NEW i \in 1 .. Len(shards'), NEW l \in Labels, obn[i - 1][l] # 0 PROVE shards'[i].vec[l] # 0
    <3>1. CASE i # Len(shards')
      BY <1>4, <2>1, <2>3, <2>7, <3>1
    <3>2. CASE i = Len(shards') /\ Full
      <4>1. i - 1 \in Base /\ i - 1 >= Len(shards)
        BY <1>5, <2>3, <2>4, <3>2
      <4> QED BY <1>4, <2>1, <2>7, <4>1
    <3>3. CASE i = Len(shards') /\ ~Full
      <4>1. i \in 1 .. Len(shards) /\ shards'[i].vec = shards[i].vec
        BY <2>2, <2>3, <2>4, <3>3
      <4>2. shards[i].vec[l] # 0
        BY <1>4, <2>1, <2>7, <4>1
      <4> QED BY <4>1, <4>2
    <3> QED BY <3>1, <3>2, <3>3
  <2>9. \A n \in Base, l \in Labels : n >= Len(shards') => obn'[n][l] = 0
    BY <2>6, <2>8
  <2>10. \A i \in 1 .. Len(shards'), l \in Labels : obn'[i - 1][l] # 0 => shards'[i].vec[l] # 0
    <3> SUFFICES ASSUME NEW i \in 1 .. Len(shards'), NEW l \in Labels, obn'[i - 1][l] # 0
                 PROVE  shards'[i].vec[l] # 0
      OBVIOUS
    <3>1. i - 1 \in Base
      <4>1. CASE i # Len(shards')
        BY <1>3, <2>3, <4>1
      <4>2. CASE i = Len(shards') /\ Full
        BY <1>5, <2>3, <2>4, <4>2
      <4>3. CASE i = Len(shards') /\ ~Full
        BY <1>3, <2>3, <2>4, <4>3
      <4> QED BY <4>1, <4>2, <4>3
    <3> QED BY <2>7, <2>8, <3>1
  <2>11. \A n \in Base, l \in Labels : obn'[n][l] \notin cleared' /\ obn'[n][l] # Beyond
    BY <1>4, <2>1, <2>8
  <2> QED BY <1>14, <2>1, <2>9, <2>10, <2>11 DEF Cleared
<1>9. ASSUME NEW j \in 1 .. Len(shards), NEW k \in Labels, Remove(j, k) PROVE Cleared'
  <2>0. isOpen /\ isOpen'
    BY <1>9 DEF Remove, Idle
  <2>1. /\ Len(shards') = Len(shards) /\ cleared' = cleared
        /\ \A i \in 1 .. Len(shards) : shards'[i].vec = shards[i].vec
        /\ obn' = [obn EXCEPT ![shards[j].file][k] = 0]
    BY <1>9, RemoveIs
  <2>2. \A n \in Base, l \in Labels : obn'[n][l] = 0 \/ obn'[n][l] = obn[n][l]
    BY <1>5, <2>1
  <2>3. \A n \in Base, l \in Labels : obn'[n][l] \notin cleared /\ obn'[n][l] # Beyond
    <3>1. 0 \notin cleared /\ 0 # Beyond
      BY <1>5, TextsAre
    <3>2. ASSUME NEW n \in Base, NEW l \in Labels PROVE obn'[n][l] \notin cleared /\ obn'[n][l] # Beyond
      <4>1. obn[n][l] \notin cleared /\ obn[n][l] # Beyond
        BY <1>4
      <4>2. obn'[n][l] = 0 \/ obn'[n][l] = obn[n][l]
        BY <2>2
      <4> QED BY <3>1, <4>1, <4>2
    <3> QED BY <3>2
  <2>4. \A n \in Base, l \in Labels : n >= Len(shards) => obn'[n][l] = 0
    BY <1>4, <2>0, <2>2
  <2>5. \A i \in 1 .. Len(shards), l \in Labels : obn'[i - 1][l] # 0 => shards'[i].vec[l] # 0
    <3> SUFFICES ASSUME NEW i \in 1 .. Len(shards), NEW l \in Labels, obn'[i - 1][l] # 0
                 PROVE  shards'[i].vec[l] # 0
      OBVIOUS
    <3>1. i - 1 \in Base
      BY <1>3
    <3>2. obn[i - 1][l] # 0
      BY <2>2, <3>1
    <3>3. shards[i].vec[l] # 0
      BY <1>4, <2>0, <3>2
    <3> QED BY <2>1, <3>3
  <2> QED BY <1>14, <2>0, <2>1, <2>3, <2>4, <2>5 DEF Cleared
<1>10. CASE Flush
  <2>1. shards' = [i \in 1 .. Len(shards) |-> Saved(shards[i])] /\ isOpen /\ isOpen' /\ cleared' = cleared
        /\ obn' = obn
    BY <1>10 DEF Flush, Idle, history, texts
  <2>2. Len(shards') = Len(shards) /\ \A i \in 1 .. Len(shards) : shards'[i].vec = shards[i].vec
    BY <2>1, ShardsAre, SavedIs
  <2> QED BY <1>4, <1>14, <2>1, <2>2 DEF Cleared
<1>11. CASE Clear
  <2>1. /\ Len(shards') = 0 /\ isOpen /\ isOpen' /\ cleared' = 1 .. docs
        /\ obn' = [n \in Names |-> IF n \in OpenFiles THEN Nothing ELSE obn[n]]
    BY <1>11 DEF Clear, Idle
  <2>2. ASSUME NEW n \in Base, NEW l \in Labels PROVE obn'[n][l] = 0
    <3>1. CASE n \in OpenFiles
      BY <2>1, <3>1 DEF Nothing
    <3>2. CASE n \notin OpenFiles
      <4>1. n >= Len(shards)
        <5> SUFFICES ASSUME n < Len(shards) PROVE FALSE
          BY <1>5
        <5>1. n + 1 \in 1 .. Len(shards)
          BY <1>5
        <5>2. shards[n + 1].file = n
          BY <1>3, <5>1
        <5> QED BY <3>2, <5>1, <5>2 DEF OpenFiles
      <4>2. obn'[n] = obn[n]
        BY <2>1, <3>2
      <4> QED BY <1>4, <2>1, <4>1, <4>2
    <3> QED BY <3>1, <3>2
  <2>3. \A n \in Base, l \in Labels : obn'[n][l] \notin cleared' /\ obn'[n][l] # Beyond
    <3>1. 0 \notin cleared' /\ 0 # Beyond
      BY <1>5, <2>1, TextsAre
    <3> QED BY <2>2, <3>1
  <2>4. \A i \in 1 .. Len(shards') : FALSE
    BY <2>1
  <2> QED BY <1>14, <2>1, <2>2, <2>3, <2>4 DEF Cleared
<1>12. CASE Close
  <2>1. hix' = SaveAll /\ isOpen /\ ~isOpen' /\ obn' = obn /\ sets' = sets /\ cleared' = cleared
    BY <1>12 DEF Close, Idle, history
  <2>2. \A i \in 1 .. Len(shards) : hix'[i - 1] = shards[i].vec /\ i - 1 \in sets'
        /\ (i < Len(shards) => shards[i].vec # Nothing)
    BY <1>1, <1>4, <2>1, SaveAllPlain DEF Unmerged
  <2>3. ASSUME NEW n \in Base, NEW l \in Labels, obn[n][l] # 0
        PROVE  n \in Discovered' /\ hix'[n][l] # 0
    <3>1. n < Len(shards)
      BY <1>4, <1>5, <2>1, <2>3
    <3>2. n + 1 \in 1 .. Len(shards) /\ (n + 1) - 1 = n
      BY <1>5, <3>1
    <3>3. hix'[n][l] # 0
      BY <1>4, <2>1, <2>2, <2>3, <3>2
    <3>4. ASSUME NEW k \in 0 .. n PROVE hix'[k] # Nothing /\ k \in sets'
      <4>1. k + 1 \in 1 .. Len(shards) /\ (k + 1) - 1 = k
        BY <1>5, <3>1
      <4>2. k = n => hix'[k] # Nothing
        BY <3>3 DEF Nothing
      <4>3. k # n => k + 1 < Len(shards)
        BY <1>5, <3>1
      <4> QED BY <2>2, <4>1, <4>2, <4>3
    <3>5. n \in Discovered'
      BY <3>4 DEF Discovered, Whole, Base
    <3> QED BY <3>3, <3>5
  <2> QED BY <1>4, <1>14, <2>1, <2>3 DEF Cleared
<1>13. CASE UNCHANGED vars
  <2>1. isOpen' = isOpen /\ shards' = shards /\ obn' = obn /\ hix' = hix /\ sets' = sets /\ cleared' = cleared
        /\ blank' = blank /\ torn' = torn
    BY <1>13 DEF vars, files, history, texts, cuts
  <2>2. Discovered' = Discovered
    BY <2>1 DEF Discovered, Whole
  <2> QED BY <1>4, <1>14, <2>1, <2>2 DEF Cleared
<1>15. ASSUME NEW j \in 1 .. Len(shards), ReadText(j) PROVE Cleared'
  <2>1. isOpen' = isOpen /\ shards' = shards /\ obn' = obn /\ hix' = hix /\ sets' = sets /\ cleared' = cleared
        /\ blank' = blank /\ torn' = torn
    BY <1>15, ReadIs DEF history, cuts
  <2>2. Discovered' = Discovered
    BY <2>1 DEF Discovered, Whole
  <2> QED BY <1>4, <1>14, <2>1, <2>2 DEF Cleared
<1> QED
  BY <1>15, <1>2, <1>6, <1>7, <1>8, <1>9, <1>10, <1>11, <1>12, <1>13, PlainSteps

\* What is found in an open index is a doc with a vector and an entry under one label of
\* one shard.
LEMMA FoundOpen ==
    ASSUME Shape, isOpen, NEW d \in Found
    PROVE  /\ d \in Docs /\ d # 0 /\ d # Beyond
           /\ \E i \in 1 .. Len(shards), k \in Labels :
                 d # 0 /\ shards[i].vec[k] = d /\ obn[shards[i].file][k] = d
<1>1. PICK i \in 1 .. Len(shards), k \in Labels :
         d # 0 /\ shards[i].vec[k] = d /\ obn[shards[i].file][k] = d
  BY DEF Found, FoundIn, Entry
<1>2. shards[i].vec \in [Labels -> 0 .. MaxDocs]
  BY ShardsAre DEF ShardType, Maps
<1>3. d \in Docs
  BY <1>1, <1>2 DEF Docs
<1> QED BY <1>1, <1>3, TextsAre

\* For any bounds: what clear took out is not found again, in this session or a later one,
\* until there is a merge or a death; what remove took out of an unmerged shard is not,
\* until a merge finds the files of an earlier one, unless an older entry shows it too.
THEOREM GoneStaysGoneHolds == Spec => []GoneStaysGone
<1>1. Init => RemovedGone /\ Unmerged /\ Cleared
  <2> SUFFICES ASSUME Init PROVE RemovedGone /\ Unmerged /\ Cleared
    OBVIOUS
  <2>1. \A n \in Names, l \in Labels : obn[n][l] = 0
    BY DEF Init, Nothing
  <2>2. Len(shards) = 0 /\ removed = {} /\ cleared = {} /\ job.phase = "no" /\ ~isOpen
    BY DEF Init, NoJob
  <2>3. RemovedGone
    BY <2>2 DEF RemovedGone
  <2>4. Unmerged
    <3>1. \A i \in 1 .. Len(shards) : FALSE
      BY <2>2
    <3> QED BY <2>2, <3>1 DEF Unmerged, OpenFiles
  <2>5. Cleared
    <3>1. 0 # Beyond /\ Cut = {}
      BY TextsAre DEF Init, Cut
    <3> QED BY <2>1, <2>2, <3>1, NamesAre DEF Cleared
  <2> QED BY <2>3, <2>4, <2>5
<1>2. Placed /\ RemovedGone /\ Unmerged /\ Cleared => GoneStaysGone
  <2> SUFFICES ASSUME Placed, RemovedGone, Unmerged, Cleared PROVE GoneStaysGone
    OBVIOUS
  <2>0. Shape
    BY DEF Placed
  <2>1. ASSUME NEW d \in Found
        PROVE  /\ d \in Docs
               /\ \/ \E n \in Base, l \in Labels : d = obn[n][l]
                  \/ Tmp \in OpenFiles /\ \E l \in Labels : d = obn[Tmp][l]
    <3>1. CASE isOpen
      <4>1. PICK i \in 1 .. Len(shards), l \in Labels :
               d # 0 /\ shards[i].vec[l] = d /\ obn[shards[i].file][l] = d
        BY <2>0, <2>1, <3>1, FoundOpen
      <4>2. shards[i].file \in {i - 1, Tmp} /\ i - 1 \in Base
        BY <2>0, ShardsAre
      <4>3. d \in Docs
        BY <2>0, <2>1, <3>1, FoundOpen
      <4> QED BY <4>1, <4>2, <4>3 DEF OpenFiles
    <3>2. CASE ~isOpen
      <4>1. PICK n \in Discovered, l \in Labels : d = obn[n][l] /\ d = hix[n][l] /\ d # 0
        BY <2>1, <3>2 DEF Found, OnDisk
      <4>2. n \in Base /\ n \in Names
        BY NamesAre DEF Discovered, Base
      <4>3. d \in Docs
        <5>1. hix \in [Names -> [Labels -> 0 .. MaxDocs]]
          BY <2>0 DEF Shape, TypeOK, Maps
        <5> QED BY <4>1, <4>2, <5>1 DEF Docs
      <4> QED BY <4>1, <4>2, <4>3
    <3> QED BY <3>1, <3>2
  <2>2. merges = 0 /\ crashes = 0 => Found \cap cleared = {}
    BY <2>1 DEF Unmerged, Cleared
  <2>3. ASSUME ~reused, NEW d \in Found, NEW n \in Names, <<d, n>> \in removed, n # Tmp, d \notin shared PROVE FALSE
    <3>1. ASSUME NEW m \in Base, NEW l \in Labels, d = obn[m][l] PROVE FALSE
      <4>1. Own(m, l) = d
        BY <2>1, <2>3, <3>1 DEF Own
      <4>2. \A r \in removed, k \in Base, h \in Labels : r[2] # Tmp => Own(k, h) # r[1]
        BY DEF RemovedGone
      <4> QED BY <2>3, <4>1, <4>2
    <3>2. ASSUME Tmp \in OpenFiles, NEW l \in Labels, d = obn[Tmp][l] PROVE FALSE
      <4>1. Own(Tmp, l) = d
        BY <2>1, <2>3, <3>2 DEF Own
      <4>2. \A r \in removed, h \in Labels : r[2] # Tmp => Own(Tmp, h) # r[1]
        BY <2>3, <3>2 DEF RemovedGone
      <4> QED BY <2>3, <4>1, <4>2
    <3> QED BY <2>1, <3>1, <3>2
  <2> QED BY <2>2, <2>3 DEF GoneStaysGone
<1>3. Placed /\ RemovedGone /\ Unmerged /\ Cleared /\ [Next]_vars
        => (Placed /\ RemovedGone /\ Unmerged /\ Cleared)'
  BY PlacedStep, RemovedGoneStep, UnmergedStep, ClearedStep DEF Placed
<1> QED
  BY <1>1, <1>2, <1>3, PlacedInit, PTL DEF Spec

-----------------------------------------------------------------------------
(* What is found, and then not.                                            *)

\* What has a vector and an entry under one label after a step is found after it.
LEMMA FoundNext ==
    ASSUME isOpen', NEW d, d # 0, NEW i \in 1 .. Len(shards'), NEW k \in Labels,
           shards'[i].vec[k] = d, obn'[shards'[i].file][k] = d
    PROVE  d \in Found'
<1>1. d \in FoundIn(shards[i])'
  BY DEF FoundIn, Entry
<1> QED BY <1>1 DEF Found

\* What LossHasCause allows.
Cause(d) ==
    \/ shards # <<>> /\ shards' = <<>> /\ isOpen'
    \/ Idle /\ docs' > docs /\ Current.vec[Label(Current)] = d
    \/ \E n \in Names : <<d, n>> \in removed'
    \/ isOpen /\ ~isOpen' /\ Discovered' \cap torn' # {}
    \/ crashes' > crashes /\ \/ merges > 0 \/ ~Kept(d)
                             \/ \E n \in Names : d \in OnDisk(n) /\ hix'[n] = Nothing
    \/ isOpen /\ ~isOpen' /\ merges > 0
    \/ d \in mislaid
    \/ reused

\* What the files would show is found when they are opened.
LEMMA OpenKeeps ==
    ASSUME Shape, Open, NEW d \in Found
    PROVE  d \in Found'
<1>1. /\ Discovered # {} => Discovered = 0 .. Len(shards') - 1
      /\ \A i \in 1 .. Len(shards') : shards'[i] = OpenShard(i - 1, MaxElements) /\ i - 1 \in Base
      /\ isOpen' /\ Len(shards') \in Nat
  BY OpenShape DEF Shape, TypeOK
<1>2. ~isOpen /\ obn' = obn
  BY DEF Open, texts
<1>3. PICK n \in Discovered, k \in Labels : hix[n][k] # 0 /\ obn[n][k] = hix[n][k] /\ d = hix[n][k]
  BY <1>2 DEF Found, OnDisk
<1>4. n + 1 \in 1 .. Len(shards') /\ (n + 1) - 1 = n
  BY <1>1
<1>5. shards'[n + 1] = OpenShard(n, MaxElements) /\ n \in Names
  BY <1>1, <1>4, NamesAre
<1>6. shards'[n + 1].vec = hix[n] /\ shards'[n + 1].file = n
  BY <1>5, OpenShardIs, NamesAre DEF Shape
<1> QED BY <1>1, <1>2, <1>3, <1>4, <1>6, FoundNext

\* append loses nothing but what stood under the label it takes.
LEMMA AppendKeeps ==
    ASSUME Shape, OneTmp, ~reused, AppendChunk \/ AppendRejected \/ AppendRefused, NEW d \in Found,
           ~(Idle /\ docs' > docs /\ Current.vec[Label(Current)] = d)
    PROVE  d \in Found'
<1>1. Appending /\ isOpen /\ isOpen'
  BY CurrentIs DEF AppendChunk, AppendRejected, AppendRefused
<1>0. d \in Docs /\ d # Beyond /\ TextsOK /\ unwritten \in [Names -> SUBSET Labels]
  BY <1>1, FoundOpen DEF Shape, TypeOK, TextsOK
<1>2. PICK i \in 1 .. Len(shards), k \in Labels :
         d # 0 /\ shards[i].vec[k] = d /\ obn[shards[i].file][k] = d
  BY <1>1, FoundOpen
<1>3. /\ Full => Current.file = Len(shards)
      /\ ~Full => Current = shards[Len(shards)]
      /\ Len(shards) \in 1 .. Len(shards) /\ Current \in ShardType
  BY <1>1, CurrentIs, ShardsAre
<1>4. shards[i].file \in {i - 1, Tmp} /\ shards[i].file \in Names /\ i \in Int
      /\ shards[Len(shards)].file \in {Len(shards) - 1, Tmp}
  <2>1. \A j \in 1 .. Len(shards) : shards[j] \in ShardType /\ shards[j].file \in {j - 1, Tmp}
    BY ShardsAre
  <2>2. shards[i].file \in Names
    BY <2>1 DEF ShardType
  <2>3. i \in Int
    BY ShardsAre
  <2> QED BY <1>3, <2>1, <2>2, <2>3
<1>5. ASSUME NEW s \in ShardType, s.file = Current.file, Roll(s), s.vec[k] = d \/ Full \/ i # Len(shards),
             obn'[shards[i].file][k] = d
      PROVE  d \in Found'
  <2>1. /\ shards'[Len(shards')] = s /\ Len(shards') \in 1 .. Len(shards')
        /\ \A j \in 1 .. Len(shards') :
              j # Len(shards') => j \in 1 .. Len(shards) /\ shards'[j] = shards[j]
        /\ Full => Len(shards') = Len(shards) + 1
        /\ ~Full => Len(shards') = Len(shards)
    BY <1>1, <1>5, RollIs
  <2> HIDE DEF Full, Current
  <2>2. CASE Full \/ i # Len(shards)
    <3>1. i \in 1 .. Len(shards') /\ i # Len(shards')
      BY <1>3, <2>1, <2>2
    <3>2. shards'[i] = shards[i]
      BY <2>1, <3>1
    <3> QED BY <1>1, <1>2, <1>5, <3>1, <3>2, FoundNext
  <2>3. CASE ~Full /\ i = Len(shards)
    <3>1. i \in 1 .. Len(shards') /\ shards'[i] = s /\ s.file = shards[i].file
      BY <1>3, <1>5, <2>1, <2>3
    <3> QED BY <1>1, <1>2, <1>5, <2>3, <3>1, FoundNext
  <2> QED BY <2>2, <2>3
<1>6. CASE AppendChunk
  <2>1. PICK s \in ShardType :
           /\ s.file = Current.file /\ Roll(s)
           /\ s.vec = [Current.vec EXCEPT ![Label(Current)] = docs']
    BY <1>6, AppendIs
  <2>2. /\ Label(Current) \in Labels /\ docs' > docs /\ Idle
        /\ Stored(Current.file, {Label(Current)}, docs')
    <3>1. Label(Current) \in Labels /\ docs' = docs + 1 /\ docs' \in Texts /\ Current.file \in Names
          /\ StoreText(Current.file, {Label(Current)}, docs', unwritten) /\ {Label(Current)} \subseteq Labels
      BY <1>6, AppendIs, TextsAre
    <3>2. docs \in Nat
      BY DEF Shape, TypeOK
    <3>3. Idle
      BY <1>1 DEF Appending
    <3>4. docs' > docs
      BY <3>1, <3>2
    <3>5. Stored(Current.file, {Label(Current)}, docs')
      BY <1>0, <3>1, StoreTextIs
    <3> QED BY <3>1, <3>3, <3>4, <3>5
  <2> DEFINE c == Current
             f == Label(Current)
  <2>3. c.vec \in [Labels -> 0 .. MaxDocs] /\ f \in Labels
    BY <1>3, <2>2 DEF ShardType, Maps
  <2>4. c.vec[f] # d
    BY <2>2
  <2> HIDE DEF c, f
  <2>5. s.vec[k] = (IF k = f THEN docs' ELSE c.vec[k])
    BY <2>1, <2>3 DEF c, f
  <2>6. obn'[shards[i].file][k] = IF shards[i].file = c.file /\ k = f THEN docs' ELSE obn[shards[i].file][k]
    <3>1. Stored(c.file, {f}, docs')
      BY <2>2 DEF c, f
    <3>2. obn[shards[i].file][k] # Beyond
      BY <1>0, <1>2
    <3> QED BY <1>4, <3>1, <3>2 DEF Stored
  <2> HIDE DEF Full, Current, Label
  <2>7. ASSUME ~Full, i = Len(shards) PROVE c = shards[i] /\ k # f
    BY <1>2, <1>3, <2>4, <2>7 DEF c
  <2>8. ASSUME Full \/ i # Len(shards) PROVE shards[i].file # c.file
    <3>1. CASE Full
      BY <1>3, <1>4, <3>1, NamesAre DEF c, Tmp
    <3>2. CASE ~Full /\ i # Len(shards)
      <4>1. c = shards[Len(shards)]
        BY <1>3, <3>2 DEF c
      <4>2. CASE shards[i].file = Tmp \/ c.file = Tmp
        <5>1. ~(shards[i].file = Tmp /\ shards[Len(shards)].file = Tmp)
          BY <1>3, <3>2 DEF OneTmp
        <5> QED BY <4>1, <4>2, <5>1
      <4>3. CASE shards[i].file # Tmp /\ c.file # Tmp
        BY <1>4, <3>2, <4>1, <4>3
      <4> QED BY <4>2, <4>3
    <3> QED BY <2>8, <3>1, <3>2
  <2>9. obn'[shards[i].file][k] = d /\ (s.vec[k] = d \/ Full \/ i # Len(shards))
    BY <1>2, <2>5, <2>6, <2>7, <2>8
  <2> QED BY <1>5, <2>1, <2>9
<1>7. CASE AppendRejected
  <2>1. Label(Current) < MaxLabel /\ Roll(TakeLabel(Current)) /\ obn'[shards[i].file][k] = d
    <3>1. StoreText(Current.file, {}, Refused, unwritten) /\ {} \subseteq Labels /\ Refused \in Texts
          /\ Current.file \in Names /\ Label(Current) < MaxLabel /\ Roll(TakeLabel(Current))
      BY <1>1, <1>7, CurrentIs, TextsAre DEF AppendRejected
    <3>2. Stored(Current.file, {}, Refused)
      BY <1>0, <3>1, StoreTextIs
    <3> HIDE DEF Current, Label
    <3> QED BY <1>0, <1>2, <1>4, <3>1, <3>2 DEF Stored
  <2>2. PICK s \in ShardType : s = TakeLabel(Current) /\ s.file = Current.file /\ s.vec = Current.vec
    BY <1>3, <2>1, TakeLabelIs
  <2>3. s.vec[k] = d \/ Full \/ i # Len(shards)
    BY <1>2, <1>3, <2>2
  <2> QED BY <1>2, <1>5, <2>1, <2>2, <2>3
<1>8. CASE AppendRefused
  <2>1. Roll(Current) /\ obn' = obn
    BY <1>8 DEF AppendRefused, texts
  <2>2. Current.vec[k] = d \/ Full \/ i # Len(shards)
    BY <1>2, <1>3
  <2> QED BY <1>2, <1>3, <1>5, <2>1, <2>2
<1> QED BY <1>6, <1>7, <1>8

\* remove loses nothing but what it takes out.
LEMMA RemoveKeeps ==
    ASSUME Shape, NEW j \in 1 .. Len(shards), NEW l \in Labels, Remove(j, l), NEW d \in Found,
           ~\E n \in Names : <<d, n>> \in removed'
    PROVE  d \in Found'
<1>1. isOpen /\ isOpen'
  BY DEF Remove, Idle
<1>2. PICK i \in 1 .. Len(shards), k \in Labels :
         d # 0 /\ shards[i].vec[k] = d /\ obn[shards[i].file][k] = d
  BY <1>1, FoundOpen
<1>0. d \in Docs
  BY <1>1, FoundOpen
<1>3. /\ Len(shards') = Len(shards)
      /\ \A m \in 1 .. Len(shards) : shards'[m].file = shards[m].file /\ shards'[m].vec = shards[m].vec
      /\ obn' = [obn EXCEPT ![shards[j].file][l] = 0]
      /\ removed' = removed \cup (({Entry(shards[j], l)} \cap Docs) \X {shards[j].file})
  BY RemoveIs
<1>4. shards[i].file \in Names /\ shards[j].file \in Names /\ obn \in [Names -> [Labels -> Texts \cup {0}]]
  BY ShardsAre DEF ShardType, Shape, TypeOK, TextsOK, EntryMaps
<1>5. obn'[shards[i].file][k] = IF shards[i].file = shards[j].file /\ k = l THEN 0 ELSE obn[shards[i].file][k]
  BY <1>3, <1>4
<1>6. CASE shards[i].file = shards[j].file /\ k = l
  <2>1. <<d, shards[j].file>> \in removed'
    BY <1>0, <1>2, <1>3, <1>6 DEF Entry
  <2> QED BY <1>4, <2>1
<1>7. CASE ~(shards[i].file = shards[j].file /\ k = l)
  <2>1. obn'[shards'[i].file][k] = d /\ shards'[i].vec[k] = d /\ i \in 1 .. Len(shards')
    BY <1>2, <1>3, <1>5, <1>7
  <2> QED BY <1>1, <1>2, <2>1, FoundNext
<1> QED BY <1>6, <1>7

\* The end of a session without merge saves each shard, and the next finds all.
LEMMA CloseKeeps ==
    ASSUME Shape, Unmerged, merges = 0, Close, NEW d \in Found,
           Discovered' \cap torn' = {}
    PROVE  d \in Found'
<1>1. isOpen /\ ~isOpen' /\ hix' = SaveAll /\ obn' = obn /\ sets' = sets
  BY DEF Close, Idle
<1>2. PICK i \in 1 .. Len(shards), k \in Labels :
         d # 0 /\ shards[i].vec[k] = d /\ obn[shards[i].file][k] = d
  BY <1>1, FoundOpen
<1>3. \A j \in 1 .. Len(shards) :
         /\ shards[j].file = j - 1 /\ j - 1 \in Base /\ j \in Int
         /\ hix'[j - 1] = shards[j].vec /\ j - 1 \in sets'
         /\ j < Len(shards) => shards[j].vec # Nothing \/ j - 1 \in Cut
  BY <1>1, PlainFiles, SaveAllPlain DEF Unmerged
<1>8. Cut' = Cut /\ i - 1 \in OpenFiles /\ unwritten' = WrittenOut(OpenFiles) /\ i - 1 \in Names
  BY <1>3, NamesAre DEF Close, Cut, cuts, OpenFiles
<1>9. unwritten'[i - 1] = {}
  BY <1>8 DEF WrittenOut
<1>4. Len(shards) \in Nat
  BY ShardsAre
<1>5. ASSUME NEW m \in 0 .. i - 1 PROVE (hix'[m] # Nothing \/ m \in Cut') /\ m \in sets'
  <2>1. m + 1 \in 1 .. Len(shards) /\ (m + 1) - 1 = m
    BY <1>4
  <2>2. CASE m = i - 1
    BY <1>2, <1>3, <2>2 DEF Nothing
  <2>3. CASE m # i - 1
    <3>1. m + 1 < Len(shards)
      BY <1>4, <2>3
    <3> QED BY <1>3, <1>8, <2>1, <3>1
  <2> QED BY <2>2, <2>3
<1>6. i - 1 \in Discovered'
  BY <1>3, <1>5 DEF Discovered, Whole, Base, Cut
<1>7. d \in OnDisk(i - 1)'
  BY <1>1, <1>2, <1>3, <1>9 DEF OnDisk
<1> QED BY <1>1, <1>6, <1>7 DEF Found

\* A death loses nothing that is in the files that will be opened, unless one of them is
\* being written.
LEMMA DiesKeeps ==
    ASSUME Shape, Unmerged, Synced, Death, merges = 0, NEW d, Kept(d),
           ~\E n \in Names : d \in OnDisk(n) /\ hix'[n] = Nothing,
           Discovered' \cap torn' = {}
    PROVE  d \in Found'
<1>1. ~isOpen' /\ sets' = sets
  BY DeathIs
<1>2. PICK n \in Discovered : d \in OnDisk(n)
  BY DEF Kept
<1>3. n \in Base /\ n \in Names
  BY NamesAre DEF Discovered, Base
<1>4. PICK k \in Labels : k \notin unwritten[n] /\ hix[n][k] # 0 /\ obn[n][k] = hix[n][k] /\ d = hix[n][k]
  BY <1>2 DEF OnDisk
<1>5. hix'[n][k] = d
  <2>1. CASE hix'[n] = hix[n]
    BY <1>4, <2>1
  <2>2. CASE n + 1 \in 1 .. Len(shards) /\ hix'[n] = shards[n + 1].vec
    <3>1. \A i \in 1 .. Len(shards), l \in Labels :
             hix[i - 1][l] # 0 /\ obn[i - 1][l] = hix[i - 1][l] => shards[i].vec[l] = hix[i - 1][l]
      BY DEF Synced
    <3>2. (n + 1) - 1 = n
      BY <1>3, NamesAre
    <3>3. shards[n + 1].vec[k] = hix[n][k]
      BY <1>4, <2>2, <3>1, <3>2
    <3> QED BY <1>4, <2>2, <3>3
  <2> QED BY <1>2, <1>3, <2>1, <2>2, DeathSaves
<1>6. obn'[n][k] = d /\ k \notin unwritten'[n]
  <2>1. obn'[n][k] = obn[n][k]
    BY <1>3, <1>4, DeathIs
  <2>2. unwritten'[n] = {}
    BY <1>3, DeathIs
  <2> QED BY <1>4, <2>1, <2>2
<1>7. d \in OnDisk(n)'
  BY <1>4, <1>5, <1>6 DEF OnDisk
<1>8. ASSUME NEW m \in 0 .. n PROVE Whole(m)'
  <2>1. m \in Base /\ (hix[m] # Nothing \/ m \in Cut) /\ m \in sets
    BY <1>2, <1>3, NamesAre DEF Discovered, Whole, Cut, Base
  <2>2. Cut \subseteq Cut'
    BY <1>3, DeathSaves DEF Cut
  <2>3. hix'[m] # Nothing \/ m \in Cut'
    <3>1. CASE m \in Cut
      BY <2>2, <3>1
    <3>2. CASE m \notin Cut
      <4>1. \A i \in 1 .. Len(shards) : shards[i].unsaved => shards[i].vec # Nothing
        BY DEF Synced
      <4> QED BY <2>1, <3>2, <4>1, DeathSaves
    <3> QED BY <3>1, <3>2
  <2> QED BY <1>1, <2>1, <2>3 DEF Whole, Cut
<1>9. n \in Discovered'
  BY <1>3, <1>8 DEF Discovered, Base
<1> QED BY <1>1, <1>7, <1>9 DEF Found

\* Until the merged shard is installed a merge only reads the shards that are searched.
LEMMA SourcesFound ==
    ASSUME Shape, OneTmp, ~reused, NEW d \in Found,
           \/ \E mode \in Modes : MergeBegin(mode)
           \/ Copy \/ AddItem \/ CopyEmpty \/ CopyDone \/ AddDone \/ MergeFlush \/ CopyOverflows
           \/ Flush \/ MergeRemoveGraph \/ \E j \in 1 .. Len(shards) : ReadText(j)
    PROVE  d \in Found'
<1>1. isOpen /\ isOpen'
  <2>1. isOpen' = isOpen
    BY ReadIs DEF MergeBegin, Copy, AddItem, CopyEmpty, CopyDone, AddDone, MergeFlush, CopyOverflows, Flush, MergeRemoveGraph
  <2>2. Idle \/ job.phase # "no"
    BY ReadIs
       DEF MergeBegin, Copy, AddItem, CopyEmpty, CopyDone, AddDone, MergeFlush, CopyOverflows, Overflows,
           Flush, MergeRemoveGraph, Reading
  <2>3. isOpen
    BY <2>2 DEF Idle, Shape
  <2> QED BY <2>1, <2>3
<1>2. PICK i \in 1 .. Len(shards), k \in Labels :
         d # 0 /\ shards[i].vec[k] = d /\ obn[shards[i].file][k] = d
  BY <1>1, FoundOpen
<1>3. /\ Len(shards') = Len(shards)
      /\ \A j \in 1 .. Len(shards) : shards'[j].file = shards[j].file /\ shards'[j].vec = shards[j].vec
  <2>1. CASE Flush
    <3>1. shards' = [j \in 1 .. Len(shards) |-> Saved(shards[j])]
      BY <2>1 DEF Flush
    <3> QED BY <3>1, ShardsAre, SavedIs
  <2>2. CASE ~Flush
    BY <2>2, ReadIs DEF MergeBegin, Copy, AddItem, CopyEmpty, CopyDone, AddDone, MergeFlush, CopyOverflows, MergeRemoveGraph
  <2> QED BY <2>1, <2>2
<1>4. obn'[shards[i].file] = obn[shards[i].file]
  <2>1. CASE Copy \/ AddItem \/ CopyEmpty
    <3>1. Making
      BY <2>1, CopyShape
    <3>2. shards[i].file # Tmp /\ shards[i].file \in Names
      BY <3>1, ShardsAre DEF OneTmp, ShardType
    <3>3. CASE UNCHANGED texts
      BY <3>3 DEF texts
    <3>4. ASSUME NEW e \in Texts, NEW w \in [Names -> SUBSET Labels], Add(e, w)
          PROVE  obn'[shards[i].file] = obn[shards[i].file]
      <4>1. \A n \in Base : obn'[n] = obn[n]
        BY <3>1, <3>4, AddIs
      <4> QED BY <3>2, <4>1, NamesAre
    <3> QED BY <2>1, <3>3, <3>4, CopyTexts
  <2>2. CASE ~(Copy \/ AddItem \/ CopyEmpty)
    BY <2>2, ReadIs
       DEF MergeBegin, CopyDone, AddDone, MergeFlush, CopyOverflows, Flush, MergeRemoveGraph, files, texts
  <2> QED BY <2>1, <2>2
<1>5. i \in 1 .. Len(shards') /\ shards'[i].vec[k] = d /\ obn'[shards'[i].file][k] = d
  BY <1>2, <1>3, <1>4
<1> QED BY <1>1, <1>2, <1>5, FoundNext

\* With the new shard in the place of the first source everything is found, but what was
\* lost in collecting it.
LEMMA InstallKeeps ==
    ASSUME Shape, OneTmp, CopyInv, ~reused, MergeInstall, NEW d \in Found, d \notin mislaid
    PROVE  d \in Found'
<1>1. /\ Making /\ Len(shards') = Len(shards) /\ shards'[First] = made
      /\ \A j \in 1 .. Len(shards) : j # First => shards'[j] = shards[j]
      /\ obn' = obn /\ job.phase = "flushed"
  BY InstallShape DEF MergeInstall
<1>2. isOpen /\ isOpen'
  BY <1>1, MakingIs DEF MergeInstall
<1>3. PICK i \in 1 .. Len(shards), k \in Labels :
         d # 0 /\ shards[i].vec[k] = d /\ obn[shards[i].file][k] = d
  BY <1>2, FoundOpen
<1>6. d \in Docs \ mislaid
  BY <1>2, FoundOpen
<1>4. CASE i # First
  BY <1>1, <1>2, <1>3, <1>4, FoundNext
<1>5. CASE i = First
  <2>1. Moved(First, k) /\ Entry(shards[First], k) = d
    BY <1>1, <1>3, <1>5 DEF Moved, Entry
  <2>2. PICK h \in Labels : obn[Tmp][h] = Entry(shards[First], k) /\ made.vec[h] = obn[Tmp][h]
    BY <1>1, <1>6, <2>1 DEF CopyInv
  <2>3. obn[Tmp][h] = d /\ made.vec[h] = d /\ made.file = Tmp
    BY <1>1, <1>3, <1>5, <2>2, MakingIs DEF Entry
  <2>4. First \in 1 .. Len(shards')
    BY <1>1, MakingIs, FirstIs
  <2> QED BY <1>1, <1>2, <1>3, <2>3, <2>4, FoundNext
<1> QED BY <1>4, <1>5

\* The entries of the second source go, and what they showed is found in the new shard,
\* but what was lost in collecting it.
LEMMA RemoveFilesKeeps ==
    ASSUME Shape, OneTmp, TakenOver, ~reused, MergeRemove, NEW d \in Found, d \notin mislaid
    PROVE  d \in Found'
<1>1. /\ Len(shards) > 1 /\ First \in Base /\ shards' = shards /\ job.phase = "installed" /\ isOpen
      /\ obn' = [obn EXCEPT ![First] = Nothing] /\ obn \in [Names -> EntryMaps] /\ A.file = Tmp
  BY ReplaceShape DEF MergeRemove, Shape, TypeOK, TextsOK
<1>2. isOpen'
  BY <1>1 DEF MergeRemove
<1>3. PICK i \in 1 .. Len(shards), k \in Labels :
         d # 0 /\ shards[i].vec[k] = d /\ obn[shards[i].file][k] = d
  BY <1>1, FoundOpen
<1>7. d \in Docs \ mislaid
  BY <1>1, FoundOpen
<1>4. shards[i].file \in Names /\ shards[i].file \in {i - 1, Tmp} /\ i \in Int
  <2>1. shards[i] \in ShardType /\ shards[i].file \in {i - 1, Tmp} /\ i \in Int
    BY ShardsAre
  <2> QED BY <2>1 DEF ShardType
<1>5. CASE shards[i].file # First
  BY <1>1, <1>2, <1>3, <1>4, <1>5, FoundNext
<1>6. CASE shards[i].file = First
  <2>1. i = First + 1 /\ B = shards[First + 1] /\ A = shards[First] /\ First \in 1 .. Len(shards)
    BY <1>1, <1>4, <1>6, NamesAre, ShardsAre, FirstIs
  <2>2. Entry(B, k) = d
    BY <1>3, <2>1 DEF Entry
  <2>3. PICK h \in Labels : obn[Tmp][h] = d /\ A.vec[h] = d
    BY <1>1, <1>7, <2>2 DEF TakenOver
  <2>4. obn'[Tmp][h] = d
    BY <1>1, <2>3, NamesAre
  <2> QED BY <1>1, <1>2, <1>3, <2>1, <2>3, <2>4, FoundNext
<1> QED BY <1>5, <1>6

\* The last shard is dropped, and everything is found, as the new one has it.
LEMMA DoneKeeps ==
    ASSUME Shape, OneTmp, TakenOver, ~reused, MergeDone, NEW d \in Found
    PROVE  d \in Found'
<1>1. /\ Len(shards) > 1 /\ job.phase = "dropped" /\ Len(shards') = First /\ isOpen
      /\ \A j \in 1 .. First : shards'[j] = shards[j]
      /\ obn' = obn /\ A.file = Tmp
  BY DoneShape DEF Shape
<1>2. isOpen'
  BY <1>1 DEF MergeDone
<1>3. PICK i \in 1 .. Len(shards), k \in Labels :
         d # 0 /\ shards[i].vec[k] = d /\ obn[shards[i].file][k] = d
  BY <1>1, FoundOpen
<1>4. First \in Nat /\ First \in 1 .. Len(shards) /\ First + 1 = Len(shards) /\ A = shards[First]
  BY <1>1, FirstIs, ShardsAre
<1>5. CASE i = First + 1
  <2>1. shards[i].file = First
    <3>1. shards[i].file \in {i - 1, Tmp} /\ i # First
      BY <1>4, <1>5, ShardsAre
    <3>2. shards[i].file # Tmp
      BY <1>1, <1>4, <3>1 DEF OneTmp
    <3> QED BY <1>4, <1>5, <3>1, <3>2
  <2>2. obn[First] = Nothing
    BY <1>1 DEF TakenOver
  <2>3. obn[shards[i].file][k] = 0
    BY <2>1, <2>2 DEF Nothing
  <2> QED BY <1>3, <2>3
<1>6. CASE i # First + 1
  <2>1. i \in 1 .. First
    BY <1>4, <1>6
  <2>2. i \in 1 .. Len(shards') /\ shards'[i] = shards[i]
    BY <1>1, <2>1
  <2> QED BY <1>1, <1>2, <1>3, <2>2, FoundNext
<1> QED BY <1>5, <1>6

\* What a step loses it loses for one of the causes.
LEMMA LossStep ==
    ASSUME Placed, Unmerged, Synced, [Next]_vars, NEW d \in Found, d \notin Found', vars' # vars
    PROVE  Cause(d)
<1> SUFFICES ASSUME ~Cause(d) PROVE FALSE
  OBVIOUS
<1>1. /\ Shape /\ OneTmp /\ CopyInv /\ TakenOver /\ ~reused /\ d \notin mislaid
      /\ ~(shards # <<>> /\ shards' = <<>> /\ isOpen')
      /\ ~(Idle /\ docs' > docs /\ Current.vec[Label(Current)] = d)
      /\ ~\E n \in Names : <<d, n>> \in removed'
      /\ isOpen /\ ~isOpen' => Discovered' \cap torn' = {} /\ ~(merges > 0)
      /\ crashes' > crashes => Kept(d) /\ ~\E n \in Names : d \in OnDisk(n) /\ hix'[n] = Nothing
      /\ merges \in Nat /\ crashes \in Nat
  BY DEF Placed, Cause, Shape, TypeOK
<1>2. ~Clear
  BY <1>1 DEF Clear, Idle
<1>3. ~Close
  <2> SUFFICES ASSUME Close PROVE FALSE
    OBVIOUS
  <2>1. isOpen /\ ~isOpen'
    BY DEF Close, Idle
  <2>2. merges = 0 /\ Discovered' \cap torn' = {}
    BY <1>1, <2>1
  <2> QED BY <1>1, <2>2, CloseKeeps
<1>4. ~Death
  <2> SUFFICES ASSUME Death PROVE FALSE
    OBVIOUS
  <2>1. isOpen /\ ~isOpen' /\ crashes' = crashes + 1
    BY <1>1, DeathIs
  <2>2. merges = 0 /\ Discovered' \cap torn' = {} /\ crashes' > crashes
    BY <1>1, <2>1
  <2> QED BY <1>1, <2>2, DiesKeeps
<1>6. ~(AppendChunk \/ AppendRejected \/ AppendRefused)
  BY <1>1, AppendKeeps
<1>7. ~\E i \in 1 .. Len(shards), l \in Labels : Remove(i, l)
  BY <1>1, RemoveKeeps
<1>8. ~Open
  BY <1>1, OpenKeeps
<1>9. ~(\/ \E mode \in Modes : MergeBegin(mode)
        \/ Copy \/ AddItem \/ CopyEmpty \/ CopyDone \/ AddDone \/ MergeFlush \/ CopyOverflows
        \/ Flush \/ MergeRemoveGraph \/ \E j \in 1 .. Len(shards) : ReadText(j))
  BY <1>1, SourcesFound
<1>10. ~MergeInstall /\ ~MergeRemove /\ ~MergeDone
  BY <1>1, InstallKeeps, RemoveFilesKeeps, DoneKeeps
<1> QED
  BY <1>2, <1>3, <1>4, <1>6, <1>7, <1>8, <1>9, <1>10 DEF Next, MergeStep, Death

\* For any bounds, in every session: a step that loses a doc takes it out, or puts
\* another one under its label, or ends the session with an image torn that the next one
\* needs, or is a death before text and vector of it were on disk or while the image it
\* is in was written anew, or ends the session of a merge, or drops what a merge lost in
\* collecting, or a merge has found the files of an earlier one.
THEOREM LossHasCauseHolds == Spec => LossHasCause
<1>1. Init => Placed /\ Unmerged /\ Synced
  <2>1. Init => Unmerged /\ Synced
    <3> SUFFICES ASSUME Init PROVE Unmerged /\ Synced
      OBVIOUS
    <3>1. Len(shards) = 0 /\ job.phase = "no" /\ docs = 0
      BY DEF Init, NoJob
    <3>2. \A i \in 1 .. Len(shards) : FALSE
      BY <3>1
    <3>3. \A n \in Base, l \in Labels : hix[n][l] = 0
      BY NamesAre DEF Init, Nothing
    <3> QED BY <3>1, <3>2, <3>3 DEF Unmerged, Synced, OpenFiles
  <2> QED BY <2>1, PlacedInit
<1>2. Placed /\ Unmerged /\ Synced /\ [Next]_vars => (Placed /\ Unmerged /\ Synced)'
  BY PlacedStep, UnmergedStep, SyncedStep DEF Placed
<1>3. Placed /\ Unmerged /\ Synced /\ [Next]_vars => [\A d \in Found \ Found' : Cause(d)]_vars
  <2> SUFFICES ASSUME Placed, Unmerged, Synced, [Next]_vars, vars' # vars, NEW d \in Found \ Found'
               PROVE  Cause(d)
    OBVIOUS
  <2> QED BY LossStep
<1>4. Placed /\ Unmerged /\ Synced /\ [Next]_vars =>
        [\A d \in Found \ Found' :
          \/ shards # <<>> /\ shards' = <<>> /\ isOpen'
          \/ Idle /\ docs' > docs /\ Current.vec[Label(Current)] = d
          \/ \E n \in Names : <<d, n>> \in removed'
          \/ isOpen /\ ~isOpen' /\ Discovered' \cap torn' # {}
          \/ crashes' > crashes /\ \/ merges > 0 \/ ~Kept(d)
                                   \/ \E n \in Names : d \in OnDisk(n) /\ hix'[n] = Nothing
          \/ isOpen /\ ~isOpen' /\ merges > 0
          \/ d \in mislaid
          \/ reused]_vars
  BY <1>3 DEF Cause
<1> QED
  BY <1>1, <1>2, <1>4, PTL DEF Spec, LossHasCause
=============================================================================
