------------------------------ MODULE StlProofs -----------------------------
(***************************************************************************)
(* The engine over the standard library: its transactions commit only what *)
(* they read, a restart brings back the last save, and scans and estimates *)
(* agree with reads, for any threads, collections, keys and batches.       *)
(***************************************************************************)
EXTENDS Stl, FiniteSetTheorems, TLAPS

-----------------------------------------------------------------------------
(* Types.                                                                   *)

Changed == [Places -> Content \cup {Unchanged}]

LEMMA EmptyOnes ==
    /\ NoEntry \in Entry /\ Nothing \in Changed /\ NotWatching \in [Places -> Int]
    /\ NoBatch \in Batch /\ Missing \in Content /\ EmptyValue \in Content
<1>1. Missing \in Content /\ EmptyValue \in Content
  BY Zenon DEF Content
<1>2. NoGeneration \in Int /\ Unwatched \in Int
  BY SMT DEF NoGeneration, Unwatched
<1>3. NoEntry \in Entry
  BY <1>1, <1>2, Zenon DEF NoEntry, Entry
<1>4. Nothing \in Changed
  BY Zenon DEF Nothing, Changed
<1>5. NotWatching \in [Places -> Int]
  BY <1>2, Zenon DEF NotWatching
<1>6. NoBatch \in Batch
  <2>1. 0 \in Nat /\ FALSE \in BOOLEAN
    BY SMT
  <2> QED
    BY <1>4, <2>1, Zenon DEF NoBatch, Batch, Changed
<1> QED
  BY <1>1, <1>3, <1>4, <1>5, <1>6, Zenon

LEMMA MergedTyped ==
    ASSUME TypeOK, NEW b \in Changed, NEW g \in Int
    PROVE  Merged(b, g) \in [Places -> Entry]
<1>1. ASSUME NEW p \in Places
      PROVE  (IF b[p] = Unchanged THEN entries[p] ELSE [val |-> b[p], gen |-> g]) \in Entry
  <2>1. entries[p] \in Entry /\ b[p] \in Content \cup {Unchanged}
    BY Zenon DEF TypeOK, Changed
  <2>2. b[p] # Unchanged => [val |-> b[p], gen |-> g] \in Entry
    BY <2>1, Zenon DEF Entry
  <2> QED
    BY <2>1, <2>2, Zenon
<1> QED
  BY <1>1, Zenon DEF Merged

LEMMA ContentsTyped ==
    ASSUME TypeOK
    PROVE  Contents \in [Places -> Content]
<1>1. \A p \in Places : entries[p].val \in Content
  BY Zenon DEF TypeOK, Entry
<1> QED
  BY <1>1, Zenon DEF Contents

LEMMA ImageTyped ==
    ASSUME TypeOK
    PROVE  Image \in [entries : [Places -> Content], names : NameTables]
<1>1. names \in NameTables
  BY Zenon DEF TypeOK
<1> QED
  BY <1>1, ContentsTyped, Zenon DEF Image

LEMMA CutsTyped ==
    ASSUME TypeOK
    PROVE  Cuts \subseteq [entries : [Places -> Content], names : NameTables]
<1>1. names \in NameTables /\ Contents \in [Places -> Content] /\ Missing \in Content
  BY ContentsTyped, EmptyOnes, Zenon DEF TypeOK
<1>2. [p \in Places |-> Missing] \in [Places -> Content]
  BY <1>1, Zenon
<1>3. ASSUME NEW S \in SUBSET Collections
      PROVE  [c \in Collections |-> IF c \in S THEN names[c] ELSE NoName] \in NameTables
  <2>1. \A c \in Collections : names[c] \in (Names \X {0, 1}) \cup {NoName}
    BY <1>1, Zenon DEF NameTables
  <2> QED
    BY <2>1, Zenon DEF NameTables
<1>4. ASSUME NEW q \in Places
      PROVE  [p \in Places |-> IF Before(p, q) THEN Contents[p] ELSE Missing] \in [Places -> Content]
  BY <1>1, Zenon
<1> QED
  <2> SUFFICES ASSUME NEW f \in Cuts
               PROVE  f \in [entries : [Places -> Content], names : NameTables]
    BY Zenon
  <2>1. ASSUME NEW S \in SUBSET Collections,
               f = [entries |-> [p \in Places |-> Missing],
                    names |-> [c \in Collections |-> IF c \in S THEN names[c] ELSE NoName]]
        PROVE  f \in [entries : [Places -> Content], names : NameTables]
    BY <1>2, <1>3, <2>1, Zenon
  <2>2. ASSUME NEW q \in Places,
               f = [entries |-> [p \in Places |-> IF Before(p, q) THEN Contents[p] ELSE Missing],
                    names |-> names]
        PROVE  f \in [entries : [Places -> Content], names : NameTables]
    BY <1>1, <1>4, <2>2, Zenon
  <2> QED
    BY <2>1, <2>2, Zenon DEF Cuts

\* A blob is loaded as it was written, unless it is empty.
LEMMA EntryRead ==
    ASSUME NEW f, NEW p \in Places
    PROVE  /\ EntriesRead(f)[p] = NoEntry \/ EntriesRead(f)[p].gen = 0
           /\ EntriesRead(f)[p].val = IF f.entries[p] = EmptyValue THEN Missing ELSE f.entries[p]
<1> DEFINE e == f.entries[p]
           r == EntriesRead(f)[p]
<1>1. r = CASE e = Missing -> NoEntry
            [] e = EmptyValue -> [val |-> Missing, gen |-> 0]
            [] OTHER -> [val |-> e, gen |-> 0]
  BY Zenon DEF EntriesRead
<1>2. Missing # EmptyValue
  BY DataAssumption, Zenon
<1> HIDE DEF e, r
<1>3. \/ e = Missing /\ r = NoEntry
      \/ e = EmptyValue /\ r = [val |-> Missing, gen |-> 0]
      \/ e # EmptyValue /\ r = [val |-> e, gen |-> 0]
  BY <1>1, <1>2
<1>4. (r = NoEntry \/ r.gen = 0) /\ r.val = IF e = EmptyValue THEN Missing ELSE e
  BY <1>2, <1>3, SMT DEF NoEntry
<1> QED
  BY <1>4, Zenon DEF e, r

LEMMA ReadTyped ==
    ASSUME NEW f \in [entries : [Places -> Content], names : NameTables]
    PROVE  EntriesRead(f) \in [Places -> Entry] /\ NamesRead(f) \in NameTables
<1>1. f.entries \in [Places -> Content] /\ f.names \in NameTables
  BY Zenon
<1>2. ASSUME NEW p \in Places
      PROVE  EntriesRead(f)[p] \in Entry
  <2> DEFINE e == f.entries[p]
  <2>0. e \in Content /\ 0 \in Int
    BY <1>1, SMT
  <2>1. EntriesRead(f)[p] = CASE e = Missing -> NoEntry
                              [] e = EmptyValue -> [val |-> Missing, gen |-> 0]
                              [] OTHER -> [val |-> e, gen |-> 0]
    BY Zenon DEF EntriesRead
  <2> HIDE DEF e
  <2>2. \A x \in Content : [val |-> x, gen |-> 0] \in Entry
    BY <2>0, Zenon DEF Entry
  <2>3. EntriesRead(f)[p] \in {NoEntry, [val |-> Missing, gen |-> 0], [val |-> e, gen |-> 0]}
    BY <2>1, DataAssumption DEF Content
  <2> QED
    BY <2>0, <2>2, <2>3, EmptyOnes, Zenon
<1>3. EntriesRead(f) \in [Places -> Entry]
  BY <1>2, Zenon DEF EntriesRead
<1>4. ASSUME NEW c \in Collections
      PROVE  NamesRead(f)[c] \in (Names \X {0, 1}) \cup {NoName}
  <2>1. f.names[c] \in (Names \X {0, 1}) \cup {NoName}
    BY <1>1, Zenon DEF NameTables
  <2>2. NamesRead(f)[c] = NoName
        \/ (f.names[c] # NoName /\ NamesRead(f)[c] = <<f.names[c][1], 1>>)
    BY Zenon DEF NamesRead
  <2>3. f.names[c] # NoName => <<f.names[c][1], 1>> \in Names \X {0, 1}
    BY <2>1, SMT
  <2> QED
    BY <2>2, <2>3, Zenon
<1>5. NamesRead(f) \in NameTables
  BY <1>4, Zenon DEF NamesRead, NameTables
<1> QED
  BY <1>3, <1>5, Zenon

-----------------------------------------------------------------------------
(* Generations.                                                             *)

LEMMA Generations ==
    ASSUME TypeOK, NoneYounger
    PROVE  /\ youngest \in Nat /\ given \in Nat
           /\ \A p \in Places : entries[p].gen \in Int /\ entries[p].gen <= youngest
                                /\ entries[p].gen # Unwatched
           /\ \A t \in Threads, p \in Places : watched[t][p] \in Int /\ watched[t][p] <= youngest
<1>1. youngest \in Nat /\ given \in Nat
  <2>1. youngest \in 0..given /\ given \in 0..MaxGenerations
    BY Zenon DEF TypeOK
  <2> QED
    BY <2>1, SMT
<1>2. \A p \in Places : entries[p].gen \in NoGeneration..youngest
  BY Zenon DEF NoneYounger
<1>3. \A p \in Places : entries[p].gen \in Int /\ entries[p].gen <= youngest
                        /\ entries[p].gen # Unwatched
  BY <1>1, <1>2, SMT DEF NoGeneration, Unwatched
<1>4. \A t \in Threads, p \in Places : watched[t][p] \in Int
  <2>1. \A t \in Threads : watched[t] \in [Places -> Int]
    BY Zenon DEF TypeOK
  <2> QED
    BY <2>1, Zenon
<1> QED
  BY <1>1, <1>3, <1>4, Zenon DEF NoneYounger

\* A fresh generation is no entry's, no watch's, and no younger one.
LEMMA FreshStays ==
    ASSUME NEW g, Fresh(g), youngest \in Nat, youngest' \in Nat, youngest <= youngest',
           \A p \in Places : entries'[p].gen # g,
           \A t \in Threads, p \in Places : watched'[t][p] # g
    PROVE  Fresh(g)'
<1>1. g \in 1..youngest'
  BY SMT DEF Fresh
<1> QED
  BY <1>1, Zenon DEF Fresh

LEMMA NextIsFresh ==
    ASSUME TypeOK, NoneYounger, NEW n, n = youngest + 1, youngest' = n, watched' = watched,
           \A p \in Places : entries'[p] = entries[p]
    PROVE  /\ Fresh(n)' /\ n \in Nat
           /\ \A g : Fresh(g) => Fresh(g)' /\ g # n
<1>1. /\ youngest \in Nat
      /\ \A p \in Places : entries[p].gen \in Int /\ entries[p].gen <= youngest
      /\ \A t \in Threads, p \in Places : watched[t][p] \in Int /\ watched[t][p] <= youngest
  BY Generations, Zenon
<1>2. /\ \A p \in Places : entries[p].gen # n
      /\ \A t \in Threads, p \in Places : watched[t][p] # n
      /\ n \in 1..n /\ n \in Nat /\ youngest <= n
  BY <1>1, SMT
<1>3. \A p \in Places : entries'[p].gen = entries[p].gen
  BY Zenon
<1>4. Fresh(n)'
  <2>1. \A p \in Places : entries'[p].gen # n
    BY <1>2, <1>3, Zenon
  <2> QED
    BY <1>2, <2>1, Zenon DEF Fresh
<1>5. ASSUME NEW g, Fresh(g)
      PROVE  Fresh(g)' /\ g # n
  <2>1. g \in 1..youngest
    BY <1>5, Zenon DEF Fresh
  <2>2. g # n
    BY <1>1, <2>1, SMT
  <2>3. /\ \A p \in Places : entries'[p].gen # g
        /\ \A t \in Threads, p \in Places : watched'[t][p] # g
    BY <1>3, <1>5, Zenon DEF Fresh
  <2>4. youngest' \in Nat /\ youngest <= youngest'
    BY <1>2, Zenon
  <2>5. Fresh(g)'
    BY <1>1, <1>5, <2>3, <2>4, FreshStays, Zenon
  <2> QED
    BY <2>2, <2>5, Zenon
<1> QED
  BY <1>2, <1>4, <1>5, Zenon

\* What was read is kept by a step that leaves the transaction alone and gives
\* no entry the generation it is watched with.
LEMMA ReadsKept ==
    ASSUME TypeOK, NEW t \in Threads, ReadsWatched(t),
           watched'[t] = watched[t], changes'[t] = changes[t], reads'[t] = reads[t],
           \A p \in Places : \/ entries'[p] = entries[p]
                             \/ entries'[p] = NoEntry
                             \/ entries'[p].gen # watched[t][p]
    PROVE  ReadsWatched(t)'
<1>1. \A p \in Places : watched'[t][p] # Unwatched /\ changes'[t][p] = Unchanged =>
                            \E r \in reads'[t] : r[1] = p
  BY Zenon DEF ReadsWatched
<1>2. ASSUME NEW r \in reads[t], changes[t][r[1]] = Unchanged
      PROVE  /\ watched[t][r[1]] # Unwatched
             /\ entries'[r[1]].gen = watched[t][r[1]] => entries'[r[1]].val = r[2]
             /\ watched[t][r[1]] = NoGeneration => r[2] = Missing
  <2>1. r[1] \in Places
    <3>1. reads[t] \in SUBSET (Places \X Content)
      BY Zenon DEF TypeOK
    <3> QED
      BY <3>1, SMT
  <2>2. /\ watched[t][r[1]] # Unwatched
        /\ entries[r[1]].gen = watched[t][r[1]] => entries[r[1]].val = r[2]
        /\ watched[t][r[1]] = NoGeneration => r[2] = Missing
    BY <1>2, Zenon DEF ReadsWatched
  <2>3. NoEntry.gen = NoGeneration /\ NoEntry.val = Missing
    BY Zenon DEF NoEntry
  <2> QED
    BY <2>1, <2>2, <2>3, Zenon
<1>3. ASSUME NEW r \in reads'[t], changes'[t][r[1]] = Unchanged
      PROVE  /\ watched'[t][r[1]] # Unwatched
             /\ entries'[r[1]].gen = watched'[t][r[1]] => entries'[r[1]].val = r[2]
             /\ watched'[t][r[1]] = NoGeneration => r[2] = Missing
  BY <1>2, <1>3, Zenon
<1> QED
  BY <1>1, <1>3, Zenon DEF ReadsWatched

LEMMA ReadsClosed ==
    ASSUME NEW t \in Threads, watched'[t] = NotWatching, reads'[t] = {}
    PROVE  ReadsWatched(t)'
<1>1. \A p \in Places : watched'[t][p] = Unwatched
  BY Zenon DEF NotWatching
<1> QED
  BY <1>1, Zenon DEF ReadsWatched

\* What nobody touches stays as young as it was.
LEMMA NoneYoungerStays ==
    ASSUME TypeOK, NoneYounger, youngest' \in Nat, youngest <= youngest',
           \A p \in Places : \/ entries'[p] = entries[p]
                             \/ entries'[p] = NoEntry
                             \/ entries'[p].gen \in 0..youngest',
           \A t \in Threads, p \in Places : \/ watched'[t][p] = watched[t][p]
                                            \/ watched'[t][p] = Unwatched
                                            \/ watched'[t][p] = entries[p].gen
    PROVE  NoneYounger'
<1>1. /\ youngest \in Nat
      /\ \A p \in Places : entries[p].gen \in Int /\ entries[p].gen <= youngest
      /\ \A t \in Threads, p \in Places : watched[t][p] \in Int /\ watched[t][p] <= youngest
  BY Generations, Zenon
<1>2. ASSUME NEW p \in Places
      PROVE  /\ entries'[p].gen \in NoGeneration..youngest'
             /\ entries'[p].gen = NoGeneration => entries'[p].val = Missing
  <2>1. /\ entries[p].gen \in NoGeneration..youngest
        /\ entries[p].gen = NoGeneration => entries[p].val = Missing
    BY Zenon DEF NoneYounger
  <2>2. CASE entries'[p] = entries[p]
    <3>1. entries[p].gen \in NoGeneration..youngest'
      BY <1>1, <2>1, SMT DEF NoGeneration
    <3> QED
      BY <2>1, <2>2, <3>1, Zenon
  <2>3. CASE entries'[p] = NoEntry
    <3>1. NoEntry.gen = NoGeneration /\ NoEntry.val = Missing
      BY Zenon DEF NoEntry
    <3>2. NoGeneration \in NoGeneration..youngest'
      BY SMT DEF NoGeneration
    <3> QED
      BY <2>3, <3>1, <3>2, Zenon
  <2>4. CASE entries'[p].gen \in 0..youngest'
    BY <2>4, SMT DEF NoGeneration
  <2> QED
    BY <2>2, <2>3, <2>4, Zenon
<1>3. ASSUME NEW t \in Threads, NEW p \in Places
      PROVE  watched'[t][p] <= youngest'
  <2>1. watched[t][p] <= youngest' /\ entries[p].gen <= youngest' /\ Unwatched <= youngest'
    BY <1>1, SMT DEF Unwatched
  <2> QED
    BY <2>1, Zenon
<1> QED
  BY <1>2, <1>3, Zenon DEF NoneYounger

\* The generations taken stay fresh in a step that takes none.
LEMMA TakenStayFresh ==
    ASSUME GenerationsFresh,
           \A u \in Threads : \A g : at'[u] = "writing" /\ batch'[u].gen = g =>
               at[u] = "writing" /\ batch[u].gen = g /\ Fresh(g)',
           \A u \in Threads : \A g : open'[u] /\ began'[u] = g =>
               open[u] /\ began[u] = g /\ Fresh(g)'
    PROVE  GenerationsFresh'
<1>1. \A u, v \in Threads : at[u] = "writing" /\ open[v] => batch[u].gen # began[v]
  BY Zenon DEF GenerationsFresh
<1>2. \A u \in Threads : at'[u] = "writing" => Fresh(batch[u].gen)'
  BY ZenonT(60) DEF Fresh
<1>3. \A u \in Threads : open'[u] => Fresh(began[u])'
  BY Zenon DEF Fresh
<1>4. \A u, v \in Threads : at'[u] = "writing" /\ open'[v] => batch'[u].gen # began'[v]
  BY <1>1, ZenonT(60)
<1>5. \A u, v \in Threads : at'[u] = "writing" /\ at'[v] = "writing"
                              /\ batch'[u].gen = batch'[v].gen => u = v
  BY ZenonT(60) DEF GenerationsFresh
<1>6. \A u, v \in Threads : open'[u] /\ open'[v] /\ began'[u] = began'[v] => u = v
  BY Zenon DEF GenerationsFresh
<1> QED
  BY <1>2, <1>3, <1>4, <1>5, <1>6, Zenon DEF GenerationsFresh

\* To watch what there is takes no fresh generation.
LEMMA WatchesKeepFresh ==
    ASSUME GenerationsFresh, youngest' = youngest, entries' = entries, at' = at, batch' = batch,
           open' = open, began' = began,
           \A u \in Threads, p \in Places : \/ watched'[u][p] = watched[u][p]
                                            \/ watched'[u][p] = entries[p].gen
    PROVE  GenerationsFresh'
<1>1. ASSUME NEW g, Fresh(g) PROVE Fresh(g)'
  <2>1. /\ \A p \in Places : entries[p].gen # g
        /\ \A u \in Threads, p \in Places : watched[u][p] # g
        /\ g \in 1..youngest
    BY <1>1, Zenon DEF Fresh
  <2>2. \A u \in Threads, p \in Places : watched'[u][p] # g
    BY <2>1, Zenon
  <2>3. \A p \in Places : entries'[p].gen # g
    BY <2>1, Zenon
  <2> QED
    BY <2>1, <2>2, <2>3, Zenon DEF Fresh
<1>2. ASSUME NEW u \in Threads, NEW g, at'[u] = "writing", batch'[u].gen = g
      PROVE  at[u] = "writing" /\ batch[u].gen = g /\ Fresh(g)'
  <2>1. at[u] = "writing" /\ batch[u].gen = g
    BY <1>2, Zenon
  <2>2. Fresh(g)
    BY <2>1, Zenon DEF GenerationsFresh
  <2> QED
    BY <1>1, <2>1, <2>2, Zenon
<1>3. ASSUME NEW u \in Threads, NEW g, open'[u], began'[u] = g
      PROVE  open[u] /\ began[u] = g /\ Fresh(g)'
  <2>1. open[u] /\ began[u] = g
    BY <1>3, Zenon
  <2>2. Fresh(g)
    BY <2>1, Zenon DEF GenerationsFresh
  <2> QED
    BY <1>1, <2>1, <2>2, Zenon
<1> QED
  BY <1>2, <1>3, TakenStayFresh, Zenon

\* The generation that a step takes is no other's.
LEMMA TakenByWrite ==
    ASSUME GenerationsFresh, NEW t \in Threads, NEW n, Fresh(n)',
           \A g : Fresh(g) => Fresh(g)' /\ g # n,
           open' = open, began' = began, batch'[t].gen = n,
           \A u \in Threads : u # t => at'[u] = at[u] /\ batch'[u] = batch[u]
    PROVE  GenerationsFresh'
<1>1. /\ \A u, v \in Threads : at[u] = "writing" /\ open[v] => batch[u].gen # began[v]
      /\ \A u \in Threads : at[u] = "writing" => batch[u].gen # n
      /\ \A u \in Threads : open[u] => began[u] # n
  BY Zenon DEF GenerationsFresh
<1>2. ASSUME NEW u \in Threads, at'[u] = "writing"
      PROVE  Fresh(batch[u].gen)'
  <2>1. CASE u = t
    BY <2>1, SMT DEF Fresh
  <2>2. CASE u # t
    <3>1. PICK g : g = batch[u].gen
      OBVIOUS
    <3>2. at[u] = "writing" /\ batch'[u].gen = g
      BY <1>2, <2>2, <3>1, Zenon
    <3>3. Fresh(g)
      BY <3>1, <3>2, Zenon DEF GenerationsFresh
    <3>4. Fresh(g)'
      BY <3>3, Zenon
    <3> QED
      BY <3>2, <3>4, ZenonT(60) DEF Fresh
  <2> QED
    BY <2>1, <2>2, Zenon
<1>3. ASSUME NEW u \in Threads, open'[u]
      PROVE  Fresh(began[u])'
  <2>1. PICK g : g = began[u]
    OBVIOUS
  <2>2. open[u] /\ began'[u] = g
    BY <1>3, <2>1, Zenon
  <2>3. Fresh(g)
    BY <2>1, <2>2, Zenon DEF GenerationsFresh
  <2>4. Fresh(g)'
    BY <2>3, Zenon
  <2> QED
    BY <2>2, <2>4, Zenon DEF Fresh
<1>4. \A u, v \in Threads : at'[u] = "writing" /\ open'[v] => batch'[u].gen # began'[v]
  BY <1>1, ZenonT(60)
<1>5. \A u, v \in Threads : at'[u] = "writing" /\ at'[v] = "writing"
                              /\ batch'[u].gen = batch'[v].gen => u = v
  <2>1. \A u, v \in Threads : at[u] = "writing" /\ at[v] = "writing"
                              /\ batch[u].gen = batch[v].gen => u = v
    BY Zenon DEF GenerationsFresh
  <2> QED
    BY <1>1, <2>1, Zenon
<1>6. \A u, v \in Threads : open'[u] /\ open'[v] /\ began'[u] = began'[v] => u = v
  BY Zenon DEF GenerationsFresh
<1> QED
  BY <1>2, <1>3, <1>4, <1>5, <1>6, Zenon DEF GenerationsFresh

LEMMA TakenByTxn ==
    ASSUME GenerationsFresh, NEW t \in Threads, NEW n, Fresh(n)',
           \A g : Fresh(g) => Fresh(g)' /\ g # n,
           at' = at, batch' = batch, began'[t] = n,
           \A u \in Threads : u # t => open'[u] = open[u] /\ began'[u] = began[u]
    PROVE  GenerationsFresh'
<1>1. /\ \A u, v \in Threads : at[u] = "writing" /\ open[v] => batch[u].gen # began[v]
      /\ \A u \in Threads : at[u] = "writing" => batch[u].gen # n
      /\ \A u \in Threads : open[u] => began[u] # n
  BY Zenon DEF GenerationsFresh
<1>2. ASSUME NEW u \in Threads, at'[u] = "writing"
      PROVE  Fresh(batch[u].gen)'
  <2>1. PICK g : g = batch[u].gen
    OBVIOUS
  <2>2. at[u] = "writing" /\ batch'[u].gen = g
    BY <1>2, <2>1, Zenon
  <2>3. Fresh(g)
    BY <2>1, <2>2, Zenon DEF GenerationsFresh
  <2>4. Fresh(g)'
    BY <2>3, Zenon
  <2> QED
    BY <2>2, <2>4, SMT DEF Fresh
<1>3. ASSUME NEW u \in Threads, open'[u]
      PROVE  Fresh(began[u])'
  <2>1. CASE u = t
    BY <2>1, ZenonT(60) DEF Fresh
  <2>2. CASE u # t
    <3>1. PICK g : g = began[u]
      OBVIOUS
    <3>2. open[u] /\ began'[u] = g
      BY <1>3, <2>2, <3>1, Zenon
    <3>3. Fresh(g)
      BY <3>1, <3>2, Zenon DEF GenerationsFresh
    <3>4. Fresh(g)'
      BY <3>3, Zenon
    <3> QED
      BY <3>2, <3>4, Zenon DEF Fresh
  <2> QED
    BY <2>1, <2>2, Zenon
<1>4. \A u, v \in Threads : at'[u] = "writing" /\ open'[v] => batch'[u].gen # began'[v]
  BY <1>1, Zenon
<1>5. \A u, v \in Threads : at'[u] = "writing" /\ at'[v] = "writing"
                              /\ batch'[u].gen = batch'[v].gen => u = v
  BY Zenon DEF GenerationsFresh
<1>6. \A u, v \in Threads : open'[u] /\ open'[v] /\ began'[u] = began'[v] => u = v
  <2>1. \A u, v \in Threads : open[u] /\ open[v] /\ began[u] = began[v] => u = v
    BY Zenon DEF GenerationsFresh
  <2> QED
    BY <1>1, <2>1, Zenon
<1> QED
  BY <1>2, <1>3, <1>4, <1>5, <1>6, Zenon DEF GenerationsFresh

-----------------------------------------------------------------------------
(* Every step keeps the invariant: one lemma per action.                    *)

\* The parts of the invariant.
LEMMA StlInvParts ==
    ASSUME StlInv
    PROVE  /\ TypeOK /\ GenerationsFresh /\ NoneYounger
           /\ \A t \in Threads : ReadsWatched(t)
           /\ \A t \in Threads : ~open[t] => changes[t] = Nothing
           /\ (saved.cut \/ saved.image = file)
BY Zenon DEF StlInv

\* What steps that leave transactions alone keep.
LEMMA TxnsAlone ==
    ASSUME StlInv, UNCHANGED txn,
           \A t \in Threads, p \in Places : \/ entries'[p] = entries[p]
                                            \/ entries'[p] = NoEntry
                                            \/ entries'[p].gen # watched[t][p]
    PROVE  \A t \in Threads : ReadsWatched(t)' /\ (~open'[t] => changes'[t] = Nothing)
<1>1. open' = open /\ watched' = watched /\ changes' = changes /\ reads' = reads
  BY Zenon DEF txn
<1>2. TypeOK /\ \A t \in Threads : ReadsWatched(t) /\ (~open[t] => changes[t] = Nothing)
  BY StlInvParts, Zenon
<1>3. ASSUME NEW t \in Threads
      PROVE  ReadsWatched(t)'
  <2>1. /\ ReadsWatched(t) /\ watched'[t] = watched[t] /\ changes'[t] = changes[t]
        /\ reads'[t] = reads[t]
    BY <1>1, <1>2, Zenon
  <2> QED
    BY <1>2, <2>1, ReadsKept, Zenon
<1> QED
  BY <1>1, <1>2, <1>3, Zenon

LEMMA WriteStartsKeeps ==
    ASSUME StlInv, NEW t \in Threads, NEW b \in Batches, NEW flush \in BOOLEAN,
           WriteStarts(t, b, flush)
    PROVE  StlInv'
<1>0. PICK n : n = youngest + 1
  OBVIOUS
<1>1. /\ at[t] = "ready" /\ given < MaxGenerations /\ given' = given + 1 /\ youngest' = n
      /\ batch' = [batch EXCEPT ![t] = [b |-> b, gen |-> n, flush |-> flush]]
      /\ at' = [at EXCEPT ![t] = "writing"]
      /\ entries' = entries /\ names' = names /\ file' = file /\ UNCHANGED txn /\ saved' = saved
  BY <1>0, Zenon DEF WriteStarts, NextGeneration
<1>2. open' = open /\ began' = began /\ watched' = watched /\ changes' = changes /\ reads' = reads
  BY <1>1, Zenon DEF txn
<1>3. TypeOK /\ GenerationsFresh /\ NoneYounger /\ (saved.cut \/ saved.image = file)
  BY StlInvParts, Zenon
<1>4. youngest \in Nat /\ n \in Nat /\ youngest <= n
  <2>1. youngest \in Nat
    BY <1>3, Generations, Zenon
  <2> QED
    BY <1>0, <2>1, SMT
<1>5. at \in [Threads -> {"ready", "writing", "saving"}] /\ batch \in [Threads -> Batch]
  BY <1>3, Zenon DEF TypeOK
<1>6. /\ at'[t] = "writing" /\ batch'[t] = [b |-> b, gen |-> n, flush |-> flush]
      /\ \A u \in Threads : u # t => at'[u] = at[u] /\ batch'[u] = batch[u]
  BY <1>1, <1>5, SMT
<1>7. batch'[t].gen = n
  BY <1>6
<1>8. TypeOK'
  <2>1. youngest' \in 0..given' /\ given' \in 0..MaxGenerations
    <3>1. youngest \in 0..given /\ given \in 0..MaxGenerations
      BY <1>3, Zenon DEF TypeOK
    <3>2. MaxGenerations \in Nat
      BY DataAssumption, Zenon
    <3> QED
      BY <1>0, <1>1, <3>1, <3>2, SMT
  <2>2. at' \in [Threads -> {"ready", "writing", "saving"}]
    BY <1>1, <1>5, Zenon
  <2>3. batch' \in [Threads -> Batch]
    <3>1. b \in [Places -> Content \cup {Unchanged}]
      BY DataAssumption, Zenon
    <3>2. [b |-> b, gen |-> n, flush |-> flush] \in Batch
      BY <1>4, <3>1 DEF Batch
    <3> QED
      BY <1>1, <1>5, <3>2, Zenon
  <2>4. \A u, v \in Threads : at'[u] = "saving" /\ at'[v] = "saving" => u = v
    <3>1. \A u \in Threads : at'[u] = "saving" => at[u] = "saving"
      BY <1>6
    <3> QED
      BY <1>3, <3>1, Zenon DEF TypeOK
  <2> QED
    BY <1>1, <1>2, <1>3, <2>1, <2>2, <2>3, <2>4, Zenon DEF TypeOK
<1>9. Fresh(n)' /\ \A g : Fresh(g) => Fresh(g)' /\ g # n
  <2>1. \A p \in Places : entries'[p] = entries[p]
    BY <1>1, Zenon
  <2> QED
    BY <1>0, <1>1, <1>2, <1>3, <2>1, NextIsFresh, Zenon
<1>10. GenerationsFresh'
  BY <1>2, <1>3, <1>6, <1>7, <1>9, TakenByWrite, Zenon
<1>11. NoneYounger'
  BY <1>1, <1>2, <1>3, <1>4, NoneYoungerStays, Zenon
<1>12. \A u \in Threads : ReadsWatched(u)' /\ (~open'[u] => changes'[u] = Nothing)
  BY <1>1, TxnsAlone, Zenon
<1> QED
  BY <1>1, <1>3, <1>8, <1>10, <1>11, <1>12, Zenon DEF StlInv

LEMMA WriteMergesKeeps ==
    ASSUME StlInv, NEW t \in Threads, WriteMerges(t)
    PROVE  StlInv'
<1>0. PICK n : n = batch[t].gen
  OBVIOUS
<1>1. /\ at[t] = "writing" /\ Unlocked
      /\ entries' = Merged(batch[t].b, n)
      /\ at' = [at EXCEPT ![t] = IF batch[t].flush THEN "saving" ELSE "ready"]
      /\ batch' = [batch EXCEPT ![t] = NoBatch]
      /\ youngest' = youngest /\ given' = given /\ names' = names /\ file' = file
      /\ UNCHANGED txn /\ saved' = saved
  BY <1>0, Zenon DEF WriteMerges
<1>2. open' = open /\ began' = began /\ watched' = watched /\ changes' = changes /\ reads' = reads
  BY <1>1, Zenon DEF txn
<1>3. TypeOK /\ GenerationsFresh /\ NoneYounger /\ (saved.cut \/ saved.image = file)
  BY StlInvParts, Zenon
<1>4. /\ at \in [Threads -> {"ready", "writing", "saving"}] /\ batch \in [Threads -> Batch]
      /\ batch[t] \in Batch
  BY <1>3, Zenon DEF TypeOK
<1>5. batch[t].b \in Changed /\ n \in Nat
  BY <1>0, <1>4 DEF Batch, Changed
<1>6. youngest \in Nat /\ youngest <= youngest
  <2>1. youngest \in Nat
    BY <1>3, Generations, Zenon
  <2> QED
    BY <2>1, SMT
<1>7. /\ at'[t] \in {"saving", "ready"}
      /\ \A u \in Threads : u # t => at'[u] = at[u] /\ batch'[u] = batch[u]
  BY <1>1, <1>4, SMT
<1>8. Fresh(n)
  BY <1>0, <1>1, <1>3, Zenon DEF GenerationsFresh
<1>9. \A p \in Places : entries'[p] = entries[p] \/ entries'[p].gen = n
  BY <1>1, Zenon DEF Merged
<1>10. TypeOK'
  <2>1. entries' \in [Places -> Entry]
    <3>1. n \in Int
      BY <1>5, SMT
    <3> QED
      BY <1>1, <1>3, <1>5, <3>1, MergedTyped, Zenon
  <2>2. at' \in [Threads -> {"ready", "writing", "saving"}]
    BY <1>1, <1>4, Zenon
  <2>3. batch' \in [Threads -> Batch]
    BY <1>1, <1>4, EmptyOnes, Zenon
  <2>4. \A u, v \in Threads : at'[u] = "saving" /\ at'[v] = "saving" => u = v
    <3>1. \A u \in Threads : at'[u] = "saving" => u = t
      BY <1>1, <1>7, Zenon DEF Unlocked
    <3> QED
      BY <3>1, Zenon
  <2> QED
    BY <1>1, <1>2, <1>3, <2>1, <2>2, <2>3, <2>4, Zenon DEF TypeOK
<1>11. \A g : Fresh(g) /\ g # n => Fresh(g)'
  <2> SUFFICES ASSUME NEW g, Fresh(g), g # n PROVE Fresh(g)'
    BY Zenon
  <2>1. /\ \A p \in Places : entries'[p].gen # g
        /\ \A u \in Threads, p \in Places : watched'[u][p] # g
    <3>1. \A p \in Places : entries[p].gen # g
      BY Zenon DEF Fresh
    <3>2. \A p \in Places : entries'[p].gen = entries[p].gen \/ entries'[p].gen = n
      BY <1>9, Zenon
    <3>3. \A p \in Places : entries'[p].gen # g
      BY <3>1, <3>2, Zenon
    <3> QED
      BY <1>2, <3>3, Zenon DEF Fresh
  <2> QED
    BY <1>1, <1>6, <2>1, FreshStays, Zenon
<1>12. GenerationsFresh'
  <2>1. ASSUME NEW u \in Threads, NEW g, at'[u] = "writing", batch'[u].gen = g
        PROVE  at[u] = "writing" /\ batch[u].gen = g /\ Fresh(g)'
    <3>1. u # t
      BY <1>7, <2>1
    <3>2. at[u] = "writing" /\ batch[u].gen = g
      BY <1>7, <2>1, <3>1, Zenon
    <3>3. Fresh(g) /\ g # n
      BY <1>0, <1>1, <1>3, <3>1, <3>2, Zenon DEF GenerationsFresh
    <3> QED
      BY <1>11, <3>2, <3>3, Zenon
  <2>2. ASSUME NEW u \in Threads, NEW g, open'[u], began'[u] = g
        PROVE  open[u] /\ began[u] = g /\ Fresh(g)'
    <3>1. open[u] /\ began[u] = g
      BY <1>2, <2>2, Zenon
    <3>2. Fresh(g) /\ g # n
      BY <1>0, <1>1, <1>3, <3>1, Zenon DEF GenerationsFresh
    <3> QED
      BY <1>11, <3>1, <3>2, Zenon
  <2> QED
    BY <1>3, <2>1, <2>2, TakenStayFresh, Zenon
<1>13. NoneYounger'
  <2>1. n \in 0..youngest
    <3>1. n \in 1..youngest
      BY <1>8, Zenon DEF Fresh
    <3> QED
      BY <1>6, <3>1, SMT
  <2> QED
    BY <1>1, <1>2, <1>3, <1>6, <1>9, <2>1, NoneYoungerStays, Zenon
<1>14. \A u \in Threads : ReadsWatched(u)' /\ (~open'[u] => changes'[u] = Nothing)
  <2>1. \A u \in Threads, p \in Places : watched[u][p] # n
    BY <1>8, Zenon DEF Fresh
  <2> QED
    BY <1>1, <1>9, <2>1, TxnsAlone, Zenon
<1> QED
  BY <1>1, <1>3, <1>10, <1>12, <1>13, <1>14, Zenon DEF StlInv

LEMMA TxnWriteKeeps ==
    ASSUME StlInv, NEW t \in Threads, NEW b \in Batches, NEW watch \in BOOLEAN,
           TxnWrite(t, b, watch)
    PROVE  StlInv'
<1>1. /\ open[t]
      /\ watched' = IF watch
                    THEN [watched EXCEPT ![t] = [p \in Places |->
                              IF p \in Touches(b) THEN entries[p].gen ELSE @[p]]]
                    ELSE watched
      /\ changes' = [changes EXCEPT ![t] = [p \in Places |->
                        IF @[p] = Unchanged THEN b[p] ELSE @[p]]]
      /\ entries' = entries /\ youngest' = youngest /\ given' = given /\ names' = names
      /\ file' = file /\ at' = at /\ batch' = batch /\ open' = open /\ began' = began
      /\ reads' = reads /\ saved' = saved
  BY Zenon DEF TxnWrite
<1>2. /\ TypeOK /\ GenerationsFresh /\ NoneYounger /\ (saved.cut \/ saved.image = file)
      /\ \A u \in Threads : ReadsWatched(u) /\ (~open[u] => changes[u] = Nothing)
  BY StlInvParts, Zenon
<1>3. /\ watched \in [Threads -> [Places -> Int]]
      /\ changes \in [Threads -> [Places -> Content \cup {Unchanged}]]
      /\ b \in [Places -> Content \cup {Unchanged}]
  BY <1>2, DataAssumption, Zenon DEF TypeOK
<1>4. /\ youngest \in Nat
      /\ \A p \in Places : entries[p].gen \in Int
  BY <1>2, Generations, Zenon
<1>5. \A p \in Places : changes'[t][p] = IF changes[t][p] = Unchanged THEN b[p] ELSE changes[t][p]
  BY <1>1, <1>3, Zenon
<1>6. \A p \in Places : \/ watched'[t][p] = watched[t][p]
                        \/ watched'[t][p] = entries[p].gen /\ b[p] # Unchanged
  BY <1>1, <1>3, Zenon DEF Touches
<1>7. \A u \in Threads : u # t => watched'[u] = watched[u] /\ changes'[u] = changes[u]
  BY <1>1, <1>3, Zenon
<1>8. TypeOK'
  <2>1. watched' \in [Threads -> [Places -> Int]]
    <3>1. [p \in Places |-> IF p \in Touches(b) THEN entries[p].gen ELSE watched[t][p]]
             \in [Places -> Int]
      BY <1>3, <1>4, Zenon
    <3> QED
      BY <1>1, <1>3, <3>1, Zenon
  <2>2. changes' \in [Threads -> [Places -> Content \cup {Unchanged}]]
    <3>1. [p \in Places |-> IF changes[t][p] = Unchanged THEN b[p] ELSE changes[t][p]]
             \in [Places -> Content \cup {Unchanged}]
      BY <1>3, Zenon
    <3> QED
      BY <1>1, <1>3, <3>1, Zenon
  <2> QED
    BY <1>1, <1>2, <2>1, <2>2, Zenon DEF TypeOK
<1>9. \A u \in Threads, p \in Places : \/ watched'[u][p] = watched[u][p]
                                       \/ watched'[u][p] = entries[p].gen
  BY <1>6, <1>7, Zenon
<1>10. GenerationsFresh'
  BY <1>1, <1>2, <1>9, WatchesKeepFresh, Zenon
<1>12. NoneYounger'
  <2>1. youngest' \in Nat /\ youngest <= youngest'
    BY <1>1, <1>4, SMT
  <2> QED
    BY <1>1, <1>2, <1>9, <2>1, NoneYoungerStays, Zenon
<1>13. ASSUME NEW u \in Threads PROVE ReadsWatched(u)'
  <2>1. CASE u = t
    <3>1. /\ \A p \in Places : watched[t][p] # Unwatched /\ changes[t][p] = Unchanged =>
                                  \E r \in reads[t] : r[1] = p
          /\ \A r \in reads[t] : changes[t][r[1]] = Unchanged =>
                /\ watched[t][r[1]] # Unwatched
                /\ entries[r[1]].gen = watched[t][r[1]] => entries[r[1]].val = r[2]
                /\ watched[t][r[1]] = NoGeneration => r[2] = Missing
      BY <1>2, Zenon DEF ReadsWatched
    <3>2. \A p \in Places : changes'[t][p] = Unchanged =>
              changes[t][p] = Unchanged /\ watched'[t][p] = watched[t][p]
      BY <1>5, <1>6, Zenon
    <3>3. \A r \in reads[t] : r[1] \in Places
      <4>1. reads[t] \in SUBSET (Places \X Content)
        BY <1>2, Zenon DEF TypeOK
      <4> QED
        BY <4>1, SMT
    <3>4. \A p \in Places : watched'[t][p] # Unwatched /\ changes'[t][p] = Unchanged =>
                               \E r \in reads'[t] : r[1] = p
      BY <1>1, <3>1, <3>2, Zenon
    <3>5. ASSUME NEW r \in reads'[t], changes'[t][r[1]] = Unchanged
          PROVE  /\ watched'[t][r[1]] # Unwatched
                 /\ entries'[r[1]].gen = watched'[t][r[1]] => entries'[r[1]].val = r[2]
                 /\ watched'[t][r[1]] = NoGeneration => r[2] = Missing
      <4>1. r \in reads[t] /\ r[1] \in Places
        BY <1>1, <3>3, Zenon
      <4>2. changes[t][r[1]] = Unchanged /\ watched'[t][r[1]] = watched[t][r[1]]
        BY <3>2, <3>5, <4>1, Zenon
      <4> QED
        BY <1>1, <3>1, <4>1, <4>2, Zenon
    <3> QED
      BY <2>1, <3>4, <3>5, Zenon DEF ReadsWatched
  <2>2. CASE u # t
    BY <1>1, <1>2, <1>7, <2>2, ReadsKept, Zenon
  <2> QED
    BY <2>1, <2>2, Zenon
<1>14. \A u \in Threads : ~open'[u] => changes'[u] = Nothing
  BY <1>1, <1>2, <1>7, Zenon
<1> QED
  BY <1>1, <1>2, <1>8, <1>10, <1>12, <1>13, <1>14, Zenon DEF StlInv

LEMMA TxnReadKeeps ==
    ASSUME StlInv, NEW t \in Threads, NEW p \in Places, NEW watch \in BOOLEAN,
           TxnRead(t, p, watch)
    PROVE  StlInv'
<1> DEFINE first == watch /\ watched[t][p] = Unwatched
           new == watch /\ \A r \in reads[t] : r[1] # p
<1>1. /\ open[t] /\ changes[t][p] = Unchanged
      /\ watched' = IF first THEN [watched EXCEPT ![t][p] = entries[p].gen] ELSE watched
      /\ reads' = IF new THEN [reads EXCEPT ![t] = @ \cup {<<p, entries[p].val>>}] ELSE reads
      /\ entries' = entries /\ youngest' = youngest /\ given' = given /\ names' = names
      /\ file' = file /\ at' = at /\ batch' = batch /\ open' = open /\ began' = began
      /\ changes' = changes /\ saved' = saved
  BY Zenon DEF TxnRead, Remembers
<1>2. /\ TypeOK /\ GenerationsFresh /\ NoneYounger /\ (saved.cut \/ saved.image = file)
      /\ \A u \in Threads : ReadsWatched(u) /\ (~open[u] => changes[u] = Nothing)
  BY StlInvParts, Zenon
<1>3. /\ watched \in [Threads -> [Places -> Int]] /\ watched[t] \in [Places -> Int]
      /\ reads \in [Threads -> SUBSET (Places \X Content)]
      /\ reads[t] \in SUBSET (Places \X Content)
  BY <1>2, Zenon DEF TypeOK
<1>4. /\ youngest \in Nat
      /\ \A q \in Places : entries[q].gen \in Int /\ entries[q].gen # Unwatched
  BY <1>2, Generations, Zenon
<1>5. entries[p].val \in Content
  <2>1. entries[p] \in Entry
    BY <1>2, Zenon DEF TypeOK
  <2> QED
    BY <2>1 DEF Entry
<1>6. /\ \A q \in Places : watched[t][q] # Unwatched /\ changes[t][q] = Unchanged =>
                              \E r \in reads[t] : r[1] = q
      /\ \A r \in reads[t] : changes[t][r[1]] = Unchanged =>
            /\ watched[t][r[1]] # Unwatched
            /\ entries[r[1]].gen = watched[t][r[1]] => entries[r[1]].val = r[2]
            /\ watched[t][r[1]] = NoGeneration => r[2] = Missing
  BY <1>2, Zenon DEF ReadsWatched
<1>7. first <=> new
  BY <1>1, <1>6, Zenon
<1> HIDE DEF first, new
<1>8. CASE ~first
  <2>1. watched' = watched /\ reads' = reads
    BY <1>1, <1>7, <1>8, Zenon
  <2>2. TypeOK'
    BY <1>1, <1>2, <2>1, Zenon DEF TypeOK
  <2>3. GenerationsFresh'
    BY <1>1, <1>2, <2>1, WatchesKeepFresh, Zenon
  <2>4. NoneYounger'
    BY <1>1, <1>2, <2>1, Zenon DEF NoneYounger
  <2>5. UNCHANGED txn
    BY <1>1, <2>1, Zenon DEF txn
  <2>6. \A u \in Threads : ReadsWatched(u)' /\ (~open'[u] => changes'[u] = Nothing)
    BY <1>1, <2>5, TxnsAlone, Zenon
  <2> QED
    BY <1>1, <1>2, <2>2, <2>3, <2>4, <2>6, Zenon DEF StlInv
<1>9. CASE first
  <2>1. /\ watched' = [watched EXCEPT ![t] = [watched[t] EXCEPT ![p] = entries[p].gen]]
        /\ reads' = [reads EXCEPT ![t] = reads[t] \cup {<<p, entries[p].val>>}]
    BY <1>1, <1>7, <1>9, Zenon
  <2>2. /\ watched'[t][p] = entries[p].gen
        /\ \A q \in Places : q # p => watched'[t][q] = watched[t][q]
        /\ \A u \in Threads : u # t => watched'[u] = watched[u] /\ reads'[u] = reads[u]
        /\ reads'[t] = reads[t] \cup {<<p, entries[p].val>>}
    BY <1>3, <2>1, Zenon
  <2>3. TypeOK'
    <3>1. [watched[t] EXCEPT ![p] = entries[p].gen] \in [Places -> Int]
      BY <1>3, <1>4, Zenon
    <3>2. watched' \in [Threads -> [Places -> Int]]
      BY <1>3, <2>1, <3>1, Zenon
    <3>3. reads[t] \cup {<<p, entries[p].val>>} \in SUBSET (Places \X Content)
      BY <1>3, <1>5, SMT
    <3>4. reads' \in [Threads -> SUBSET (Places \X Content)]
      BY <1>3, <2>1, <3>3, Zenon
    <3> QED
      BY <1>1, <1>2, <3>2, <3>4, Zenon DEF TypeOK
  <2>4. \A u \in Threads, q \in Places : \/ watched'[u][q] = watched[u][q]
                                         \/ watched'[u][q] = entries[q].gen
    BY <2>2, Zenon
  <2>6. GenerationsFresh'
    BY <1>1, <1>2, <2>4, WatchesKeepFresh, Zenon
  <2>7. NoneYounger'
    <3>1. youngest' \in Nat /\ youngest <= youngest'
      BY <1>1, <1>4, SMT
    <3> QED
      BY <1>1, <1>2, <2>4, <3>1, NoneYoungerStays, Zenon
  <2>8. ASSUME NEW u \in Threads PROVE ReadsWatched(u)'
    <3>1. CASE u # t
      BY <1>1, <1>2, <2>2, <3>1, ReadsKept, Zenon
    <3>2. CASE u = t
      <4>0. DEFINE fresh == <<p, entries[p].val>>
      <4>1. fresh[1] = p /\ fresh[2] = entries[p].val /\ fresh \in reads'[t]
        BY <2>2, Zenon
      <4>2. \A q \in Places : watched'[t][q] # Unwatched /\ changes'[t][q] = Unchanged =>
                                 \E r \in reads'[t] : r[1] = q
        <5> SUFFICES ASSUME NEW q \in Places, watched'[t][q] # Unwatched,
                            changes'[t][q] = Unchanged
                     PROVE  \E r \in reads'[t] : r[1] = q
          OBVIOUS
        <5>1. CASE q = p
          BY <4>1, <5>1, Zenon
        <5>2. CASE q # p
          BY <1>1, <1>6, <2>2, <5>2, ZenonT(60)
        <5> QED
          BY <5>1, <5>2, Zenon
      <4>3. ASSUME NEW r \in reads'[t], changes'[t][r[1]] = Unchanged
            PROVE  /\ watched'[t][r[1]] # Unwatched
                   /\ entries'[r[1]].gen = watched'[t][r[1]] => entries'[r[1]].val = r[2]
                   /\ watched'[t][r[1]] = NoGeneration => r[2] = Missing
        <5>1. CASE r = fresh
          <6>1. r[1] = p /\ r[2] = entries[p].val
            BY <4>1, <5>1, Zenon
          <6>2. entries[p].gen = NoGeneration => entries[p].val = Missing
            BY <1>2, Zenon DEF NoneYounger
          <6>3. watched'[t][r[1]] = entries[p].gen /\ entries'[r[1]] = entries[p]
            BY <1>1, <2>2, <6>1, Zenon
          <6>4. entries[p].gen # Unwatched
            BY <1>4, Zenon
          <6> QED
            BY <6>1, <6>2, <6>3, <6>4, Zenon
        <5>2. CASE r # fresh
          <6>1. r \in reads[t]
            BY <2>2, <4>3, <5>2, Zenon
          <6>2. r[1] \in Places
            BY <1>3, <6>1, SMT
          <6>3. r[1] # p
            BY <1>7, <1>9, <6>1, Zenon DEF new
          <6> QED
            BY <1>1, <1>6, <2>2, <4>3, <6>1, <6>2, <6>3, ZenonT(60)
        <5> QED
          BY <5>1, <5>2, Zenon
      <4> QED
        BY <3>2, <4>2, <4>3, Zenon DEF ReadsWatched
    <3> QED
      BY <3>1, <3>2, Zenon
  <2> QED
    BY <1>1, <1>2, <2>3, <2>6, <2>7, <2>8, Zenon DEF StlInv
<1> QED
  BY <1>8, <1>9, Zenon

LEMMA CollectionCreateKeeps ==
    ASSUME StlInv, NEW t \in Threads, NEW n \in Names, NEW c \in Collections,
           CollectionCreate(t, n, c)
    PROVE  StlInv'
<1>1. /\ c # Main /\ names' = [names EXCEPT ![c] = <<n, 0>>]
      /\ entries' = entries /\ youngest' = youngest /\ given' = given
      /\ file' = file /\ at' = at /\ batch' = batch /\ UNCHANGED txn /\ saved' = saved
  BY Zenon DEF CollectionCreate
<1>2. open' = open /\ began' = began /\ watched' = watched /\ changes' = changes /\ reads' = reads
  BY <1>1, Zenon DEF txn
<1>3. TypeOK /\ GenerationsFresh /\ NoneYounger /\ (saved.cut \/ saved.image = file)
  BY StlInvParts, Zenon
<1>4. TypeOK'
  <2>1. names \in NameTables /\ names[Main] = NoName /\ Main \in Collections
    BY <1>3, DataAssumption, Zenon DEF TypeOK
  <2>2. <<n, 0>> \in Names \X {0, 1}
    BY SMT
  <2>3. names' \in NameTables
    BY <1>1, <2>1, <2>2, Zenon DEF NameTables
  <2>4. names'[Main] = NoName
    BY <1>1, <2>1, Zenon DEF NameTables
  <2> QED
    BY <1>1, <1>2, <1>3, <2>3, <2>4, Zenon DEF TypeOK
<1>5. GenerationsFresh'
  BY <1>1, <1>2, <1>3, WatchesKeepFresh, Zenon
<1>6. NoneYounger'
  BY <1>1, <1>2, <1>3, Zenon DEF NoneYounger
<1>7. \A u \in Threads : ReadsWatched(u)' /\ (~open'[u] => changes'[u] = Nothing)
  BY <1>1, TxnsAlone, Zenon
<1> QED
  BY <1>1, <1>3, <1>4, <1>5, <1>6, <1>7, Zenon DEF StlInv

LEMMA CollectionDropKeeps ==
    ASSUME StlInv, NEW t \in Threads, NEW c \in Collections, NEW handle \in BOOLEAN,
           CollectionDrop(t, c, handle)
    PROVE  StlInv'
<1>1. /\ names' = names \/ (c # Main /\ names' = [names EXCEPT ![c] = NoName])
      /\ entries' = [p \in Places |-> IF p[1] = c THEN NoEntry ELSE entries[p]]
      /\ youngest' = youngest /\ given' = given
      /\ file' = file /\ at' = at /\ batch' = batch /\ UNCHANGED txn /\ saved' = saved
  BY Zenon DEF CollectionDrop
<1>2. open' = open /\ began' = began /\ watched' = watched /\ changes' = changes /\ reads' = reads
  BY <1>1, Zenon DEF txn
<1>3. TypeOK /\ GenerationsFresh /\ NoneYounger /\ (saved.cut \/ saved.image = file)
  BY StlInvParts, Zenon
<1>4. youngest' \in Nat /\ youngest \in Nat /\ youngest <= youngest'
  <2>1. youngest \in Nat
    BY <1>3, Generations, Zenon
  <2> QED
    BY <1>1, <2>1, SMT
<1>5. \A p \in Places : entries'[p] = entries[p] \/ entries'[p] = NoEntry
  BY <1>1, Zenon
<1>6. TypeOK'
  <2>1. names \in NameTables /\ names[Main] = NoName /\ Main \in Collections
    BY <1>3, DataAssumption, Zenon DEF TypeOK
  <2>2. names' \in NameTables
    BY <1>1, <2>1, Zenon DEF NameTables
  <2>3. names'[Main] = NoName
    BY <1>1, <2>1, Zenon DEF NameTables
  <2>4. entries \in [Places -> Entry]
    BY <1>3, Zenon DEF TypeOK
  <2>5. entries' \in [Places -> Entry]
    BY <1>1, <2>4, EmptyOnes, Zenon
  <2> QED
    BY <1>1, <1>2, <1>3, <2>2, <2>3, <2>5, Zenon DEF TypeOK
<1>7. ASSUME NEW g, Fresh(g) PROVE Fresh(g)'
  <2>1. /\ \A p \in Places : entries[p].gen # g
        /\ \A u \in Threads, p \in Places : watched[u][p] # g
        /\ g \in 1..youngest
    BY <1>7, Zenon DEF Fresh
  <2>2. NoEntry.gen # g
    BY <1>4, <2>1 DEF NoEntry, NoGeneration
  <2>3. \A p \in Places : entries'[p].gen # g
    BY <1>5, <2>1, <2>2, Zenon
  <2> QED
    BY <1>1, <1>2, <2>1, <2>3, Zenon DEF Fresh
<1>8. GenerationsFresh'
  <2>1. ASSUME NEW u \in Threads, NEW g, at'[u] = "writing", batch'[u].gen = g
        PROVE  at[u] = "writing" /\ batch[u].gen = g /\ Fresh(g)'
    <3>1. at[u] = "writing" /\ batch[u].gen = g
      BY <1>1, <2>1, Zenon
    <3> QED
      BY <1>3, <1>7, <3>1, Zenon DEF GenerationsFresh
  <2>2. ASSUME NEW u \in Threads, NEW g, open'[u], began'[u] = g
        PROVE  open[u] /\ began[u] = g /\ Fresh(g)'
    <3>1. open[u] /\ began[u] = g
      BY <1>2, <2>2, Zenon
    <3> QED
      BY <1>3, <1>7, <3>1, Zenon DEF GenerationsFresh
  <2> QED
    BY <1>3, <2>1, <2>2, TakenStayFresh, Zenon
<1>9. NoneYounger'
  BY <1>2, <1>3, <1>4, <1>5, NoneYoungerStays, Zenon
<1>10. \A u \in Threads : ReadsWatched(u)' /\ (~open'[u] => changes'[u] = Nothing)
  BY <1>1, <1>5, TxnsAlone, Zenon
<1> QED
  BY <1>1, <1>3, <1>6, <1>8, <1>9, <1>10, Zenon DEF StlInv

LEMMA CollectionDropValsKeeps ==
    ASSUME StlInv, NEW t \in Threads, NEW c \in Collections, CollectionDropVals(t, c)
    PROVE  StlInv'
<1>0. PICK n : n = youngest + 1
  OBVIOUS
<1>1. /\ given < MaxGenerations /\ given' = given + 1 /\ youngest' = n
      /\ entries' = [p \in Places |->
                        IF p[1] = c /\ entries[p] # NoEntry
                        THEN [val |-> EmptyValue, gen |-> n] ELSE entries[p]]
      /\ names' = names /\ file' = file /\ at' = at /\ batch' = batch /\ UNCHANGED txn
      /\ saved' = saved
  BY <1>0, Zenon DEF CollectionDropVals, NextGeneration
<1>2. open' = open /\ began' = began /\ watched' = watched /\ changes' = changes /\ reads' = reads
  BY <1>1, Zenon DEF txn
<1>3. TypeOK /\ GenerationsFresh /\ NoneYounger /\ (saved.cut \/ saved.image = file)
  BY StlInvParts, Zenon
<1>4. /\ youngest \in Nat
      /\ \A u \in Threads, p \in Places : watched[u][p] \in Int /\ watched[u][p] <= youngest
  BY <1>3, Generations, Zenon
<1>5. /\ n \in Nat /\ youngest <= n /\ n \in 0..n /\ n \in Int
      /\ \A u \in Threads, p \in Places : watched[u][p] # n
  BY <1>0, <1>4, SMT
<1>6. \A p \in Places : entries'[p] = entries[p] \/ entries'[p].gen = n
  BY <1>1, Zenon
<1>7. TypeOK'
  <2>1. youngest' \in 0..given' /\ given' \in 0..MaxGenerations
    <3>1. youngest \in 0..given /\ given \in 0..MaxGenerations
      BY <1>3, Zenon DEF TypeOK
    <3>2. MaxGenerations \in Nat
      BY DataAssumption, Zenon
    <3> QED
      BY <1>0, <1>1, <3>1, <3>2, SMT
  <2>2. entries \in [Places -> Entry]
    BY <1>3, Zenon DEF TypeOK
  <2>3. [val |-> EmptyValue, gen |-> n] \in Entry
    BY <1>5, EmptyOnes, Zenon DEF Entry
  <2>4. entries' \in [Places -> Entry]
    BY <1>1, <2>2, <2>3, Zenon
  <2> QED
    BY <1>1, <1>2, <1>3, <2>1, <2>4, Zenon DEF TypeOK
<1>8. ASSUME NEW g, Fresh(g) PROVE Fresh(g)'
  <2>1. /\ \A p \in Places : entries[p].gen # g
        /\ \A u \in Threads, p \in Places : watched[u][p] # g
        /\ g \in 1..youngest
    BY <1>8, Zenon DEF Fresh
  <2>2. n # g /\ g \in 1..n
    BY <1>0, <1>4, <2>1, SMT
  <2>3. \A p \in Places : entries'[p].gen = entries[p].gen \/ entries'[p].gen = n
    BY <1>6, Zenon
  <2>4. \A p \in Places : entries'[p].gen # g
    BY <2>1, <2>2, <2>3, Zenon
  <2> QED
    BY <1>1, <1>2, <2>1, <2>2, <2>4, Zenon DEF Fresh
<1>9. GenerationsFresh'
  <2>1. ASSUME NEW u \in Threads, NEW g, at'[u] = "writing", batch'[u].gen = g
        PROVE  at[u] = "writing" /\ batch[u].gen = g /\ Fresh(g)'
    <3>1. at[u] = "writing" /\ batch[u].gen = g
      BY <1>1, <2>1, Zenon
    <3> QED
      BY <1>3, <1>8, <3>1, Zenon DEF GenerationsFresh
  <2>2. ASSUME NEW u \in Threads, NEW g, open'[u], began'[u] = g
        PROVE  open[u] /\ began[u] = g /\ Fresh(g)'
    <3>1. open[u] /\ began[u] = g
      BY <1>2, <2>2, Zenon
    <3> QED
      BY <1>3, <1>8, <3>1, Zenon DEF GenerationsFresh
  <2> QED
    BY <1>3, <2>1, <2>2, TakenStayFresh, Zenon
<1>10. NoneYounger'
  BY <1>1, <1>2, <1>3, <1>5, <1>6, NoneYoungerStays, Zenon
<1>11. \A u \in Threads : ReadsWatched(u)' /\ (~open'[u] => changes'[u] = Nothing)
  BY <1>1, <1>5, <1>6, TxnsAlone, Zenon
<1> QED
  BY <1>1, <1>3, <1>7, <1>9, <1>10, <1>11, Zenon DEF StlInv

LEMMA TxnInitKeeps ==
    ASSUME StlInv, NEW t \in Threads, TxnInit(t)
    PROVE  StlInv'
<1>0. PICK n : n = youngest + 1
  OBVIOUS
<1>1. /\ given < MaxGenerations /\ given' = given + 1 /\ youngest' = n
      /\ open' = [open EXCEPT ![t] = TRUE]
      /\ began' = [began EXCEPT ![t] = n]
      /\ watched' = [watched EXCEPT ![t] = NotWatching]
      /\ changes' = [changes EXCEPT ![t] = Nothing]
      /\ reads' = [reads EXCEPT ![t] = {}]
      /\ entries' = entries /\ names' = names /\ file' = file /\ at' = at /\ batch' = batch
      /\ saved' = saved
  BY <1>0, Zenon DEF TxnInit, NextGeneration
<1>2. /\ TypeOK /\ GenerationsFresh /\ NoneYounger /\ (saved.cut \/ saved.image = file)
      /\ \A u \in Threads : ReadsWatched(u) /\ (~open[u] => changes[u] = Nothing)
  BY StlInvParts, Zenon
<1>3. /\ youngest \in Nat
      /\ \A p \in Places : entries[p].gen \in Int /\ entries[p].gen <= youngest
      /\ \A u \in Threads, p \in Places : watched[u][p] \in Int /\ watched[u][p] <= youngest
  BY <1>2, Generations, Zenon
<1>4. /\ open \in [Threads -> BOOLEAN] /\ began \in [Threads -> 0..MaxGenerations]
      /\ watched \in [Threads -> [Places -> Int]]
      /\ changes \in [Threads -> [Places -> Content \cup {Unchanged}]]
      /\ reads \in [Threads -> SUBSET (Places \X Content)]
  BY <1>2, Zenon DEF TypeOK
<1>5. /\ n \in Nat /\ youngest <= n /\ n \in 1..n
      /\ \A p \in Places : entries[p].gen # n
      /\ \A u \in Threads, p \in Places : watched[u][p] # n
  BY <1>0, <1>3, SMT
<1>6. /\ began'[t] = n /\ watched'[t] = NotWatching /\ changes'[t] = Nothing /\ reads'[t] = {}
      /\ \A u \in Threads : u # t => /\ open'[u] = open[u] /\ began'[u] = began[u]
                                     /\ watched'[u] = watched[u] /\ changes'[u] = changes[u]
                                     /\ reads'[u] = reads[u]
  BY <1>1, <1>4, Zenon
<1>7. \A u \in Threads, p \in Places : \/ watched'[u][p] = watched[u][p]
                                       \/ watched'[u][p] = Unwatched
  <2>1. \A p \in Places : NotWatching[p] = Unwatched
    BY Zenon DEF NotWatching
  <2> QED
    BY <1>6, <2>1, Zenon
<1>8. TypeOK'
  <2>1. youngest' \in 0..given' /\ given' \in 0..MaxGenerations /\ n \in 0..MaxGenerations
    <3>1. youngest \in 0..given /\ given \in 0..MaxGenerations
      BY <1>2, Zenon DEF TypeOK
    <3>2. MaxGenerations \in Nat
      BY DataAssumption, Zenon
    <3> QED
      BY <1>0, <1>1, <3>1, <3>2, SMT
  <2>2. open' \in [Threads -> BOOLEAN] /\ began' \in [Threads -> 0..MaxGenerations]
    BY <1>1, <1>4, <2>1, Zenon
  <2>3. /\ watched' \in [Threads -> [Places -> Int]]
        /\ changes' \in [Threads -> [Places -> Content \cup {Unchanged}]]
        /\ reads' \in [Threads -> SUBSET (Places \X Content)]
    BY <1>1, <1>4, EmptyOnes, Zenon DEF Changed
  <2> QED
    BY <1>1, <1>2, <2>1, <2>2, <2>3, Zenon DEF TypeOK
<1>9. /\ Fresh(n)'
      /\ \A g : Fresh(g) => Fresh(g)' /\ g # n
  <2>1. n # Unwatched
    BY <1>5, SMT DEF Unwatched
  <2>2. \A u \in Threads, p \in Places : watched'[u][p] # n
    BY <1>5, <1>7, <2>1, Zenon
  <2>3. Fresh(n)'
    BY <1>1, <1>5, <2>2, Zenon DEF Fresh
  <2>4. ASSUME NEW g, Fresh(g) PROVE Fresh(g)' /\ g # n
    <3>1. /\ \A p \in Places : entries[p].gen # g
          /\ \A u \in Threads, p \in Places : watched[u][p] # g
          /\ g \in 1..youngest
      BY <2>4, Zenon DEF Fresh
    <3>2. g # n /\ g \in 1..n /\ g # Unwatched
      BY <1>0, <1>3, <3>1, SMT DEF Unwatched
    <3>3. \A u \in Threads, p \in Places : watched'[u][p] # g
      BY <1>7, <3>1, <3>2, Zenon
    <3> QED
      BY <1>1, <3>1, <3>2, <3>3, Zenon DEF Fresh
  <2> QED
    BY <2>3, <2>4, Zenon
<1>10. GenerationsFresh'
  BY <1>1, <1>2, <1>6, <1>9, TakenByTxn, Zenon
<1>11. NoneYounger'
  BY <1>1, <1>2, <1>5, <1>7, NoneYoungerStays, Zenon
<1>12. ASSUME NEW u \in Threads PROVE ReadsWatched(u)'
  <2>1. CASE u = t
    BY <1>6, <2>1, ReadsClosed, Zenon
  <2>2. CASE u # t
    BY <1>1, <1>2, <1>6, <2>2, ReadsKept, Zenon
  <2> QED
    BY <2>1, <2>2, Zenon
<1>13. \A u \in Threads : ~open'[u] => changes'[u] = Nothing
  BY <1>2, <1>6, Zenon
<1> QED
  BY <1>1, <1>2, <1>8, <1>10, <1>11, <1>12, <1>13, Zenon DEF StlInv

\* What closing a transaction keeps, whatever becomes of the entries: they stay,
\* or get a generation that nothing else has.
LEMMA TxnClosesKeeps ==
    ASSUME StlInv, NEW t \in Threads, TxnCloses(t), NEW n, n \in 1..youngest,
           youngest' = youngest, at[t] = "ready",
           entries' \in [Places -> Entry],
           \A p \in Places : entries'[p] = entries[p] \/ entries'[p].gen = n,
           \A u \in Threads, p \in Places : u # t /\ entries'[p] # entries[p] => watched[u][p] # n,
           \A u \in Threads : u # t /\ open[u] /\ began[u] = n => entries' = entries,
           \A u \in Threads : at[u] = "writing" /\ batch[u].gen = n => entries' = entries,
           given' = given, names' = names, file' = file, batch' = batch, saved' = saved,
           at' \in [Threads -> {"ready", "writing", "saving"}],
           \A u \in Threads : u # t => at'[u] = at[u], at'[t] # "writing",
           at'[t] = "saving" => Unlocked
    PROVE  StlInv'
<1>1. /\ open' = [open EXCEPT ![t] = FALSE]
      /\ began' = [began EXCEPT ![t] = 0]
      /\ watched' = [watched EXCEPT ![t] = NotWatching]
      /\ changes' = [changes EXCEPT ![t] = Nothing]
      /\ reads' = [reads EXCEPT ![t] = {}]
  BY Zenon DEF TxnCloses
<1>2. /\ TypeOK /\ GenerationsFresh /\ NoneYounger /\ (saved.cut \/ saved.image = file)
      /\ \A u \in Threads : ReadsWatched(u) /\ (~open[u] => changes[u] = Nothing)
  BY StlInvParts, Zenon
<1>3. /\ open \in [Threads -> BOOLEAN] /\ began \in [Threads -> 0..MaxGenerations]
      /\ watched \in [Threads -> [Places -> Int]]
      /\ changes \in [Threads -> [Places -> Content \cup {Unchanged}]]
      /\ reads \in [Threads -> SUBSET (Places \X Content)]
  BY <1>2, Zenon DEF TypeOK
<1>4. youngest \in Nat /\ youngest <= youngest
  <2>1. youngest \in Nat
    BY <1>2, Generations, Zenon
  <2> QED
    BY <2>1, SMT
<1>5. /\ open'[t] = FALSE /\ watched'[t] = NotWatching /\ changes'[t] = Nothing /\ reads'[t] = {}
      /\ \A u \in Threads : u # t => /\ open'[u] = open[u] /\ began'[u] = began[u]
                                     /\ watched'[u] = watched[u] /\ changes'[u] = changes[u]
                                     /\ reads'[u] = reads[u]
  BY <1>1, <1>3, Zenon
<1>6. \A u \in Threads, p \in Places : \/ watched'[u][p] = watched[u][p]
                                       \/ watched'[u][p] = Unwatched
  <2>1. \A p \in Places : NotWatching[p] = Unwatched
    BY Zenon DEF NotWatching
  <2> QED
    BY <1>5, <2>1, Zenon
<1>7. TypeOK'
  <2>1. 0 \in 0..MaxGenerations
    <3>1. MaxGenerations \in Nat
      BY DataAssumption, Zenon
    <3> QED
      BY <3>1, SMT
  <2>2. open' \in [Threads -> BOOLEAN] /\ began' \in [Threads -> 0..MaxGenerations]
    BY <1>1, <1>3, <2>1, Zenon
  <2>3. /\ watched' \in [Threads -> [Places -> Int]]
        /\ changes' \in [Threads -> [Places -> Content \cup {Unchanged}]]
        /\ reads' \in [Threads -> SUBSET (Places \X Content)]
    BY <1>1, <1>3, EmptyOnes, Zenon DEF Changed
  <2>4. \A u, v \in Threads : at'[u] = "saving" /\ at'[v] = "saving" => u = v
    <3>1. \A u, v \in Threads : at[u] = "saving" /\ at[v] = "saving" => u = v
      BY <1>2, Zenon DEF TypeOK
    <3>2. CASE at'[t] = "saving"
      <4>1. \A u \in Threads : at[u] # "saving"
        BY <3>2, Zenon DEF Unlocked
      <4> QED
        BY <4>1, Zenon
    <3>3. CASE at'[t] # "saving"
      <4>1. \A u \in Threads : at'[u] = "saving" => at[u] = "saving"
        BY <3>3, Zenon
      <4> QED
        BY <3>1, <4>1, Zenon
    <3> QED
      BY <3>2, <3>3, Zenon
  <2> QED
    BY <1>2, <2>2, <2>3, <2>4, Zenon DEF TypeOK
<1>8. ASSUME NEW g, Fresh(g), g # n \/ entries' = entries PROVE Fresh(g)'
  <2>1. /\ \A p \in Places : entries[p].gen # g
        /\ \A u \in Threads, p \in Places : watched[u][p] # g
        /\ g \in 1..youngest
    BY <1>8, Zenon DEF Fresh
  <2>2. g # Unwatched
    BY <1>4, <2>1, SMT DEF Unwatched
  <2>3. \A u \in Threads, p \in Places : watched'[u][p] # g
    BY <1>6, <2>1, <2>2, ZenonT(60)
  <2>4. \A p \in Places : entries'[p].gen # g
    <3>1. \A p \in Places : entries'[p].gen = entries[p].gen \/ (entries'[p].gen = n /\ g # n)
      BY <1>8, Zenon
    <3> QED
      BY <2>1, <3>1, Zenon
  <2> QED
    BY <2>1, <2>3, <2>4, Zenon DEF Fresh
<1>9. GenerationsFresh'
  <2>1. ASSUME NEW u \in Threads, NEW g, at'[u] = "writing", batch'[u].gen = g
        PROVE  at[u] = "writing" /\ batch[u].gen = g /\ Fresh(g)'
    <3>1. u # t
      BY <2>1, Zenon
    <3>2. at[u] = "writing" /\ batch[u].gen = g
      BY <2>1, <3>1, Zenon
    <3>3. Fresh(g)
      BY <1>2, <3>2, Zenon DEF GenerationsFresh
    <3>4. g # n \/ entries' = entries
      BY <3>2, Zenon
    <3> QED
      BY <1>8, <3>2, <3>3, <3>4, Zenon
  <2>2. ASSUME NEW u \in Threads, NEW g, open'[u], began'[u] = g
        PROVE  open[u] /\ began[u] = g /\ Fresh(g)'
    <3>1. u # t
      BY <1>5, <2>2, Zenon
    <3>2. open[u] /\ began[u] = g
      BY <1>5, <2>2, <3>1, Zenon
    <3>3. Fresh(g)
      BY <1>2, <3>2, Zenon DEF GenerationsFresh
    <3>4. g # n \/ entries' = entries
      BY <3>1, <3>2, Zenon
    <3> QED
      BY <1>8, <3>2, <3>3, <3>4, Zenon
  <2> QED
    BY <1>2, <2>1, <2>2, TakenStayFresh, Zenon
<1>10. NoneYounger'
  <2>1. n \in 0..youngest
    BY <1>4, SMT
  <2>2. \A p \in Places : entries'[p] = entries[p] \/ entries'[p].gen \in 0..youngest'
    BY <2>1, Zenon
  <2> QED
    BY <1>2, <1>4, <1>6, <2>2, NoneYoungerStays, Zenon
<1>11. ASSUME NEW u \in Threads PROVE ReadsWatched(u)'
  <2>1. CASE u = t
    BY <1>5, <2>1, ReadsClosed, Zenon
  <2>2. CASE u # t
    <3>1. \A p \in Places : entries'[p] = entries[p] \/ entries'[p].gen # watched[u][p]
      BY <2>2, Zenon
    <3> QED
      BY <1>2, <1>5, <2>2, <3>1, ReadsKept, Zenon
  <2> QED
    BY <2>1, <2>2, Zenon
<1>12. \A u \in Threads : ~open'[u] => changes'[u] = Nothing
  BY <1>2, <1>5, Zenon
<1> QED
  BY <1>2, <1>7, <1>9, <1>10, <1>11, <1>12, Zenon DEF StlInv

LEMMA TxnFreeKeeps ==
    ASSUME StlInv, NEW t \in Threads, TxnFree(t)
    PROVE  StlInv'
<1>0. PICK n : n = began[t]
  OBVIOUS
<1>1. /\ at[t] = "ready" /\ open[t] /\ TxnCloses(t)
      /\ entries' = entries /\ youngest' = youngest /\ given' = given /\ names' = names
      /\ file' = file /\ at' = at /\ batch' = batch /\ saved' = saved
  BY Zenon DEF TxnFree
<1>2. TypeOK /\ GenerationsFresh
  BY StlInvParts, Zenon
<1>3. n \in 1..youngest
  BY <1>0, <1>1, <1>2, Zenon DEF GenerationsFresh, Fresh
<1>4. /\ entries' \in [Places -> Entry] /\ at' \in [Threads -> {"ready", "writing", "saving"}]
  BY <1>1, <1>2, Zenon DEF TypeOK
<1>5. at'[t] # "writing" /\ at'[t] # "saving"
  BY <1>1
<1> QED
  BY <1>1, <1>3, <1>4, <1>5, TxnClosesKeeps, Zenon

LEMMA TxnCommitKeeps ==
    ASSUME StlInv, NEW t \in Threads, NEW flush \in BOOLEAN, TxnCommit(t, flush)
    PROVE  StlInv'
<1>0. PICK n : n = began[t]
  OBVIOUS
<1>1. /\ at[t] = "ready" /\ open[t] /\ Unlocked /\ TxnCloses(t)
      /\ entries' = Merged(changes[t], n)
      /\ at' = [at EXCEPT ![t] = IF flush THEN "saving" ELSE "ready"]
      /\ youngest' = youngest /\ given' = given /\ names' = names
      /\ file' = file /\ batch' = batch /\ saved' = saved
  BY <1>0, Zenon DEF TxnCommit
<1>2. TypeOK /\ GenerationsFresh
  BY StlInvParts, Zenon
<1>3. n \in 1..youngest /\ \A u \in Threads, p \in Places : watched[u][p] # n
  BY <1>0, <1>1, <1>2, Zenon DEF GenerationsFresh, Fresh
<1>4. /\ \A u \in Threads : u # t /\ open[u] => began[u] # n
      /\ \A u \in Threads : at[u] = "writing" => batch[u].gen # n
  BY <1>0, <1>1, <1>2, Zenon DEF GenerationsFresh
<1>5. \A p \in Places : entries'[p] = entries[p] \/ entries'[p].gen = n
  BY <1>1, Zenon DEF Merged
<1>6. at \in [Threads -> {"ready", "writing", "saving"}] /\ changes[t] \in Changed
  BY <1>2, Zenon DEF TypeOK, Changed
<1>7. /\ at' \in [Threads -> {"ready", "writing", "saving"}]
      /\ at'[t] # "writing"
      /\ \A u \in Threads : u # t => at'[u] = at[u]
  BY <1>1, <1>6, SMT
<1>8. entries' \in [Places -> Entry]
  <2>1. n \in Int
    BY <1>3, SMT
  <2> QED
    BY <1>1, <1>2, <1>6, <2>1, MergedTyped, Zenon
<1>9. /\ \A u \in Threads, p \in Places : u # t /\ entries'[p] # entries[p] => watched[u][p] # n
      /\ \A u \in Threads : u # t /\ open[u] /\ began[u] = n => entries' = entries
      /\ \A u \in Threads : at[u] = "writing" /\ batch[u].gen = n => entries' = entries
  BY <1>3, <1>4, Zenon
<1>10. n \in 1..youngest /\ (at'[t] = "saving" => Unlocked)
  BY <1>1, <1>3, Zenon
<1> HIDE DEF TxnCommit, StlInv
<1> QED
  BY <1>1, <1>5, <1>7, <1>8, <1>9, <1>10, TxnClosesKeeps, Zenon

LEMMA SaveEndsKeeps ==
    ASSUME StlInv, NEW t \in Threads, SaveEnds(t)
    PROVE  StlInv'
<1>1. /\ at[t] = "saving" /\ file' = Image /\ saved' = Complete
      /\ at' = [at EXCEPT ![t] = "ready"]
      /\ entries' = entries /\ youngest' = youngest /\ given' = given /\ names' = names
      /\ batch' = batch /\ UNCHANGED txn
  BY Zenon DEF SaveEnds
<1>2. open' = open /\ began' = began /\ watched' = watched /\ changes' = changes /\ reads' = reads
  BY <1>1, Zenon DEF txn
<1>3. TypeOK /\ GenerationsFresh /\ NoneYounger
  BY StlInvParts, Zenon
<1>4. at \in [Threads -> {"ready", "writing", "saving"}]
  BY <1>3, Zenon DEF TypeOK
<1>5. at'[t] = "ready" /\ \A u \in Threads : u # t => at'[u] = at[u]
  BY <1>1, <1>4, Zenon
<1>6. TypeOK'
  <2>1. file' \in [entries : [Places -> Content], names : NameTables]
    BY <1>1, <1>3, ImageTyped, Zenon
  <2>2. file'.names[Main] = NoName
    <3>1. file'.names = names
      BY <1>1, Zenon DEF Image
    <3> QED
      BY <1>3, <3>1, Zenon DEF TypeOK
  <2>3. at' \in [Threads -> {"ready", "writing", "saving"}]
    BY <1>1, <1>4, Zenon
  <2>4. \A u, v \in Threads : at'[u] = "saving" /\ at'[v] = "saving" => u = v
    <3>1. \A u \in Threads : at'[u] = "saving" => at[u] = "saving"
      BY <1>1, <1>5, Zenon
    <3> QED
      BY <1>3, <3>1, Zenon DEF TypeOK
  <2> QED
    BY <1>1, <1>2, <1>3, <2>1, <2>2, <2>3, <2>4, Zenon DEF TypeOK
<1>7. GenerationsFresh'
  <2>1. ASSUME NEW g, Fresh(g) PROVE Fresh(g)'
    BY <1>1, <1>2, <2>1, Zenon DEF Fresh
  <2>2. ASSUME NEW u \in Threads, NEW g, at'[u] = "writing", batch'[u].gen = g
        PROVE  at[u] = "writing" /\ batch[u].gen = g /\ Fresh(g)'
    <3>1. u # t
      BY <1>5, <2>2
    <3>2. at[u] = "writing" /\ batch[u].gen = g
      BY <1>1, <1>5, <2>2, <3>1, Zenon
    <3> QED
      BY <1>3, <2>1, <3>2, Zenon DEF GenerationsFresh
  <2>3. ASSUME NEW u \in Threads, NEW g, open'[u], began'[u] = g
        PROVE  open[u] /\ began[u] = g /\ Fresh(g)'
    <3>1. open[u] /\ began[u] = g
      BY <1>2, <2>3, Zenon
    <3> QED
      BY <1>3, <2>1, <3>1, Zenon DEF GenerationsFresh
  <2> QED
    BY <1>3, <2>2, <2>3, TakenStayFresh, Zenon
<1>8. NoneYounger'
  BY <1>1, <1>2, <1>3, Zenon DEF NoneYounger
<1>9. \A u \in Threads : ReadsWatched(u)' /\ (~open'[u] => changes'[u] = Nothing)
  BY <1>1, TxnsAlone, Zenon
<1>10. saved'.cut \/ saved'.image = file'
  BY <1>1, Zenon DEF Image, Complete
<1> QED
  BY <1>6, <1>7, <1>8, <1>9, <1>10, Zenon DEF StlInv

\* A new process finds what it is given, and nothing is open in it.
LEMMA OpensKeeps ==
    ASSUME StlInv, NEW f, Opens(f), file' = f, saved'.cut \/ saved'.image = f,
           f \in [entries : [Places -> Content], names : NameTables], f.names[Main] = NoName
    PROVE  StlInv'
<1>1. /\ entries' = EntriesRead(f) /\ names' = NamesRead(f) /\ youngest' = 0 /\ given' = given
      /\ at' = [t \in Threads |-> "ready"]
      /\ batch' = [t \in Threads |-> NoBatch]
      /\ open' = [t \in Threads |-> FALSE]
      /\ began' = [t \in Threads |-> 0]
      /\ watched' = [t \in Threads |-> NotWatching]
      /\ changes' = [t \in Threads |-> Nothing]
      /\ reads' = [t \in Threads |-> {}]
  BY Zenon DEF Opens
<1>2. TypeOK
  BY StlInvParts, Zenon
<1>3. \A t \in Threads : /\ at'[t] = "ready" /\ open'[t] = FALSE /\ watched'[t] = NotWatching
                         /\ changes'[t] = Nothing /\ reads'[t] = {}
  BY <1>1, Zenon
<1>4. TypeOK'
  <2>1. entries' \in [Places -> Entry] /\ names' \in NameTables
    BY <1>1, ReadTyped, Zenon
  <2>2. given \in 0..MaxGenerations
    BY <1>2, Zenon DEF TypeOK
  <2>3. youngest' \in 0..given' /\ given' \in 0..MaxGenerations /\ 0 \in 0..MaxGenerations
    <3>1. MaxGenerations \in Nat
      BY DataAssumption, Zenon
    <3> QED
      BY <1>1, <2>2, <3>1, SMT
  <2>4. names'[Main] = NoName
    BY <1>1, DataAssumption, Zenon DEF NamesRead
  <2>5. at' \in [Threads -> {"ready", "writing", "saving"}] /\ batch' \in [Threads -> Batch]
    BY <1>1, EmptyOnes, Zenon
  <2>6. open' \in [Threads -> BOOLEAN] /\ began' \in [Threads -> 0..MaxGenerations]
    BY <1>1, <2>3, Zenon
  <2>7. /\ watched' \in [Threads -> [Places -> Int]]
        /\ changes' \in [Threads -> [Places -> Content \cup {Unchanged}]]
        /\ reads' \in [Threads -> SUBSET (Places \X Content)]
    BY <1>1, EmptyOnes, Zenon DEF Changed
  <2>8. \A t, u \in Threads : at'[t] = "saving" /\ at'[u] = "saving" => t = u
    BY <1>3
  <2> QED
    BY <2>1, <2>3, <2>4, <2>5, <2>6, <2>7, <2>8, Zenon DEF TypeOK
<1>5. GenerationsFresh'
  <2>1. \A t \in Threads : at'[t] # "writing" /\ ~open'[t]
    BY <1>3
  <2> QED
    BY <2>1, Zenon DEF GenerationsFresh
<1>6. NoneYounger'
  <2>1. ASSUME NEW p \in Places
        PROVE  /\ entries'[p].gen \in NoGeneration..youngest'
               /\ entries'[p].gen = NoGeneration => entries'[p].val = Missing
    <3>1. entries'[p] = NoEntry \/ entries'[p].gen = 0
      BY <1>1, EntryRead, Zenon
    <3>2. NoEntry.gen = NoGeneration /\ NoEntry.val = Missing
      BY Zenon DEF NoEntry
    <3>3. /\ NoGeneration \in NoGeneration..youngest' /\ 0 \in NoGeneration..youngest'
          /\ 0 # NoGeneration
      BY <1>1, SMT DEF NoGeneration
    <3> QED
      BY <3>1, <3>2, <3>3, Zenon
  <2>2. ASSUME NEW t \in Threads, NEW p \in Places
        PROVE  watched'[t][p] <= youngest'
    <3>1. watched'[t][p] = Unwatched
      BY <1>3, ZenonT(60) DEF NotWatching
    <3> QED
      BY <1>1, <3>1, SMT DEF Unwatched
  <2> QED
    BY <2>1, <2>2, Zenon DEF NoneYounger
<1>7. \A t \in Threads : ReadsWatched(t)' /\ (~open'[t] => changes'[t] = Nothing)
  BY <1>3, ReadsClosed, Zenon
<1> QED
  BY <1>4, <1>5, <1>6, <1>7, Zenon DEF StlInv

LEMMA CrashKeeps ==
    ASSUME StlInv, Crash
    PROVE  StlInv'
<1>0. PICK f : f = file'
  OBVIOUS
<1>1. /\ f \in IF Unlocked THEN {file} ELSE Cuts
      /\ saved' = [image |-> saved.image, cut |-> saved.cut \/ ~Unlocked]
      /\ Opens(f)
  <2>1. /\ file' \in IF Unlocked THEN {file} ELSE Cuts
        /\ saved' = [image |-> saved.image, cut |-> saved.cut \/ ~Unlocked]
        /\ Opens(file')
    BY Zenon DEF Crash
  <2> QED
    BY <1>0, <2>1, Zenon DEF Opens
<1>2. TypeOK /\ (saved.cut \/ saved.image = file)
  BY StlInvParts, Zenon
<1>3. saved'.cut \/ saved'.image = f
  <2>1. saved'.image = saved.image /\ saved'.cut = (saved.cut \/ ~Unlocked)
    BY <1>1, Zenon
  <2> QED
    BY <1>1, <1>2, <2>1, Zenon
<1>4. f \in [entries : [Places -> Content], names : NameTables]
  <2>1. file \in [entries : [Places -> Content], names : NameTables]
    BY <1>2, Zenon DEF TypeOK
  <2> QED
    BY <1>1, <1>2, <2>1, CutsTyped, Zenon
<1>5. f.names[Main] = NoName
  <2>1. file.names[Main] = NoName /\ names[Main] = NoName /\ Main \in Collections
    BY <1>2, DataAssumption, Zenon DEF TypeOK
  <2>2. ASSUME NEW g \in Cuts PROVE g.names[Main] = NoName
    <3>1. \/ \E S \in SUBSET Collections :
                g.names = [c \in Collections |-> IF c \in S THEN names[c] ELSE NoName]
          \/ g.names = names
      <4>1. \/ \E S \in SUBSET Collections :
                  g = [entries |-> [p \in Places |-> Missing],
                       names |-> [c \in Collections |-> IF c \in S THEN names[c] ELSE NoName]]
            \/ \E q \in Places :
                  g = [entries |-> [p \in Places |-> IF Before(p, q) THEN Contents[p] ELSE Missing],
                       names |-> names]
        BY <2>2, Zenon DEF Cuts
      <4> QED
        BY <4>1
    <3> QED
      BY <2>1, <3>1, Zenon
  <2> QED
    BY <1>1, <2>1, <2>2, Zenon
<1> QED
  BY <1>0, <1>1, <1>3, <1>4, <1>5, OpensKeeps, Zenon

LEMMA DatabaseFreeKeeps ==
    ASSUME StlInv, DatabaseFree
    PROVE  StlInv'
<1>0. PICK f : f = Image
  OBVIOUS
<1>1. file' = f /\ saved'.image = f /\ Opens(f)
  <2>1. file' = Image /\ saved' = Complete /\ Opens(file')
    BY Zenon DEF DatabaseFree
  <2>2. Complete.image = Image
    BY Zenon DEF Complete, Image
  <2> QED
    BY <1>0, <2>1, <2>2, Zenon DEF Opens
<1>2. TypeOK
  BY StlInvParts, Zenon
<1>3. f \in [entries : [Places -> Content], names : NameTables]
  BY <1>0, <1>2, ImageTyped, Zenon
<1>4. f.names[Main] = NoName
  <2>1. f.names = names
    BY <1>0, Zenon DEF Image
  <2> QED
    BY <1>2, <2>1, Zenon DEF TypeOK
<1> QED
  BY <1>1, <1>3, <1>4, OpensKeeps, Zenon

LEMMA StlInvInit == Init => StlInv
<1> SUFFICES ASSUME Init PROVE StlInv
  OBVIOUS
<1>1. /\ entries = [p \in Places |-> NoEntry]
      /\ youngest = 0 /\ given = 0
      /\ names = [c \in Collections |-> NoName]
      /\ file = [entries |-> [p \in Places |-> Missing], names |-> [c \in Collections |-> NoName]]
      /\ at = [t \in Threads |-> "ready"]
      /\ batch = [t \in Threads |-> NoBatch]
      /\ open = [t \in Threads |-> FALSE]
      /\ began = [t \in Threads |-> 0]
      /\ watched = [t \in Threads |-> NotWatching]
      /\ changes = [t \in Threads |-> Nothing]
      /\ reads = [t \in Threads |-> {}]
  BY Zenon DEF Init, NoBatch
<1>7. saved.image = file
  BY Zenon DEF Init
<1>2. MaxGenerations \in Nat /\ Main \in Collections
  BY DataAssumption, Zenon
<1>3. TypeOK
  <2>1. entries \in [Places -> Entry] /\ names \in NameTables /\ names[Main] = NoName
    BY <1>1, <1>2, EmptyOnes, Zenon DEF NameTables
  <2>2. youngest \in 0..given /\ given \in 0..MaxGenerations /\ 0 \in 0..MaxGenerations
    BY <1>1, <1>2, SMT
  <2>3. /\ file \in [entries : [Places -> Content], names : NameTables]
        /\ file.names[Main] = NoName
    BY <1>1, <1>2, EmptyOnes, Zenon DEF NameTables
  <2>4. at \in [Threads -> {"ready", "writing", "saving"}] /\ batch \in [Threads -> Batch]
    BY <1>1, EmptyOnes, Zenon
  <2>5. open \in [Threads -> BOOLEAN] /\ began \in [Threads -> 0..MaxGenerations]
    BY <1>1, <2>2, Zenon
  <2>6. /\ watched \in [Threads -> [Places -> Int]]
        /\ changes \in [Threads -> [Places -> Content \cup {Unchanged}]]
        /\ reads \in [Threads -> SUBSET (Places \X Content)]
    BY <1>1, EmptyOnes, Zenon DEF Changed
  <2>7. \A t, u \in Threads : at[t] = "saving" /\ at[u] = "saving" => t = u
    BY <1>1
  <2> QED
    BY <2>1, <2>2, <2>3, <2>4, <2>5, <2>6, <2>7, Zenon DEF TypeOK
<1>4. GenerationsFresh
  <2>1. \A t \in Threads : at[t] # "writing" /\ ~open[t]
    BY <1>1
  <2> QED
    BY <2>1, Zenon DEF GenerationsFresh
<1>5. NoneYounger
  <2>1. \A p \in Places : entries[p].gen = NoGeneration /\ entries[p].val = Missing
    BY <1>1, Zenon DEF NoEntry
  <2>2. \A t \in Threads, p \in Places : watched[t][p] = Unwatched
    BY <1>1, Zenon DEF NotWatching
  <2> QED
    BY <1>1, <2>1, <2>2, SMT DEF NoneYounger, NoGeneration, Unwatched
<1>6. \A t \in Threads : ReadsWatched(t) /\ (~open[t] => changes[t] = Nothing)
  <2>1. \A t \in Threads : reads[t] = {} /\ changes[t] = Nothing
    BY <1>1, Zenon
  <2>2. \A t \in Threads, p \in Places : watched[t][p] = Unwatched
    BY <1>1, Zenon DEF NotWatching
  <2> QED
    BY <2>1, <2>2, Zenon DEF ReadsWatched
<1> QED
  BY <1>3, <1>4, <1>5, <1>6, <1>7, Zenon DEF StlInv

LEMMA StlInvNext == StlInv /\ [Next]_vars => StlInv'
<1> SUFFICES ASSUME StlInv, [Next]_vars PROVE StlInv'
  OBVIOUS
<1>1. CASE \E t \in Threads : \E b \in Batches, flag \in BOOLEAN :
              WriteStarts(t, b, flag) \/ TxnWrite(t, b, flag)
  BY <1>1, WriteStartsKeeps, TxnWriteKeeps, Zenon
<1>2. CASE \E t \in Threads : WriteMerges(t)
  BY <1>2, WriteMergesKeeps, Zenon
<1>3. CASE \E t \in Threads : \E p \in Places, watch \in BOOLEAN : TxnRead(t, p, watch)
  BY <1>3, TxnReadKeeps, Zenon
<1>4. CASE \E t \in Threads : \E n \in Names, c \in Collections : CollectionCreate(t, n, c)
  BY <1>4, CollectionCreateKeeps, Zenon
<1>5. CASE \E t \in Threads : \E c \in Collections, handle \in BOOLEAN : CollectionDrop(t, c, handle)
  BY <1>5, CollectionDropKeeps, Zenon
<1>6. CASE \E t \in Threads : \E c \in Collections : CollectionDropVals(t, c)
  BY <1>6, CollectionDropValsKeeps, Zenon
<1>7. CASE \E t \in Threads : TxnInit(t) \/ TxnFree(t)
  BY <1>7, TxnInitKeeps, TxnFreeKeeps, Zenon
<1>8. CASE \E t \in Threads : \E flush \in BOOLEAN : TxnCommit(t, flush)
  BY <1>8, TxnCommitKeeps, Zenon
<1>9. CASE \E t \in Threads : SaveEnds(t)
  BY <1>9, SaveEndsKeeps, Zenon
<1>10. CASE Crash \/ DatabaseFree
  BY <1>10, CrashKeeps, DatabaseFreeKeeps, Zenon
<1>11. CASE UNCHANGED vars
  <2>1. /\ entries' = entries /\ youngest' = youngest /\ given' = given /\ names' = names
        /\ file' = file /\ at' = at /\ batch' = batch /\ open' = open /\ began' = began
        /\ watched' = watched /\ changes' = changes /\ reads' = reads /\ saved' = saved
    BY <1>11, Zenon DEF vars
  <2>2. /\ TypeOK /\ GenerationsFresh /\ NoneYounger /\ (saved.cut \/ saved.image = file)
    BY StlInvParts, Zenon
  <2>3. TypeOK'
    BY <2>1, <2>2, Zenon DEF TypeOK
  <2>4. GenerationsFresh'
    BY <2>1, <2>2, WatchesKeepFresh, Zenon
  <2>5. NoneYounger'
    BY <2>1, <2>2, Zenon DEF NoneYounger
  <2>6. UNCHANGED txn
    BY <2>1, Zenon DEF txn
  <2>7. \A u \in Threads : ReadsWatched(u)' /\ (~open'[u] => changes'[u] = Nothing)
    BY <2>1, <2>6, TxnsAlone, Zenon
  <2> QED
    BY <2>1, <2>2, <2>3, <2>4, <2>5, <2>7, Zenon DEF StlInv
<1> QED
  BY <1>1, <1>2, <1>3, <1>4, <1>5, <1>6, <1>7, <1>8, <1>9, <1>10, <1>11, Zenon DEF Next

LEMMA StlInvariance == Spec => []StlInv
BY StlInvInit, StlInvNext, PTL DEF Spec

-----------------------------------------------------------------------------
(* What follows.                                                            *)

\* Entries, names, files and transactions keep their types, whatever is written,
\* read, created, dropped, committed, saved or cut off.
THEOREM StlTypeCorrect == Spec => []TypeOK
<1>1. StlInv => TypeOK
  BY Zenon DEF StlInv
<1> QED
  BY <1>1, StlInvariance, PTL

\* The generations that ukv_transaction_commit compares stand for the values: a
\* transaction commits only if what it read first under watch, and did not
\* write, is there again, since no generation is given to two writes.
THEOREM CommitsStayFresh == Spec => CommitsFresh
<1>1. ASSUME StlInv, NEW t \in Threads, NEW flush \in BOOLEAN, TxnCommit(t, flush),
             NEW r \in reads[t], changes[t][r[1]] = Unchanged
      PROVE  Contents[r[1]] = r[2]
  <2>1. reads[t] \in SUBSET (Places \X Content)
    BY <1>1, Zenon DEF StlInv, TypeOK
  <2>2. r[1] \in Places
    BY <2>1, SMT
  <2>3. watched[t][r[1]] = Unwatched \/ watched[t][r[1]] = entries[r[1]].gen
    BY <1>1, <2>2, Zenon DEF TxnCommit
  <2>4. /\ watched[t][r[1]] # Unwatched
        /\ entries[r[1]].gen = watched[t][r[1]] => entries[r[1]].val = r[2]
    BY <1>1, Zenon DEF StlInv, ReadsWatched
  <2>5. entries[r[1]].val = r[2]
    BY <2>3, <2>4, Zenon
  <2> QED
    BY <2>2, <2>5, Zenon DEF Contents
<1> DEFINE A == \A t \in Threads, flush \in BOOLEAN : TxnCommit(t, flush) =>
                   \A r \in reads[t] : changes[t][r[1]] = Unchanged => Contents[r[1]] = r[2]
<1>2. StlInv /\ [Next]_vars => [A]_vars
  BY <1>1, Zenon
<1> QED
  BY <1>2, StlInvariance, PTL DEF Spec, CommitsFresh

\* A file shows a place as it is, or not at all, even one that is cut off.
LEMMA CutsShow ==
    ASSUME NEW f, f \in Cuts \/ f = Image, NEW p \in Places
    PROVE  f.entries[p] \in {Missing, Contents[p]}
<1>1. CASE f = Image
  BY <1>1, Zenon DEF Image
<1>2. CASE f \in Cuts
  <2>1. \/ \E S \in SUBSET Collections :
              f = [entries |-> [q \in Places |-> Missing],
                   names |-> [c \in Collections |-> IF c \in S THEN names[c] ELSE NoName]]
        \/ \E r \in Places :
              f = [entries |-> [q \in Places |-> IF Before(q, r) THEN Contents[q] ELSE Missing],
                   names |-> names]
    BY <1>2, Zenon DEF Cuts
  <2>2. ASSUME NEW S \in SUBSET Collections,
               f = [entries |-> [q \in Places |-> Missing],
                    names |-> [c \in Collections |-> IF c \in S THEN names[c] ELSE NoName]]
        PROVE  f.entries[p] = Missing
    BY <2>2, Zenon
  <2>3. ASSUME NEW r \in Places,
               f = [entries |-> [q \in Places |-> IF Before(q, r) THEN Contents[q] ELSE Missing],
                    names |-> names]
        PROVE  f.entries[p] \in {Missing, Contents[p]}
    BY <2>3, Zenon
  <2> QED
    BY <2>1, <2>2, <2>3, Zenon
<1> QED
  BY <1>1, <1>2

\* What a new process reads from a file: its blobs but the empty ones, and the
\* names with a colon behind them.
LEMMA OpensFinds ==
    ASSUME NEW f \in [entries : [Places -> Content], names : NameTables], Opens(f)
    PROVE  /\ \A p \in Places :
                 Contents'[p] = IF f.entries[p] = EmptyValue THEN Missing ELSE f.entries[p]
           /\ \A c \in Collections :
                 f.names[c] # NoName =>
                     \E item \in CollectionList' : item[1][1] = f.names[c][1]
<1>1. entries' = EntriesRead(f) /\ names' = NamesRead(f)
  BY Zenon DEF Opens
<1>2. ASSUME NEW p \in Places
      PROVE  Contents'[p] = IF f.entries[p] = EmptyValue THEN Missing ELSE f.entries[p]
  <2>1. Contents'[p] = EntriesRead(f)[p].val
    BY <1>1, Zenon DEF Contents
  <2> QED
    BY <2>1, EntryRead, Zenon
<1>3. ASSUME NEW c \in Collections, NEW n, names'[c] = <<n, 1>>
      PROVE  \E item \in CollectionList' : item[1][1] = n
  <2>1. names'[c] # NoName
    BY <1>3, SMT DEF NoName
  <2>2. <<names'[c], c>> \in CollectionList'
    BY <2>1, Zenon DEF CollectionList
  <2>3. <<names'[c], c>>[1][1] = n
    BY <1>3, SMT
  <2> QED
    BY <2>2, <2>3, Zenon
<1>4. ASSUME NEW c \in Collections, f.names[c] # NoName
      PROVE  \E item \in CollectionList' : item[1][1] = f.names[c][1]
  <2>1. f.names \in NameTables
    BY Zenon
  <2>2. f.names[c] \in Names \X {0, 1}
    BY <1>4, <2>1, Zenon DEF NameTables
  <2>3. f.names[c][1] \in Names
    BY <2>2, SMT
  <2>4. CASE \E d \in Collections : f.names[d] = <<f.names[c][1], 0>>
    <3>1. PICK d \in Collections : f.names[d] = <<f.names[c][1], 0>>
      BY <2>4, Zenon
    <3>2. f.names[d][1] = f.names[c][1] /\ f.names[d][2] = 0 /\ f.names[d][2] # 1
      BY <3>1, SMT
    <3>3. f.names[d] # NoName
      <4>1. "" \notin Names
        BY DataAssumption, Zenon
      <4>2. NoName[1] = ""
        BY Zenon DEF NoName
      <4> QED
        BY <2>3, <3>2, <4>1, <4>2, Zenon
    <3>4. names'[d] = <<f.names[c][1], 1>>
      BY <1>1, <3>2, <3>3, Zenon DEF NamesRead
    <3> QED
      BY <1>3, <3>4, Zenon
  <2>5. CASE ~\E d \in Collections : f.names[d] = <<f.names[c][1], 0>>
    <3>1. names'[c] = <<f.names[c][1], 1>>
      BY <1>1, <1>4, <2>5, Zenon DEF NamesRead
    <3> QED
      BY <1>3, <3>1, Zenon
  <2> QED
    BY <2>4, <2>5, Zenon
<1> QED
  BY <1>2, <1>4, Zenon

\* After a restart, orderly or not, the last complete save is there: every blob
\* but the empty ones, which load as deleted, and a name for every collection
\* that had one, whatever of two equal names is kept.  A crash during a save
\* loses the save before; what is left then are pairs of that moment.
THEOREM RestartsKeep == Spec => RestartKeeps
<1> DEFINE Blobs == \A p \in Places :
                Contents'[p] = IF saved'.image.entries[p] = EmptyValue THEN Missing
                               ELSE saved'.image.entries[p]
           Named == \A c \in Collections :
                saved'.image.names[c] # NoName =>
                    \E item \in CollectionList' : item[1][1] = saved'.image.names[c][1]
           Rest == ~Unlocked => \A p \in Places : Contents'[p] \in {Missing, Contents[p]}
           A == Crash \/ DatabaseFree => (~saved'.cut => Blobs /\ Named) /\ Rest
<1>1. ASSUME StlInv, Crash \/ DatabaseFree
      PROVE  A
  <2>1. StlInv' /\ Opens(file')
    BY <1>1, CrashKeeps, DatabaseFreeKeeps, Zenon DEF Crash, DatabaseFree
  <2>2. PICK f : f = file'
    OBVIOUS
  <2>3. /\ f \in [entries : [Places -> Content], names : NameTables]
        /\ saved'.cut \/ saved'.image = f
    BY <2>1, <2>2, Zenon DEF StlInv, TypeOK
  <2>4. Opens(f)
    BY <2>1, <2>2, Zenon DEF Opens
  <2>5. /\ \A p \in Places :
              Contents'[p] = IF f.entries[p] = EmptyValue THEN Missing ELSE f.entries[p]
        /\ \A c \in Collections :
              f.names[c] # NoName => \E item \in CollectionList' : item[1][1] = f.names[c][1]
    BY <2>3, <2>4, OpensFinds, Zenon
  <2>6. ~saved'.cut => Blobs /\ Named
    BY <2>3, <2>5, Zenon
  <2>7. ASSUME ~Unlocked, NEW p \in Places PROVE Contents'[p] \in {Missing, Contents[p]}
    <3>1. f \in Cuts \/ f = Image
      BY <1>1, <2>2, <2>7, Zenon DEF Crash, DatabaseFree
    <3>2. f.entries[p] \in {Missing, Contents[p]}
      BY <3>1, CutsShow, Zenon
    <3> QED
      BY <2>5, <3>2, Zenon
  <2> QED
    BY <2>6, <2>7, Zenon
<1>2. StlInv /\ [Next]_vars => [A]_vars
  BY <1>1, Zenon
<1> QED
  BY <1>2, StlInvariance, PTL DEF Spec, RestartKeeps

-----------------------------------------------------------------------------
(* Keys in order.                                                           *)

\* A set that holds 0 and the successor of whatever it holds is Nat.
LEMMA NatSetInduction ==
    ASSUME NEW S \in SUBSET Nat, 0 \in S, \A n \in S : n + 1 \in S
    PROVE  S = Nat
<1> DEFINE R == OpToRel(<, Nat)
           T == Nat \ S
<1>1. SUFFICES ASSUME T # {} PROVE FALSE
  OBVIOUS
<1>2. IsWellFoundedOn(R, Nat)
  BY NatLessThanWellFounded
<1>3. PICK x \in T : \A y \in T : <<y, x>> \notin R
  <2> HIDE DEF R
  <2> QED
    BY <1>1, <1>2, WFMin, Zenon
<1>4. x \in Nat /\ x # 0 /\ x - 1 \in Nat /\ x - 1 < x /\ x = (x - 1) + 1
  BY SMT
<1>5. x - 1 \in T
  BY <1>4, SMT
<1>6. <<x - 1, x>> \in R
  BY <1>4, SMT DEF OpToRel
<1> QED
  BY <1>3, <1>5, <1>6

\* A finite set of integers that is not empty has a least and a greatest element.
LEMMA EndsExist ==
    ASSUME NEW S \in SUBSET Int, IsFiniteSet(S), S # {}
    PROVE  \E a, z \in S : \A k \in S : a <= k /\ k <= z
<1> DEFINE P(n) == \A T \in SUBSET Int :
                      IsFiniteSet(T) /\ Cardinality(T) = n /\ T # {} =>
                         \E a, z \in T : \A k \in T : a <= k /\ k <= z
           G == {n \in Nat : P(n)}
<1>1. 0 \in G
  <2>1. P(0)
    BY FS_EmptySet, Zenon
  <2> QED
    BY <2>1
<1>2. ASSUME NEW n \in G PROVE n + 1 \in G
  <2>0. n \in Nat /\ P(n)
    BY <1>2, Zenon
  <2>1. ASSUME NEW T \in SUBSET Int, IsFiniteSet(T), Cardinality(T) = n + 1, T # {}
        PROVE  \E a, z \in T : \A k \in T : a <= k /\ k <= z
    <3>1. PICK x \in T : TRUE
      BY <2>1, Zenon
    <3>2. IsFiniteSet(T \ {x}) /\ Cardinality(T \ {x}) = n
      <4>1. IsFiniteSet(T \ {x}) /\ Cardinality(T \ {x}) = Cardinality(T) - 1
        BY <2>1, <3>1, FS_RemoveElement, Zenon
      <4> QED
        BY <2>0, <2>1, <4>1, SMT
    <3>3. x \in Int /\ x <= x
      BY <2>1, <3>1, SMT
    <3>4. CASE T \ {x} = {}
      <4>1. \A k \in T : k = x
        BY <3>4, Zenon
      <4>2. \A k \in T : x <= k /\ k <= x
        BY <3>3, <4>1, Zenon
      <4> QED
        BY <3>1, <4>2, Zenon
    <3>5. CASE T \ {x} # {}
      <4>1. T \ {x} \in SUBSET Int
        BY <2>1, Zenon
      <4>2. PICK a, z \in T \ {x} : \A k \in T \ {x} : a <= k /\ k <= z
        <5> HIDE DEF G
        <5> QED
          BY <2>0, <3>2, <3>5, <4>1, Zenon
      <4> DEFINE b == IF x <= a THEN x ELSE a
                 y == IF z <= x THEN x ELSE z
      <4>3. b \in T /\ y \in T
        BY <3>1, <4>2, Zenon
      <4>4. \A k \in T : b <= k /\ k <= y
        BY <3>3, <4>1, <4>2, SMT
      <4> HIDE DEF b, y
      <4> QED
        BY <4>3, <4>4, Zenon
    <3> QED
      BY <3>4, <3>5, Zenon
  <2>2. P(n + 1)
    BY <2>1, Zenon
  <2>3. n + 1 \in Nat
    BY <2>0, SMT
  <2> QED
    BY <2>2, <2>3, Zenon
<1>3. G = Nat
  <2> HIDE DEF P
  <2>1. G \in SUBSET Nat
    OBVIOUS
  <2> HIDE DEF G
  <2> QED
    BY <1>1, <1>2, <2>1, NatSetInduction, Zenon
<1>4. Cardinality(S) \in Nat
  BY FS_CardinalityType, Zenon
<1>5. P(Cardinality(S))
  BY <1>3, <1>4, Zenon
<1> QED
  BY <1>5, Zenon

UpTo(A, B, k) == Cardinality({x \in A : x <= k}) + Cardinality({x \in B : x <= k})
Both(A, B) == Cardinality(A) + Cardinality(B)

\* How many of a set are up to a key grows with the key, and with each one of
\* the set.
LEMMA CountGrows ==
    ASSUME NEW A \in SUBSET Int, IsFiniteSet(A), NEW j \in Int, NEW k \in Int, j <= k
    PROVE  LET U(x) == Cardinality({a \in A : a <= x})
           IN  /\ U(j) \in Nat /\ U(k) \in Nat /\ U(j) <= U(k) /\ U(k) <= Cardinality(A)
               /\ Cardinality(A) \in Nat
               /\ j < k /\ k \in A => U(j) < U(k)
<1> DEFINE J == {a \in A : a <= j}
           K == {a \in A : a <= k}
<1>1. K \in SUBSET A /\ J \in SUBSET K
  <2>1. \A a \in A : a <= j => a <= k
    BY SMT
  <2> QED
    BY <2>1, Zenon
<1>2. j < k /\ k \in A => J # K
  BY SMT
<1> HIDE DEF J, K
<1>3. IsFiniteSet(K) /\ Cardinality(K) <= Cardinality(A)
  BY <1>1, FS_Subset, Zenon
<1>4. /\ IsFiniteSet(J) /\ Cardinality(J) <= Cardinality(K)
      /\ Cardinality(K) = Cardinality(J) => K = J
  BY <1>1, <1>3, FS_Subset, Zenon
<1>5. Cardinality(A) \in Nat /\ Cardinality(K) \in Nat /\ Cardinality(J) \in Nat
  BY <1>3, <1>4, FS_CardinalityType, Zenon
<1>6. j < k /\ k \in A => Cardinality(J) < Cardinality(K)
  BY <1>2, <1>4, <1>5, SMT
<1> QED
  BY <1>3, <1>4, <1>5, <1>6, Zenon DEF J, K

LEMMA UpToGrows ==
    ASSUME NEW A \in SUBSET Int, IsFiniteSet(A), NEW B \in SUBSET Int, IsFiniteSet(B),
           NEW j \in Int, NEW k \in Int, j <= k
    PROVE  /\ UpTo(A, B, j) \in Nat /\ UpTo(A, B, k) \in Nat /\ UpTo(A, B, j) <= UpTo(A, B, k)
           /\ UpTo(A, B, k) <= Both(A, B) /\ Both(A, B) \in Nat
           /\ j < k /\ k \in A \cup B => UpTo(A, B, j) < UpTo(A, B, k)
<1> DEFINE a1 == Cardinality({x \in A : x <= j})
           a2 == Cardinality({x \in A : x <= k})
           b1 == Cardinality({x \in B : x <= j})
           b2 == Cardinality({x \in B : x <= k})
<1>1. /\ a1 \in Nat /\ a2 \in Nat /\ a1 <= a2 /\ a2 <= Cardinality(A) /\ Cardinality(A) \in Nat
      /\ j < k /\ k \in A => a1 < a2
  BY CountGrows, Zenon
<1>2. /\ b1 \in Nat /\ b2 \in Nat /\ b1 <= b2 /\ b2 <= Cardinality(B) /\ Cardinality(B) \in Nat
      /\ j < k /\ k \in B => b1 < b2
  BY CountGrows, Zenon
<1>3. UpTo(A, B, j) = a1 + b1 /\ UpTo(A, B, k) = a2 + b2
  BY Zenon DEF UpTo
<1> HIDE DEF a1, a2, b1, b2
<1>4. k \in A \cup B => k \in A \/ k \in B
  OBVIOUS
<1> QED
  BY <1>1, <1>2, <1>3, <1>4, SMT DEF Both

\* Up to the greatest there are all, up to each one at least one.
LEMMA UpToEnds ==
    ASSUME NEW A \in SUBSET Int, IsFiniteSet(A), NEW B \in SUBSET Int, IsFiniteSet(B)
    PROVE  /\ \A k \in A \cup B : UpTo(A, B, k) \in 1..Both(A, B)
           /\ Both(A, B) # 0 => \E k \in A \cup B : UpTo(A, B, k) = Both(A, B)
<1>1. ASSUME NEW k \in A \cup B
      PROVE  UpTo(A, B, k) \in 1..Both(A, B)
  <2>1. k \in Int /\ k - 1 \in Int /\ k - 1 <= k /\ k - 1 < k
    BY SMT
  <2>2. /\ UpTo(A, B, k - 1) \in Nat /\ UpTo(A, B, k) \in Nat
        /\ UpTo(A, B, k) <= Both(A, B) /\ Both(A, B) \in Nat
        /\ UpTo(A, B, k - 1) < UpTo(A, B, k)
    BY <1>1, <2>1, UpToGrows, Zenon
  <2> QED
    BY <2>2, SMT
<1>2. ASSUME Both(A, B) # 0
      PROVE  \E k \in A \cup B : UpTo(A, B, k) = Both(A, B)
  <2>1. A \cup B # {}
    <3> SUFFICES ASSUME A = {}, B = {} PROVE FALSE
      BY Zenon
    <3>1. Both(A, B) = 0
      BY FS_EmptySet, SMT DEF Both
    <3> QED
      BY <1>2, <3>1, Zenon
  <2>2. A \cup B \in SUBSET Int /\ IsFiniteSet(A \cup B)
    BY FS_Union, Zenon
  <2>3. PICK z \in A \cup B : \A k \in A \cup B : k <= z
    BY <2>1, <2>2, EndsExist, Zenon
  <2>4. {x \in A : x <= z} = A /\ {x \in B : x <= z} = B
    BY <2>3, Zenon
  <2> QED
    BY <2>3, <2>4, Zenon DEF UpTo, Both
<1> QED
  BY <1>1, <1>2, Zenon

\* The n-th key in order is the least up to which there are n.
LEMMA OrderedAt ==
    ASSUME NEW A \in SUBSET Int, IsFiniteSet(A), NEW B \in SUBSET Int, IsFiniteSet(B),
           NEW n \in 1..Both(A, B)
    PROVE  LET k == Ordered(A, B)[n]
           IN  /\ k \in A \cup B /\ n <= UpTo(A, B, k)
               /\ \A j \in A \cup B : n <= UpTo(A, B, j) => k <= j
<1> DEFINE Q(k) == n <= UpTo(A, B, k) /\ \A j \in A \cup B : n <= UpTo(A, B, j) => k <= j
           W == {k \in A \cup B : n <= UpTo(A, B, k)}
<1>1. Ordered(A, B)[n] = CHOOSE k \in A \cup B : Q(k)
  BY DEF Ordered, UpTo, Both
<1>2. Both(A, B) \in Nat
  <2>1. Cardinality(A) \in Nat /\ Cardinality(B) \in Nat
    BY FS_CardinalityType, Zenon
  <2> QED
    BY <2>1, SMT DEF Both
<1>3. PICK z \in A \cup B : UpTo(A, B, z) = Both(A, B)
  <2>1. Both(A, B) # 0
    BY <1>2, SMT
  <2> QED
    BY <2>1, UpToEnds, Zenon
<1>4. z \in W
  <2>1. n <= Both(A, B)
    BY <1>2, SMT
  <2> QED
    BY <1>3, <2>1, Zenon
<1>5. W \in SUBSET Int /\ IsFiniteSet(W)
  <2>1. W \in SUBSET (A \cup B) /\ IsFiniteSet(A \cup B) /\ A \cup B \in SUBSET Int
    BY FS_Union, Zenon
  <2> HIDE DEF W
  <2> QED
    BY <2>1, FS_Subset, Zenon
<1>6. PICK a \in W : \A k \in W : a <= k
  <2> HIDE DEF W
  <2> QED
    BY <1>4, <1>5, EndsExist, Zenon
<1>7. a \in A \cup B /\ Q(a)
  BY <1>6, Zenon
<1> HIDE DEF Q, W
<1>8. Ordered(A, B)[n] \in A \cup B /\ Q(Ordered(A, B)[n])
  BY <1>1, <1>7, Zenon
<1> QED
  BY <1>8, Zenon DEF Q

\* Ordered lists the keys of both sets, ascending.
LEMMA OrderedLists ==
    ASSUME NEW A \in SUBSET Int, IsFiniteSet(A), NEW B \in SUBSET Int, IsFiniteSet(B)
    PROVE  /\ Ordered(A, B) \in [1..Both(A, B) -> A \cup B]
           /\ \A i \in 1..Both(A, B) - 1 : Ordered(A, B)[i] <= Ordered(A, B)[i + 1]
           /\ \A k \in A \cup B : \E i \in 1..Both(A, B) : Ordered(A, B)[i] = k
<1> DEFINE s == Ordered(A, B)
           N == Both(A, B)
<1>1. \A n \in 1..N : /\ s[n] \in A \cup B /\ n <= UpTo(A, B, s[n])
                      /\ \A j \in A \cup B : n <= UpTo(A, B, j) => s[n] <= j
  BY OrderedAt, Zenon
<1>2. s \in [1..N -> A \cup B]
  <2> DEFINE F(n) == CHOOSE k \in A \cup B :
                        /\ n <= UpTo(A, B, k)
                        /\ \A j \in A \cup B : n <= UpTo(A, B, j) => k <= j
  <2>1. s = [n \in 1..N |-> F(n)]
    BY DEF Ordered, Both, UpTo
  <2> HIDE DEF F, s, N
  <2> QED
    BY <1>1, <2>1, Zenon
<1>3. N \in Nat
  <2>1. Cardinality(A) \in Nat /\ Cardinality(B) \in Nat
    BY FS_CardinalityType, Zenon
  <2> QED
    BY <2>1, SMT DEF Both
<1>4. \A k \in A \cup B : UpTo(A, B, k) \in 1..N
  BY UpToEnds, Zenon
<1> HIDE DEF s, N
<1>5. ASSUME NEW i \in 1..N - 1
      PROVE  s[i] <= s[i + 1]
  <2>1. i \in 1..N /\ i + 1 \in 1..N /\ i \in Nat
    BY <1>3, SMT
  <2>2. s[i + 1] \in A \cup B /\ i + 1 <= UpTo(A, B, s[i + 1])
    BY <1>1, <2>1, Zenon
  <2>3. UpTo(A, B, s[i + 1]) \in Nat
    <3>1. UpTo(A, B, s[i + 1]) \in 1..N
      BY <1>4, <2>2, Zenon
    <3> QED
      BY <3>1, SMT
  <2>4. i <= UpTo(A, B, s[i + 1])
    BY <2>1, <2>2, <2>3, SMT
  <2> QED
    BY <1>1, <2>1, <2>2, <2>4, Zenon
<1>6. ASSUME NEW k \in A \cup B
      PROVE  \E i \in 1..N : s[i] = k
  <2> DEFINE n == UpTo(A, B, k)
  <2>1. n \in 1..N /\ n \in Nat /\ n <= n
    <3>1. n \in 1..N
      BY <1>4, Zenon
    <3> HIDE DEF n
    <3> QED
      BY <3>1, SMT
  <2>2. s[n] \in A \cup B /\ n <= UpTo(A, B, s[n])
    BY <1>1, <2>1, Zenon
  <2>3. s[n] <= k
    BY <1>1, <2>1, Zenon
  <2>4. k \in Int /\ s[n] \in Int
    BY <2>2, Zenon
  <2>5. /\ s[n] < k => UpTo(A, B, s[n]) < n
        /\ UpTo(A, B, s[n]) \in Nat
    BY <1>6, <2>3, <2>4, UpToGrows, Zenon
  <2> HIDE DEF n
  <2>6. s[n] = k
    BY <2>1, <2>2, <2>3, <2>4, <2>5, SMT
  <2> QED
    BY <2>1, <2>6, Zenon
<1> QED
  BY <1>2, <1>5, <1>6, Zenon DEF s, N

\* A limit that the keys stay below cuts nothing off.
LEMMA FirstNWhole ==
    ASSUME NEW A \in SUBSET Int, IsFiniteSet(A), NEW B \in SUBSET Int, IsFiniteSet(B),
           NEW limit \in Nat, Both(A, B) <= limit
    PROVE  FirstN(Ordered(A, B), limit) = Ordered(A, B) /\ Len(Ordered(A, B)) = Both(A, B)
<1> DEFINE s == Ordered(A, B)
           N == Both(A, B)
<1>1. N \in Nat
  <2>1. Cardinality(A) \in Nat /\ Cardinality(B) \in Nat
    BY FS_CardinalityType, Zenon
  <2> QED
    BY <2>1, SMT DEF Both
<1>2. s \in [1..N -> A \cup B]
  BY OrderedLists, Zenon
<1> HIDE DEF s, N
<1>3. s \in Seq(A \cup B) /\ Len(s) = N
  BY <1>1, <1>2, SMT
<1>4. FirstN(s, limit) = SubSeq(s, 1, Len(s))
  <2>1. ~(Len(s) < limit) => limit = Len(s)
    BY <1>1, <1>3, SMT DEF N
  <2> QED
    BY <2>1, Zenon DEF FirstN
<1>5. FirstN(s, limit) = s
  BY <1>3, <1>4, SMT
<1> QED
  BY <1>3, <1>5, Zenon DEF s, N

\* The keys of a set of places are no more than the places, and as many when
\* the places are of one collection.
LEMMA KeysCounted ==
    ASSUME NEW X \in SUBSET Places
    PROVE  /\ KeysOf(X) \in SUBSET Int /\ IsFiniteSet(KeysOf(X)) /\ IsFiniteSet(X)
           /\ Cardinality(X) \in Nat /\ Cardinality(Places) \in Nat
           /\ Cardinality(KeysOf(X)) \in Nat
           /\ Cardinality(KeysOf(X)) <= Cardinality(X) /\ Cardinality(X) <= Cardinality(Places)
           /\ \A c : (\A p \in X : p[1] = c) => Cardinality(KeysOf(X)) = Cardinality(X)
<1>1. Places \in SUBSET (Collections \X Int) /\ IsFiniteSet(Places)
  BY DataAssumption, Zenon
<1>2. /\ IsFiniteSet(X) /\ Cardinality(X) <= Cardinality(Places)
      /\ Cardinality(X) \in Nat /\ Cardinality(Places) \in Nat
  BY <1>1, FS_Subset, FS_CardinalityType, Zenon
<1>3. \A p \in X : p[2] \in Int /\ p = <<p[1], p[2]>>
  BY <1>1, SMT
<1>4. KeysOf(X) \in SUBSET Int
  BY <1>3, Zenon DEF KeysOf
<1> DEFINE f == [p \in X |-> p[2]]
<1>5. f \in Surjection(X, KeysOf(X))
  BY Zenon DEF KeysOf, Surjection
<1>6. ASSUME NEW c, \A p \in X : p[1] = c
      PROVE  f \in Injection(X, KeysOf(X))
  <2>1. ASSUME NEW p \in X, NEW q \in X, p[2] = q[2] PROVE p = q
    BY <1>3, <1>6, <2>1, Zenon
  <2>2. f \in [X -> KeysOf(X)]
    BY Zenon DEF KeysOf
  <2>3. \A p, q \in X : f[p] = f[q] => p = q
    BY <2>1, Zenon
  <2> HIDE DEF f
  <2> QED
    BY <2>2, <2>3 DEF Injection, IsInjective
<1> HIDE DEF f
<1>7. /\ IsFiniteSet(KeysOf(X)) /\ Cardinality(KeysOf(X)) <= Cardinality(X)
      /\ Cardinality(KeysOf(X)) = Cardinality(X) <=> f \in Injection(X, KeysOf(X))
  BY <1>2, <1>5, FS_Surjection, Zenon
<1>8. Cardinality(KeysOf(X)) \in Nat
  BY <1>7, FS_CardinalityType, Zenon
<1> QED
  BY <1>2, <1>4, <1>6, <1>7, <1>8, Zenon

\* What a scan of two sets of places lists under a limit that is high enough.
LEMMA ScanLists ==
    ASSUME NEW X \in SUBSET Places, NEW Y \in SUBSET Places,
           NEW limit \in Nat, Cardinality(KeysOf(X)) + Cardinality(KeysOf(Y)) <= limit
    PROVE  LET listed == FirstN(Ordered(KeysOf(X), KeysOf(Y)), limit)
           IN  /\ Len(listed) = Cardinality(KeysOf(X)) + Cardinality(KeysOf(Y))
               /\ \A i \in 1..Len(listed) - 1 : listed[i] <= listed[i + 1]
               /\ \A k \in KeysOf(X) \cup KeysOf(Y) : \E i \in 1..Len(listed) : listed[i] = k
               /\ \A i \in 1..Len(listed) : listed[i] \in KeysOf(X) \cup KeysOf(Y)
<1> DEFINE A == KeysOf(X)
           B == KeysOf(Y)
<1>1. A \in SUBSET Int /\ IsFiniteSet(A) /\ B \in SUBSET Int /\ IsFiniteSet(B)
  BY KeysCounted, Zenon
<1>2. Both(A, B) <= limit
  BY Zenon DEF Both
<1> HIDE DEF A, B
<1>3. FirstN(Ordered(A, B), limit) = Ordered(A, B) /\ Len(Ordered(A, B)) = Both(A, B)
  BY <1>1, <1>2, FirstNWhole, Zenon
<1>4. /\ Ordered(A, B) \in [1..Both(A, B) -> A \cup B]
      /\ \A i \in 1..Both(A, B) - 1 : Ordered(A, B)[i] <= Ordered(A, B)[i + 1]
      /\ \A k \in A \cup B : \E i \in 1..Both(A, B) : Ordered(A, B)[i] = k
  BY <1>1, OrderedLists, Zenon
<1>5. \A i \in 1..Both(A, B) : Ordered(A, B)[i] \in A \cup B
  BY <1>4, Zenon
<1>6. Both(A, B) = Cardinality(A) + Cardinality(B)
  BY Zenon DEF Both
<1> DEFINE listed == FirstN(Ordered(A, B), limit)
<1>7. /\ Len(listed) = Cardinality(A) + Cardinality(B)
      /\ \A i \in 1..Len(listed) - 1 : listed[i] <= listed[i + 1]
      /\ \A k \in A \cup B : \E i \in 1..Len(listed) : listed[i] = k
      /\ \A i \in 1..Len(listed) : listed[i] \in A \cup B
  BY <1>3, <1>4, <1>5, <1>6, Zenon
<1> QED
  BY <1>7, Zenon DEF A, B, listed

-----------------------------------------------------------------------------
(* What scans list and estimates bound.                                     *)

\* What the transaction sees, and what it has removed, by how it sees it.
LEMMA Sees ==
    ASSUME StlInv, NEW t \in Threads, NEW q \in Places
    PROVE  /\ View(t)[q] = IF changes[t][q] = Unchanged THEN entries[q].val ELSE changes[t][q]
           /\ Unchanged # Missing
           /\ ~open[t] => changes[t][q] = Unchanged
<1>1. Unchanged # Missing
  BY DataAssumption, Zenon DEF Content
<1>2. View(t)[q] = IF changes[t][q] = Unchanged THEN entries[q].val ELSE changes[t][q]
  BY Zenon DEF View, Contents
<1>3. ~open[t] => changes[t][q] = Unchanged
  BY Zenon DEF StlInv, Nothing
<1> QED
  BY <1>1, <1>2, <1>3, Zenon

LEMMA ScansCoverAll ==
    ASSUME StlInv
    PROVE  ScansCover
<1> SUFFICES ASSUME NEW t \in Threads, NEW c \in Collections, NEW min \in KeysOf(Places)
             PROVE  LET seen == KeysOf({q \in Places : q[1] = c /\ q[2] >= min
                                                       /\ View(t)[q] # Missing})
                        gone == KeysOf({q \in Places : q[1] = c /\ changes[t][q] = Missing})
                        listed == ScanIn(t, c, min, 2 * Cardinality(Places))
                    IN  /\ \A i \in 1..Len(listed) - 1 : listed[i] <= listed[i + 1]
                        /\ \A k \in seen : \E i \in 1..Len(listed) : listed[i] = k
                        /\ \A i \in 1..Len(listed) : listed[i] \in seen \cup gone
  BY Zenon DEF ScansCover
<1> DEFINE S == {q \in Places : q[1] = c /\ q[2] >= min /\ View(t)[q] # Missing}
           R == {q \in Places : q[1] = c /\ changes[t][q] = Missing}
           mine == {p \in Places : p[1] = c /\ p[2] >= min /\ changes[t][p] # Unchanged}
           theirs == {p \in Places : /\ p[1] = c /\ p[2] >= min
                                     /\ entries[p].val # Missing /\ changes[t][p] # Missing}
           stored == {p \in Places : p[1] = c /\ p[2] >= min /\ entries[p].val # Missing}
           listed == ScanIn(t, c, min, 2 * Cardinality(Places))
<1>1. PICK X \in SUBSET Places, Y \in SUBSET Places :
          /\ listed = FirstN(Ordered(KeysOf(X), KeysOf(Y)), 2 * Cardinality(Places))
          /\ S \subseteq X \cup Y /\ X \cup Y \subseteq S \cup R
  <2>1. CASE open[t]
    <3>1. listed = FirstN(Ordered(KeysOf(mine), KeysOf(theirs)), 2 * Cardinality(Places))
      BY <2>1, Zenon DEF ScanIn, TxnScan
    <3>2. S \subseteq mine \cup theirs
      BY Sees, Zenon
    <3>3. mine \cup theirs \subseteq S \cup R
      BY Sees, Zenon
    <3>4. mine \in SUBSET Places /\ theirs \in SUBSET Places
      BY Zenon
    <3> HIDE DEF S, R, mine, theirs, listed
    <3> QED
      BY <3>1, <3>2, <3>3, <3>4, Zenon
  <2>2. CASE ~open[t]
    <3>1. listed = FirstN(Ordered(KeysOf(stored), {}), 2 * Cardinality(Places))
      BY <2>2, Zenon DEF ScanIn, Scan
    <3>2. KeysOf({}) = {}
      BY Zenon DEF KeysOf
    <3>3. S = stored
      BY <2>2, Sees, Zenon
    <3>4. stored \in SUBSET Places /\ {} \in SUBSET Places
      BY Zenon
    <3> HIDE DEF S, R, stored, listed
    <3> QED
      BY <3>1, <3>2, <3>3, <3>4, Zenon
  <2> QED
    BY <2>1, <2>2, Zenon
<1>2. /\ 2 * Cardinality(Places) \in Nat
      /\ Cardinality(KeysOf(X)) + Cardinality(KeysOf(Y)) <= 2 * Cardinality(Places)
  <2>1. /\ Cardinality(Places) \in Nat /\ Cardinality(X) \in Nat /\ Cardinality(Y) \in Nat
        /\ Cardinality(KeysOf(X)) \in Nat /\ Cardinality(KeysOf(Y)) \in Nat
        /\ Cardinality(KeysOf(X)) <= Cardinality(X) /\ Cardinality(X) <= Cardinality(Places)
        /\ Cardinality(KeysOf(Y)) <= Cardinality(Y) /\ Cardinality(Y) <= Cardinality(Places)
    BY KeysCounted, Zenon
  <2> QED
    BY <2>1, SMT
<1> HIDE DEF S, R, mine, theirs, stored, listed
<1>3. /\ \A i \in 1..Len(listed) - 1 : listed[i] <= listed[i + 1]
      /\ \A k \in KeysOf(X) \cup KeysOf(Y) : \E i \in 1..Len(listed) : listed[i] = k
      /\ \A i \in 1..Len(listed) : listed[i] \in KeysOf(X) \cup KeysOf(Y)
  BY <1>1, <1>2, ScanLists, ZenonT(60)
<1>4. KeysOf(S) \subseteq KeysOf(X) \cup KeysOf(Y)
  BY <1>1, Zenon DEF KeysOf
<1>5. KeysOf(X) \cup KeysOf(Y) \subseteq KeysOf(S) \cup KeysOf(R)
  BY <1>1, Zenon DEF KeysOf
<1>6. /\ \A k \in KeysOf(S) : \E i \in 1..Len(listed) : listed[i] = k
      /\ \A i \in 1..Len(listed) : listed[i] \in KeysOf(S) \cup KeysOf(R)
  BY <1>3, <1>4, <1>5, Zenon
<1> QED
  BY <1>3, <1>6, Zenon DEF S, R, listed

LEMMA MeasureBoundsAll ==
    ASSUME StlInv
    PROVE  MeasureBounds
<1> SUFFICES ASSUME NEW t \in Threads, NEW c \in Collections
             PROVE  LET seen == Cardinality({q \in Places : q[1] = c /\ View(t)[q] # Missing})
                    IN  /\ seen <= Measure(t, c)[2]
                        /\ \A min \in KeysOf(Places) :
                             ~open[t] /\ (\A k \in KeysOf(Places) : min <= k) =>
                                 Measure(t, c) = <<Len(Scan(c, min, Cardinality(Places))), seen>>
  BY Zenon DEF MeasureBounds
<1> DEFINE S == {q \in Places : q[1] = c /\ View(t)[q] # Missing}
           stored == {p \in Places : p[1] = c /\ entries[p].val # Missing}
           mine == {p \in Places : p[1] = c /\ changes[t][p] # Unchanged}
<1>1. S \in SUBSET Places /\ stored \in SUBSET Places /\ mine \in SUBSET Places
  BY Zenon
<1>2. S \subseteq stored \cup mine
  BY Sees, Zenon
<1>3. ~open[t] => S = stored
  BY Sees, Zenon
<1>4. Measure(t, c) = <<Cardinality(stored), IF open[t] THEN Cardinality(stored) + Cardinality(mine)
                                             ELSE Cardinality(stored)>>
  BY Zenon DEF Measure
<1>5. ASSUME NEW min \in KeysOf(Places), \A k \in KeysOf(Places) : min <= k
      PROVE  Len(Scan(c, min, Cardinality(Places))) = Cardinality(stored)
  <2>1. \A p \in Places : p[2] >= min
    <3>1. \A p \in Places : p[2] \in Int /\ min <= p[2]
      <4>1. KeysOf(Places) \in SUBSET Int
        BY KeysCounted, Zenon
      <4> QED
        BY <1>5, <4>1, Zenon DEF KeysOf
    <3>2. min \in Int
      BY KeysCounted, Zenon
    <3> QED
      BY <3>1, <3>2, SMT
  <2>2. stored = {p \in Places : p[1] = c /\ p[2] >= min /\ entries[p].val # Missing}
    BY <2>1, Zenon
  <2>3. KeysOf({}) = {}
    BY Zenon DEF KeysOf
  <2>4. Scan(c, min, Cardinality(Places))
            = FirstN(Ordered(KeysOf(stored), KeysOf({})), Cardinality(Places))
    BY <2>2, <2>3, Zenon DEF Scan
  <2>5. \A p \in stored : p[1] = c
    BY Zenon
  <2> HIDE DEF stored
  <2>6. /\ Cardinality(KeysOf(stored)) = Cardinality(stored) /\ Cardinality(stored) \in Nat
        /\ Cardinality(stored) <= Cardinality(Places) /\ Cardinality(Places) \in Nat
    BY <1>1, <2>5, KeysCounted, Zenon
  <2>7. Cardinality(KeysOf({})) = 0
    BY <2>3, FS_EmptySet, Zenon
  <2>8. /\ Cardinality(KeysOf(stored)) + Cardinality(KeysOf({})) = Cardinality(stored)
        /\ Cardinality(KeysOf(stored)) + Cardinality(KeysOf({})) <= Cardinality(Places)
    BY <2>6, <2>7, SMT
  <2>9. {} \in SUBSET Places
    BY Zenon
  <2>10. Len(FirstN(Ordered(KeysOf(stored), KeysOf({})), Cardinality(Places)))
            = Cardinality(KeysOf(stored)) + Cardinality(KeysOf({}))
    BY <1>1, <2>6, <2>8, <2>9, ScanLists, Zenon
  <2> QED
    BY <2>4, <2>8, <2>10, Zenon
<1> HIDE DEF S, stored, mine
<1>6. /\ Cardinality(S) \in Nat /\ Cardinality(stored) \in Nat /\ Cardinality(mine) \in Nat
      /\ IsFiniteSet(stored) /\ IsFiniteSet(mine)
  BY <1>1, KeysCounted, Zenon
<1>7. Cardinality(S) <= Cardinality(stored) + Cardinality(mine)
  <2>1. /\ IsFiniteSet(stored \cup mine)
        /\ Cardinality(stored \cup mine)
              = Cardinality(stored) + Cardinality(mine) - Cardinality(stored \cap mine)
    BY <1>6, FS_Union, Zenon
  <2>2. Cardinality(S) <= Cardinality(stored \cup mine)
    <3>1. S \in SUBSET (stored \cup mine)
      BY <1>2, Zenon
    <3> QED
      BY <2>1, <3>1, FS_Subset, Zenon
  <2>3. Cardinality(stored \cap mine) \in Nat
    <3>1. stored \cap mine \in SUBSET Places
      BY <1>1, Zenon
    <3> QED
      BY <3>1, KeysCounted, Zenon
  <2> QED
    BY <1>6, <2>1, <2>2, <2>3, SMT
<1>8. Cardinality(S) <= Measure(t, c)[2]
  <2>1. CASE open[t]
    <3>1. Measure(t, c)[2] = Cardinality(stored) + Cardinality(mine)
      BY <1>4, <2>1, SMT
    <3> QED
      BY <1>7, <3>1, Zenon
  <2>2. CASE ~open[t]
    <3>1. Measure(t, c)[2] = Cardinality(S)
      BY <1>3, <1>4, <2>2, SMT
    <3> QED
      BY <1>6, <3>1, SMT
  <2> QED
    BY <2>1, <2>2, Zenon
<1>9. ASSUME NEW min \in KeysOf(Places), ~open[t], \A k \in KeysOf(Places) : min <= k
      PROVE  Measure(t, c) = <<Len(Scan(c, min, Cardinality(Places))), Cardinality(S)>>
  <2>1. Len(Scan(c, min, Cardinality(Places))) = Cardinality(stored)
    BY <1>5, <1>9, Zenon
  <2> QED
    BY <1>3, <1>4, <1>9, <2>1, Zenon
<1> QED
  BY <1>8, <1>9, Zenon DEF S

\* ukv_scan, with the limit out of reach, lists all keys that reads would find,
\* in ascending order and beside them only removals of the transaction, and
\* ukv_measure bounds their number, whatever was written, dropped or restarted.
THEOREM QueriesStayRight == Spec => []QueriesAgree
<1>1. StlInv => QueriesAgree
  BY StlInvParts, ScansCoverAll, MeasureBoundsAll, Zenon DEF QueriesAgree
<1> QED
  BY <1>1, StlInvariance, PTL
=============================================================================
