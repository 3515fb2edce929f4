--------------------------------- MODULE Stl --------------------------------
(***************************************************************************)
(* The engine over the standard library (src/deprecated/engine_stl.cpp):   *)
(* one set of entries under a shared mutex, generations, transactions that *)
(* watch what they touch, and one file that every save writes anew.        *)
(*                                                                         *)
(* External: merge_overwrite(entries, changes), which replaces entries by  *)
(* the changes.  A crash during a save leaves a prefix of the file.        *)
(***************************************************************************)
EXTENDS Integers, Sequences, FiniteSets

CONSTANTS
    Threads,           \* each with a ukv_transaction_t of its own
    Collections,       \* handles, 0 is ukv_collection_main_k
    Names,             \* names that clients use
    Places,            \* handles and keys in use
    Values,            \* blobs that are not empty
    EmptyValue,        \* the empty blob
    Missing,           \* nullptr: no blob
    Unchanged,         \* a place outside a batch
    Batches,           \* the batches in use
    MaxGenerations     \* bound: generations given out by all processes

Main == 0
Content == Values \cup {EmptyValue, Missing}

ASSUME DataAssumption ==
    /\ Places \subseteq Collections \X Int /\ IsFiniteSet(Places)
    /\ Main \in Collections
    /\ "" \notin Names
    /\ Missing \notin Values \cup {EmptyValue}
    /\ EmptyValue \notin Values
    /\ Unchanged \notin Content
    /\ Batches \subseteq [Places -> Content \cup {Unchanged}]
    /\ MaxGenerations \in Nat

VARIABLES
    entries,     \* database_t::entries, without a node: generation NoGeneration
    youngest,    \* youngest_generation
    given,       \* bound: how many generations were given out
    names,       \* database_t::names, by handle
    file,        \* what is under persisted_path
    at,          \* where each thread is inside a call
    batch,       \* the batch of its write, and its generation
    open,        \* whether it has a transaction
    began,       \* transaction_t::generation
    watched,     \* transaction_t::watched
    changes,     \* transaction_t::changes
    reads,       \* history: the pairs read under watch
    saved        \* history: what the last complete save wrote, and whether a
                 \* crash cut off a later one

txn == <<open, began, watched, changes, reads>>
vars == <<entries, youngest, given, names, file, at, batch, open, began, watched, changes,
          reads, saved>>

-----------------------------------------------------------------------------
(* Entries.                                                                 *)

NoGeneration == -1    \* missing_data_generation_k
Unwatched == -2
NoName == <<"", 0>>

Entry == [val : Content, gen : Int]
NoEntry == [val |-> Missing, gen |-> NoGeneration]
Nothing == [p \in Places |-> Unchanged]
NotWatching == [p \in Places |-> Unwatched]

Contents == [p \in Places |-> entries[p].val]
Touches(b) == {p \in Places : b[p] # Unchanged}

\* merge_overwrite of a populated tree of entries.
Merged(b, g) ==
    [p \in Places |-> IF b[p] = Unchanged THEN entries[p] ELSE [val |-> b[p], gen |-> g]]

\* What a transaction sees.
View(t) == [p \in Places |-> IF changes[t][p] = Unchanged THEN Contents[p] ELSE changes[t][p]]

\* entry_was_overwritten, with both of its orders.
EntryWasOverwritten(g, from, upTo) ==
    IF from <= upTo THEN from <= g /\ g <= upTo ELSE from <= g \/ g <= upTo

\* Nobody holds the mutex: a save does, until its file is written.
Unlocked == \A t \in Threads : at[t] # "saving"

Init ==
    /\ entries = [p \in Places |-> NoEntry]
    /\ youngest = 0 /\ given = 0
    /\ names = [c \in Collections |-> NoName]
    /\ file = [entries |-> [p \in Places |-> Missing], names |-> [c \in Collections |-> NoName]]
    /\ at = [t \in Threads |-> "ready"]
    /\ batch = [t \in Threads |-> [b |-> Nothing, gen |-> 0, flush |-> FALSE]]
    /\ open = [t \in Threads |-> FALSE]
    /\ began = [t \in Threads |-> 0]
    /\ watched = [t \in Threads |-> NotWatching]
    /\ changes = [t \in Threads |-> Nothing]
    /\ reads = [t \in Threads |-> {}]
    /\ saved = [image |-> file, cut |-> FALSE]

-----------------------------------------------------------------------------
(* Writes and reads.                                                        *)

\* ++youngest_generation.
NextGeneration ==
    /\ given < MaxGenerations
    /\ given' = given + 1
    /\ youngest' = youngest + 1

NoBatch == [b |-> Nothing, gen |-> 0, flush |-> FALSE]

\* ukv_write without a transaction takes a generation and builds its entries
\* before it asks for the mutex ...
WriteStarts(t, b, flush) ==
    /\ at[t] = "ready"
    /\ NextGeneration
    /\ batch' = [batch EXCEPT ![t] = [b |-> b, gen |-> youngest + 1, flush |-> flush]]
    /\ at' = [at EXCEPT ![t] = "writing"]
    /\ UNCHANGED <<entries, names, file, txn, saved>>

\* ... and merges them under it, going on to save with the flush option.
WriteMerges(t) ==
    /\ at[t] = "writing"
    /\ Unlocked
    /\ entries' = Merged(batch[t].b, batch[t].gen)
    /\ at' = [at EXCEPT ![t] = IF batch[t].flush THEN "saving" ELSE "ready"]
    /\ batch' = [batch EXCEPT ![t] = NoBatch]
    /\ UNCHANGED <<youngest, given, names, file, txn, saved>>

\* ukv_write in a transaction: the watched generations are assigned anew, and
\* populate inserts: a key that was changed before keeps its first change.
TxnWrite(t, b, watch) ==
    /\ at[t] = "ready" /\ open[t]
    /\ Unlocked
    /\ watched' = IF watch
                  THEN [watched EXCEPT ![t] = [p \in Places |->
                            IF p \in Touches(b) THEN entries[p].gen ELSE @[p]]]
                  ELSE watched
    /\ changes' = [changes EXCEPT ![t] = [p \in Places |->
                      IF @[p] = Unchanged THEN b[p] ELSE @[p]]]
    /\ UNCHANGED <<entries, youngest, given, names, file, at, batch, open, began, reads, saved>>

\* The first watched read of every place.
Remembers(t, p, watch) ==
    reads' = IF watch /\ \A r \in reads[t] : r[1] # p
             THEN [reads EXCEPT ![t] = @ \cup {<<p, entries[p].val>>}] ELSE reads

\* Mutant of TxnRead: keys that are missing are not watched.
TxnReadFound(t, p, watch) ==
    /\ at[t] = "ready" /\ open[t]
    /\ Unlocked
    /\ changes[t][p] = Unchanged
    /\ ~EntryWasOverwritten(entries[p].gen, began[t], youngest)
    /\ watched' = IF watch /\ watched[t][p] = Unwatched /\ entries[p].gen # NoGeneration
                  THEN [watched EXCEPT ![t][p] = entries[p].gen] ELSE watched
    /\ Remembers(t, p, watch)
    /\ UNCHANGED <<entries, youngest, given, names, file, at, batch, open, began, changes, saved>>

\* ukv_read in a transaction: read_under_lock.  A key is watched from its first
\* read on; one that was overwritten since the transaction began is refused.
TxnRead(t, p, watch) ==
    /\ at[t] = "ready" /\ open[t]
    /\ Unlocked
    /\ changes[t][p] = Unchanged
    /\ ~EntryWasOverwritten(entries[p].gen, began[t], youngest)
    /\ watched' = IF watch /\ watched[t][p] = Unwatched
                  THEN [watched EXCEPT ![t][p] = entries[p].gen] ELSE watched
    /\ Remembers(t, p, watch)
    /\ UNCHANGED <<entries, youngest, given, names, file, at, batch, open, began, changes, saved>>

-----------------------------------------------------------------------------
(* Scans and estimates.                                                     *)

KeysOf(S) == {p[2] : p \in S}

\* The keys of two sets in ascending order, those of both twice: the n-th one
\* is the least up to which there are n.
Ordered(A, B) ==
    LET UpTo(k) == Cardinality({x \in A : x <= k}) + Cardinality({x \in B : x <= k})
    IN  [n \in 1..Cardinality(A) + Cardinality(B) |->
            CHOOSE k \in A \cup B :
                n <= UpTo(k) /\ \A j \in A \cup B : n <= UpTo(j) => k <= j]
FirstN(s, n) == SubSeq(s, 1, IF Len(s) < n THEN Len(s) ELSE n)

\* ukv_scan without a transaction: deleted entries are passed over.
Scan(c, min, limit) ==
    FirstN(Ordered(KeysOf({p \in Places : p[1] = c /\ p[2] >= min /\ entries[p].val # Missing}),
                   {}), limit)

\* Mutant of TxnScan: the tail of the changes is forgotten.
TxnScanNoTail(t, c, min, limit) ==
    LET mine == {p \in Places : p[1] = c /\ p[2] >= min /\ changes[t][p] # Unchanged}
        theirs == {p \in Places : /\ p[1] = c /\ p[2] >= min
                                  /\ entries[p].val # Missing /\ changes[t][p] # Missing}
    IN  FirstN(Ordered(KeysOf({p \in mine : \E k \in KeysOf(theirs) : p[2] <= k}), KeysOf(theirs)),
               limit)

\* In a transaction the changes and the entries are merged.  An entry that the
\* transaction removed is passed over, but its removal is listed like any other
\* change; a key that is in both is listed twice.
TxnScan(t, c, min, limit) ==
    LET mine == {p \in Places : p[1] = c /\ p[2] >= min /\ changes[t][p] # Unchanged}
        theirs == {p \in Places : /\ p[1] = c /\ p[2] >= min
                                  /\ entries[p].val # Missing /\ changes[t][p] # Missing}
    IN  FirstN(Ordered(KeysOf(mine), KeysOf(theirs)), limit)

\* ukv_scan.
ScanIn(t, c, min, limit) ==
    IF open[t] THEN TxnScan(t, c, min, limit) ELSE Scan(c, min, limit)

\* ukv_measure: the bounds of the number of pairs in a collection.
Measure(t, c) ==
    LET stored == Cardinality({p \in Places : p[1] = c /\ entries[p].val # Missing})
        mine == Cardinality({p \in Places : p[1] = c /\ changes[t][p] # Unchanged})
    IN  <<stored, IF open[t] THEN stored + mine ELSE stored>>

-----------------------------------------------------------------------------
(* Collections.                                                             *)

\* ukv_collection_create: a new handle that no name has.
CollectionCreate(t, n, c) ==
    /\ at[t] = "ready"
    /\ Unlocked
    /\ \A d \in Collections : names[d] # <<n, 0>>
    /\ c # Main /\ names[c] = NoName
    /\ names' = [names EXCEPT ![c] = <<n, 0>>]
    /\ UNCHANGED <<entries, youngest, given, file, at, batch, txn, saved>>

\* ukv_collection_list: names and handles.
CollectionList == {<<names[c], c>> : c \in {d \in Collections : names[d] # NoName}}

\* ukv_collection_drop: the entries and the handle, or the entries alone ...
CollectionDrop(t, c, handle) ==
    /\ at[t] = "ready"
    /\ Unlocked
    /\ IF handle THEN c # Main /\ names' = [names EXCEPT ![c] = NoName] ELSE UNCHANGED names
    /\ entries' = [p \in Places |-> IF p[1] = c THEN NoEntry ELSE entries[p]]
    /\ UNCHANGED <<youngest, given, file, at, batch, txn, saved>>

\* ... or their values, those of deleted entries as well.
CollectionDropVals(t, c) ==
    /\ at[t] = "ready"
    /\ Unlocked
    /\ NextGeneration
    /\ entries' = [p \in Places |->
                      IF p[1] = c /\ entries[p] # NoEntry
                      THEN [val |-> EmptyValue, gen |-> youngest + 1] ELSE entries[p]]
    /\ UNCHANGED <<names, file, at, batch, txn, saved>>

-----------------------------------------------------------------------------
(* Transactions.                                                            *)

TxnInit(t) ==
    /\ at[t] = "ready"
    /\ NextGeneration
    /\ open' = [open EXCEPT ![t] = TRUE]
    /\ began' = [began EXCEPT ![t] = youngest + 1]
    /\ watched' = [watched EXCEPT ![t] = NotWatching]
    /\ changes' = [changes EXCEPT ![t] = Nothing]
    /\ reads' = [reads EXCEPT ![t] = {}]
    /\ UNCHANGED <<entries, names, file, at, batch, saved>>

TxnCloses(t) ==
    /\ open' = [open EXCEPT ![t] = FALSE]
    /\ began' = [began EXCEPT ![t] = 0]
    /\ watched' = [watched EXCEPT ![t] = NotWatching]
    /\ changes' = [changes EXCEPT ![t] = Nothing]
    /\ reads' = [reads EXCEPT ![t] = {}]

\* ukv_transaction_commit: every watched key has the generation it had, or is
\* still missing.  The client starts anew after it.
TxnCommit(t, flush) ==
    /\ at[t] = "ready" /\ open[t]
    /\ Unlocked
    /\ \A p \in Places : watched[t][p] \in {Unwatched, entries[p].gen}
    /\ entries' = Merged(changes[t], began[t])
    /\ at' = [at EXCEPT ![t] = IF flush THEN "saving" ELSE "ready"]
    /\ TxnCloses(t)
    /\ UNCHANGED <<youngest, given, names, file, batch, saved>>

TxnFree(t) ==
    /\ at[t] = "ready" /\ open[t]
    /\ TxnCloses(t)
    /\ UNCHANGED <<entries, youngest, given, names, file, at, batch, saved>>

-----------------------------------------------------------------------------
(* The file.                                                                *)

\* Mutant of Image: the values of the main collection alone are written.
ImageOfMain ==
    [entries |-> [p \in Places |-> IF p[1] = Main THEN Contents[p] ELSE Missing],
     names |-> names]

\* write(db, path): the names and the entries with a blob.
Image == [entries |-> Contents, names |-> names]

\* A save that comes to its end.
Complete == [image |-> [entries |-> Contents, names |-> names], cut |-> FALSE]

\* A save has opened the file with "wb+", which empties it; now it is written.
SaveEnds(t) ==
    /\ at[t] = "saving"
    /\ file' = Image
    /\ saved' = Complete
    /\ at' = [at EXCEPT ![t] = "ready"]
    /\ UNCHANGED <<entries, youngest, given, names, batch, txn>>

\* What a crash can leave of it: nothing, a part of the names, or all names and
\* the entries up to some place.
Before(p, q) == p[1] < q[1] \/ (p[1] = q[1] /\ p[2] <= q[2])
Cuts ==
    {[entries |-> [p \in Places |-> Missing],
      names |-> [c \in Collections |-> IF c \in S THEN names[c] ELSE NoName]] :
        S \in SUBSET Collections}
    \cup
    {[entries |-> [p \in Places |-> IF Before(p, q) THEN Contents[p] ELSE Missing],
      names |-> names] : q \in Places}

\* read(db, path): the colon behind a name is taken for a part of it, of two
\* names that become equal so the first is kept; an empty blob is loaded as a
\* deleted one.
NamesRead(f) ==
    [c \in Collections |->
        IF \/ f.names[c] = NoName
           \/ /\ f.names[c][2] = 1
              /\ \E d \in Collections : f.names[d] = <<f.names[c][1], 0>>
        THEN NoName ELSE <<f.names[c][1], 1>>]
EntriesRead(f) ==
    [p \in Places |->
        CASE f.entries[p] = Missing -> NoEntry
          [] f.entries[p] = EmptyValue -> [val |-> Missing, gen |-> 0]
          [] OTHER -> [val |-> f.entries[p], gen |-> 0]]

\* ukv_database_init in a new process.
Opens(f) ==
    /\ entries' = EntriesRead(f)
    /\ names' = NamesRead(f)
    /\ youngest' = 0 /\ UNCHANGED given
    /\ at' = [t \in Threads |-> "ready"]
    /\ batch' = [t \in Threads |-> NoBatch]
    /\ open' = [t \in Threads |-> FALSE]
    /\ began' = [t \in Threads |-> 0]
    /\ watched' = [t \in Threads |-> NotWatching]
    /\ changes' = [t \in Threads |-> Nothing]
    /\ reads' = [t \in Threads |-> {}]

\* The save before one that is cut off is lost with it: its file was emptied.
Crash ==
    /\ file' \in IF Unlocked THEN {file} ELSE Cuts
    /\ saved' = [image |-> saved.image, cut |-> saved.cut \/ ~Unlocked]
    /\ Opens(file')

\* ukv_database_free saves without a lock, and the next process begins.
DatabaseFree ==
    /\ \A t \in Threads : at[t] = "ready" /\ ~open[t]
    /\ file' = Image
    /\ saved' = Complete
    /\ Opens(file')

-----------------------------------------------------------------------------

Next ==
    \/ \E t \in Threads :
          \/ \E b \in Batches, flag \in BOOLEAN : WriteStarts(t, b, flag) \/ TxnWrite(t, b, flag)
          \/ WriteMerges(t)
          \/ \E p \in Places, watch \in BOOLEAN : TxnRead(t, p, watch)
          \/ \E n \in Names, c \in Collections : CollectionCreate(t, n, c)
          \/ \E c \in Collections, handle \in BOOLEAN : CollectionDrop(t, c, handle)
          \/ \E c \in Collections : CollectionDropVals(t, c)
          \/ TxnInit(t) \/ TxnFree(t)
          \/ \E flush \in BOOLEAN : TxnCommit(t, flush)
          \/ SaveEnds(t)
    \/ Crash
    \/ DatabaseFree

Spec == Init /\ [][Next]_vars

-----------------------------------------------------------------------------
(* Properties.                                                              *)

NameTables == [Collections -> (Names \X {0, 1}) \cup {NoName}]
Batch == [b : [Places -> Content \cup {Unchanged}], gen : Nat, flush : BOOLEAN]

TypeOK ==
    /\ entries \in [Places -> Entry]
    /\ youngest \in 0..given /\ given \in 0..MaxGenerations
    /\ names \in NameTables /\ names[Main] = NoName
    /\ file \in [entries : [Places -> Content], names : NameTables]
    /\ file.names[Main] = NoName
    /\ at \in [Threads -> {"ready", "writing", "saving"}]
    /\ batch \in [Threads -> Batch]
    /\ open \in [Threads -> BOOLEAN]
    /\ began \in [Threads -> 0..MaxGenerations]
    /\ watched \in [Threads -> [Places -> Int]]
    /\ changes \in [Threads -> [Places -> Content \cup {Unchanged}]]
    /\ reads \in [Threads -> SUBSET (Places \X Content)]
    /\ \A t, u \in Threads : at[t] = "saving" /\ at[u] = "saving" => t = u

\* A transaction commits only if what it read first, under watch, in every
\* place is there again, missing keys included, however writes, other commits
\* and drops lie between.
\* Places that it writes itself are left out: such a write watches the key
\* anew, from the generation it has then.
CommitsFresh ==
    [][\A t \in Threads, flush \in BOOLEAN : TxnCommit(t, flush) =>
          \A r \in reads[t] : changes[t][r[1]] = Unchanged => Contents[r[1]] = r[2]]_vars

\* After a restart every blob of the last complete save is there, but for the
\* empty ones, and nothing else is; every collection that had a name has one,
\* unless another had the same name without the colon.  This holds until a crash
\* comes during a save, which writes over the file of the save before: then some
\* pairs of the memory at that moment are left, none of them changed or older.
RestartKeeps ==
    [][Crash \/ DatabaseFree =>
          /\ ~saved'.cut =>
                /\ \A p \in Places :
                      Contents'[p] = IF saved'.image.entries[p] = EmptyValue THEN Missing
                                     ELSE saved'.image.entries[p]
                /\ \A c \in Collections :
                      saved'.image.names[c] # NoName =>
                          \E item \in CollectionList' : item[1][1] = saved'.image.names[c][1]
          /\ ~Unlocked => \A p \in Places : Contents'[p] \in {Missing, Contents[p]}]_vars

\* A scan in a transaction lists in ascending order all keys the transaction
\* sees, and besides them only keys that it removed.
ScansCover ==
    \A t \in Threads, c \in Collections : \A min \in KeysOf(Places) :
        LET seen == KeysOf({q \in Places : q[1] = c /\ q[2] >= min /\ View(t)[q] # Missing})
            gone == KeysOf({q \in Places : q[1] = c /\ changes[t][q] = Missing})
            listed == ScanIn(t, c, min, 2 * Cardinality(Places))
        IN  /\ \A i \in 1..Len(listed) - 1 : listed[i] <= listed[i + 1]
            /\ \A k \in seen : \E i \in 1..Len(listed) : listed[i] = k
            /\ \A i \in 1..Len(listed) : listed[i] \in seen \cup gone

\* Outside of transactions the bounds of ukv_measure are exact and agree with
\* ukv_scan; inside, the upper bound holds.
MeasureBounds ==
    \A t \in Threads, c \in Collections :
        LET seen == Cardinality({q \in Places : q[1] = c /\ View(t)[q] # Missing})
        IN  /\ seen <= Measure(t, c)[2]
            /\ \A min \in KeysOf(Places) :
                 ~open[t] /\ (\A k \in KeysOf(Places) : min <= k) =>
                     Measure(t, c) = <<Len(Scan(c, min, Cardinality(Places))), seen>>

\* What ukv_scan lists and ukv_measure bounds agrees with what reads return;
\* the variables keep their types.
QueriesAgree == TypeOK /\ ScansCover /\ MeasureBounds

-----------------------------------------------------------------------------
(* The inductive invariant behind CommitsFresh and RestartKeeps.            *)

\* A generation that was given out and that nothing has yet.
Fresh(g) ==
    /\ g \in 1..youngest
    /\ \A p \in Places : entries[p].gen # g
    /\ \A t \in Threads, p \in Places : watched[t][p] # g

\* The generations that writes and transactions took are fresh until they are
\* applied, and no two are the same.
GenerationsFresh ==
    /\ \A t \in Threads : at[t] = "writing" => Fresh(batch[t].gen)
    /\ \A t \in Threads : open[t] => Fresh(began[t])
    /\ \A t, u \in Threads : at[t] = "writing" /\ open[u] => batch[t].gen # began[u]
    /\ \A t, u \in Threads : at[t] = "writing" /\ at[u] = "writing" /\ batch[t].gen = batch[u].gen
                                => t = u
    /\ \A t, u \in Threads : open[t] /\ open[u] /\ began[t] = began[u] => t = u

\* What there is, and what is watched, is no younger than the youngest.
NoneYounger ==
    /\ \A p \in Places : /\ entries[p].gen \in NoGeneration..youngest
                         /\ entries[p].gen = NoGeneration => entries[p].val = Missing
    /\ \A t \in Threads, p \in Places : watched[t][p] <= youngest

\* A place that was read is watched, and holds what was read for as long as it
\* has the watched generation.
ReadsWatched(t) ==
    /\ \A p \in Places : watched[t][p] # Unwatched /\ changes[t][p] = Unchanged =>
                            \E r \in reads[t] : r[1] = p
    /\ \A r \in reads[t] : changes[t][r[1]] = Unchanged =>
          /\ watched[t][r[1]] # Unwatched
          /\ entries[r[1]].gen = watched[t][r[1]] => entries[r[1]].val = r[2]
          /\ watched[t][r[1]] = NoGeneration => r[2] = Missing

StlInv ==
    /\ TypeOK /\ GenerationsFresh /\ NoneYounger
    /\ \A t \in Threads : ReadsWatched(t) /\ (~open[t] => changes[t] = Nothing)
    /\ saved.cut \/ saved.image = file
=============================================================================
