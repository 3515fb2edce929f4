------------------------------ MODULE UMemDisk ------------------------------
(***************************************************************************)
(* Collections and persistence of the in-memory engine                     *)
(* (src/engine_umem.cpp): ukv_collection_create, ukv_collection_drop, the  *)
(* saving of ukv_transaction_commit and ukv_database_free, and the loading *)
(* of ukv_database_init, with crashes of the process at any point.         *)
(*                                                                         *)
(* Every collection is saved to a file of its own, named after it; the     *)
(* nameless default collection is number 0.  Opening a file truncates it,  *)
(* and it can be read back only once its footer is written.  The database  *)
(* was given a directory that exists.  Transactions are atomic here: how   *)
(* they become so is the subject of module UMem.                           *)
(***************************************************************************)
EXTENDS Integers, FiniteSets, Functions

CONSTANTS
    Threads,         \* that save to disk, create and drop collections
    Names,           \* of collections, ordered like the nodes of db.names
    Handles,         \* ukv_collection_t
    Keys,            \* ukv_key_t
    Values,          \* blobs of some length
    Missing,         \* no pair under the key
    NullRange,       \* a pair with a null range, left by a deletion
    Empty,           \* a pair with a blob of no bytes
    HeadValues,      \* what is written outside transactions
    DropModes,       \* ukv_drop_mode_t in use
    MaxCrashes,      \* bound on crashes and clean shutdowns
    MaxCommits       \* bound on saved commits of one run of the process

Main == 0            \* ukv_collection_main_k, and the name of its file

Nothing == "nothing" \* no promise about a pair

Stored == Values \cup {Missing, NullRange, Empty}

\* A file is absent, without a footer, or can be read.
NoRows == [k \in Keys |-> Missing]
NoFile == [state |-> "absent", rows |-> NoRows]
Torn == [state |-> "torn", rows |-> NoRows]
Whole(r) == [state |-> "whole", rows |-> r]
Rows == [Keys -> Values \cup {Missing, NullRange}]
File == [state : {"absent", "torn", "whole"}, rows : Rows]

ASSUME DiskAssumption ==
    /\ Names \subseteq Nat \ {Main} /\ Main \in Handles
    /\ Cardinality(Handles \ {Main}) >= Cardinality(Names)
    /\ HeadValues \subseteq Values \cup {NullRange, Empty}
    /\ DropModes \subseteq {"keys_vals_handle", "keys_vals", "vals"}
    /\ MaxCrashes \in Nat /\ MaxCommits \in Nat
    /\ {Missing, NullRange, Empty, Nothing} \cap Values = {}
    /\ Missing # NullRange /\ Missing # Empty /\ NullRange # Empty
    /\ Nothing \notin {Missing, NullRange, Empty}

Files == Names \cup {Main}

VARIABLES
    up,         \* the process: "down", "up", or "failed" to open the database
    names,      \* db.names: the handles of the named collections
    pairs,      \* db.pairs
    files,      \* what is on disk under each name
    saving,     \* per thread: "no", "commit" or "close"
    file,       \* per thread: the file it writes, or has written last
    writing,    \* per thread: whether that file is open, or its rows are buffered
    rows,       \* per thread: the rows its writer has buffered
    shared,     \* per thread: others had that file open at the same time
    freed,      \* the iterator of a saving thread points to an erased node
    pending,    \* history: pairs of the commit a thread is saving
    promised,   \* history: pairs whose saving was acknowledged
    stops,      \* crashes and shutdowns so far
    commits     \* saved commits since the process started

memory == <<names, pairs>>
buffers == <<rows, shared>>
saver == <<saving, file, writing, buffers>>
bounds == <<stops, commits>>
vars == <<up, names, pairs, files, saving, file, writing, rows, shared, freed,
          pending, promised, stops, commits>>

Places == Files \X Keys
Promises == [Places -> Values \cup {Missing, Empty, NullRange, Nothing}]

TypeOK ==
    /\ up \in {"down", "up", "failed"}
    /\ DOMAIN names \subseteq Names
    /\ \A n \in DOMAIN names : names[n] \in Handles
    /\ pairs \in [Handles \X Keys -> Stored]
    /\ files \in [Files -> File]
    /\ saving \in [Threads -> {"no", "commit", "close"}]
    /\ file \in [Threads -> Files]
    /\ writing \in [Threads -> {"no", "open", "rows"}]
    /\ rows \in [Threads -> Rows]
    /\ shared \in [Threads -> BOOLEAN]
    /\ freed \in BOOLEAN
    /\ pending \in [Threads -> Promises]
    /\ promised \in Promises
    /\ stops \in Nat /\ commits \in Nat

NoPromise == [c \in Places |-> Nothing]
NoNames == [n \in {} |-> Main]
NoPairs == [c \in Handles \X Keys |-> Missing]

Init ==
    /\ up = "down"
    /\ names = NoNames
    /\ pairs = NoPairs
    /\ files = [f \in Files |-> NoFile]
    /\ saving = [t \in Threads |-> "no"]
    /\ file = [t \in Threads |-> Main]
    /\ writing = [t \in Threads |-> "no"]
    /\ rows = [t \in Threads |-> NoRows]
    /\ shared = [t \in Threads |-> FALSE]
    /\ freed = FALSE
    /\ pending = [t \in Threads |-> NoPromise]
    /\ promised = NoPromise
    /\ stops = 0
    /\ commits = 0

-----------------------------------------------------------------------------
(* The conversions of a pair on its way to a file and back.                 *)

\* `if (pair.range.size()) value = ...`: both kinds of nothing become null.
Saved(v) == IF v = Empty THEN NullRange ELSE v

\* `else pair.range = value_view_t::make_empty()`.
Loaded(v) == IF v = NullRange THEN Empty ELSE v

\* What ukv_read shows of a pair.
Shown(v) == IF v = NullRange THEN Missing ELSE v

\* The collections by name, as a client sees them.
HandleOf(n) == IF n = Main THEN Main ELSE names[n]
Existing == DOMAIN names \cup {Main}

Readable == {f \in Files : files[f].state = "whole"}
OnDisk == [n \in Readable \cup {Main} |->
             [k \in Keys |-> Shown(Loaded(files[n].rows[k]))]]

-----------------------------------------------------------------------------
(* ukv_database_init: every file found becomes a collection with a new      *)
(* handle.  A file that is not a Parquet file throws, and the database is   *)
(* not opened.                                                              *)

Fresh(h) == h # Main /\ \A n \in DOMAIN names : names[n] # h

\* The files loaded into the collection with the handle h: one, or none.
LoadedFrom(handles, h) == {n \in Readable : h = IF n = Main THEN Main ELSE handles[n]}

LoadedPair(handles, h, k) ==
    IF LoadedFrom(handles, h) = {} THEN Missing
    ELSE Loaded(files[CHOOSE n \in LoadedFrom(handles, h) : TRUE].rows[k])

OpenDatabase ==
    /\ up = "down"
    /\ \A f \in Files : files[f].state # "torn"
    /\ \E handles \in [Readable \ {Main} -> Handles \ {Main}] :
          /\ IsInjective(handles)
          /\ names' = handles
          /\ pairs' = [c \in Handles \X Keys |-> LoadedPair(handles, c[1], c[2])]
    /\ up' = "up"
    /\ commits' = 0
    /\ UNCHANGED <<files, saver, freed, pending, promised, stops>>

OpenFails ==
    /\ up = "down"
    /\ \E f \in Files : files[f].state = "torn"
    /\ up' = "failed"
    /\ UNCHANGED <<memory, files, saver, freed, pending, promised, bounds>>

-----------------------------------------------------------------------------
(* Calls of clients while the database is open.                             *)

Running == up = "up" /\ ~freed /\ \A t \in Threads : saving[t] # "close"
Idle(t) == Running /\ saving[t] = "no"

\* A later write of a pair takes its promise away.
Overwritten(cells, promise) ==
    [c \in Places |-> IF c \in cells THEN Nothing ELSE promise[c]]
Forget(cells) ==
    /\ pending' = [t \in Threads |-> Overwritten(cells, pending[t])]
    /\ promised' = Overwritten(cells, promised)

\* ukv_write outside transactions: ukv_option_write_flush_k is accepted and
\* has no effect.
HeadWrite(n, k, v) ==
    /\ Running
    /\ n \in Existing
    /\ pairs' = [pairs EXCEPT ![<<HandleOf(n), k>>] = v]
    /\ Forget({<<n, k>>})
    /\ UNCHANGED <<up, names, files, saver, freed, bounds>>

\* Variant: the handle may be in use.
CreateUnchecked(t, n, h) ==
    /\ Idle(t)
    /\ n \notin DOMAIN names
    /\ h # Main
    /\ names' = [m \in DOMAIN names \cup {n} |-> IF m = n THEN h ELSE names[m]]
    /\ UNCHANGED <<up, pairs, files, saver, freed, pending, promised, bounds>>

\* ukv_collection_create, with the random handle of new_collection.
Create(t, n, h) ==
    /\ Idle(t)
    /\ n \notin DOMAIN names
    /\ Fresh(h)
    /\ names' = [m \in DOMAIN names \cup {n} |-> IF m = n THEN h ELSE names[m]]
    /\ UNCHANGED <<up, pairs, files, saver, freed, pending, promised, bounds>>

\* ukv_collection_drop.  Erasing a name frees the node a saving thread may
\* have its iterator on: restructuring_mutex is not taken while saving.
Drop(t, n, mode) ==
    /\ Idle(t)
    /\ n \in Existing
    /\ mode = "keys_vals_handle" => n # Main
    /\ pairs' = [c \in Handles \X Keys |->
          CASE c[1] # HandleOf(n) -> pairs[c]
            [] c[1] = HandleOf(n) /\ mode = "vals" ->
                  IF pairs[c] = Missing THEN Missing ELSE Empty
            [] OTHER -> Missing]
    /\ IF mode = "keys_vals_handle"
       THEN /\ names' = [m \in DOMAIN names \ {n} |-> names[m]]
            /\ freed' = \E u \in Threads : saving[u] = "commit" /\ file[u] = n
       ELSE UNCHANGED <<names, freed>>
    /\ Forget({n} \X Keys)
    /\ UNCHANGED <<up, files, saver, bounds>>

-----------------------------------------------------------------------------
(* ukv_transaction_commit.  The transaction changes the same key of two     *)
(* collections; with ukv_option_write_flush_k the thread then saves all.    *)

\* FileOutputStream::Open truncates the file, also when others write it.
HasOpen(t, f) == writing[t] # "no" /\ file[t] = f
OpenFile(t, f) ==
    /\ file' = [file EXCEPT ![t] = f]
    /\ files' = [files EXCEPT ![f] = Torn]
    /\ writing' = [writing EXCEPT ![t] = "open"]
    /\ shared' = [u \in Threads |->
          IF u = t THEN \E o \in Threads \ {t} : HasOpen(o, f)
                   ELSE shared[u] \/ HasOpen(u, f)]
    /\ UNCHANGED rows

Apply(n, k, v) ==
    pairs' = [pairs EXCEPT ![<<Main, k>>] = v, ![<<HandleOf(n), k>>] = v]
Changes(n, k) == {<<Main, k>>, <<n, k>>}

Commit(n, k, v) ==
    /\ Running
    /\ n \in DOMAIN names
    /\ Apply(n, k, v)
    /\ Forget(Changes(n, k))
    /\ UNCHANGED <<up, names, files, saver, freed, bounds>>

CommitFlush(t, n, k, v) ==
    /\ Idle(t)
    /\ commits < MaxCommits
    /\ commits' = commits + 1
    /\ n \in DOMAIN names
    /\ Apply(n, k, v)
    /\ pending' = [u \in Threads |->
          IF u = t THEN [c \in Places |-> IF c \in Changes(n, k) THEN v ELSE Nothing]
                   ELSE Overwritten(Changes(n, k), pending[u])]
    /\ promised' = Overwritten(Changes(n, k), promised)
    /\ saving' = [saving EXCEPT ![t] = "commit"]
    /\ OpenFile(t, Main)
    /\ UNCHANGED <<up, names, freed, stops>>

\* ukv_database_free, when no other call is running.
CloseDatabase(t) ==
    /\ Running
    /\ stops < MaxCrashes
    /\ \A u \in Threads : saving[u] = "no"
    /\ saving' = [saving EXCEPT ![t] = "close"]
    /\ OpenFile(t, Main)
    /\ UNCHANGED <<up, memory, freed, pending, promised, bounds>>

-----------------------------------------------------------------------------
(* write: the default collection and then the named ones in their order.    *)

\* Variant: pairs without bytes are left out of the file.
RowsOfValuesOnly(f) ==
    [k \in Keys |-> IF pairs[<<HandleOf(f), k>>] \in Values THEN pairs[<<HandleOf(f), k>>] ELSE Missing]

RowsOf(f) == [k \in Keys |-> Saved(pairs[<<HandleOf(f), k>>])]

\* The rows are collected under the lock of the set.
BufferRows(t) ==
    /\ writing[t] = "open" /\ ~freed
    /\ rows' = [rows EXCEPT ![t] = RowsOf(file[t])]
    /\ writing' = [writing EXCEPT ![t] = "rows"]
    /\ UNCHANGED <<up, memory, files, saving, file, shared, freed, pending, promised, bounds>>

\* The writer's destructor brings them to the file, with the footer, when the
\* lock is no longer held.  Where others had the file open too, the contents
\* may mix, and the pairs of the commit may be lost to rows collected before.
WriteCollection(t) ==
    /\ writing[t] = "rows" /\ ~freed
    /\ \/ files' = [files EXCEPT ![file[t]] = Whole(rows[t])]
       \/ shared[t] /\ files' = [files EXCEPT ![file[t]] = Torn]
    /\ pending' = [pending EXCEPT ![t] =
          IF shared[t] THEN Overwritten({file[t]} \X Keys, @) ELSE @]
    /\ writing' = [writing EXCEPT ![t] = "no"]
    /\ rows' = [rows EXCEPT ![t] = NoRows]
    /\ shared' = [shared EXCEPT ![t] = FALSE]
    /\ UNCHANGED <<up, memory, saving, file, freed, promised, bounds>>

Following(t) == {n \in DOMAIN names : n > file[t]}

Between(t) == saving[t] # "no" /\ writing[t] = "no" /\ ~freed

NextFile(t) ==
    /\ Between(t)
    /\ \E n \in Following(t) :
          /\ \A o \in Following(t) : n <= o
          /\ OpenFile(t, n)
    /\ UNCHANGED <<up, memory, saving, freed, pending, promised, bounds>>

\* Variant: only the default collection is saved.
MainWritten(t) == Between(t)

AllWritten(t) == Between(t) /\ Following(t) = {}

\* The commit returns.
Flushed(t) ==
    /\ AllWritten(t) /\ saving[t] = "commit"
    /\ saving' = [saving EXCEPT ![t] = "no"]
    /\ file' = [file EXCEPT ![t] = Main]
    /\ promised' = [c \in Places |->
          IF pending[t][c] # Nothing THEN pending[t][c] ELSE promised[c]]
    /\ pending' = [pending EXCEPT ![t] = NoPromise]
    /\ UNCHANGED <<up, memory, files, writing, buffers, freed, bounds>>

\* The process ends, by closing the database or in the middle of anything.
Stop ==
    /\ up' = "down"
    /\ stops' = stops + 1
    /\ names' = NoNames
    /\ pairs' = NoPairs
    /\ saving' = [t \in Threads |-> "no"]
    /\ file' = [t \in Threads |-> Main]
    /\ writing' = [t \in Threads |-> "no"]
    /\ rows' = [t \in Threads |-> NoRows]
    /\ shared' = [t \in Threads |-> FALSE]
    /\ freed' = FALSE
    /\ pending' = [t \in Threads |-> NoPromise]
    /\ UNCHANGED <<files, promised, commits>>

Closed(t) == AllWritten(t) /\ saving[t] = "close" /\ Stop

Crash == up = "up" /\ stops < MaxCrashes /\ Stop

-----------------------------------------------------------------------------

Next ==
    \/ OpenDatabase \/ OpenFails \/ Crash
    \/ \E n \in Files, k \in Keys :
          \/ \E v \in HeadValues : HeadWrite(n, k, v)
          \/ \E v \in Values \cup {Missing} : Commit(n, k, v)
    \/ \E t \in Threads :
          \/ \E n \in Names, h \in Handles : Create(t, n, h)
          \/ \E n \in Files, mode \in DropModes : Drop(t, n, mode)
          \/ \E n \in Names, k \in Keys, v \in Values \cup {Missing} : CommitFlush(t, n, k, v)
          \/ CloseDatabase(t)
          \/ BufferRows(t) \/ WriteCollection(t) \/ NextFile(t) \/ Flushed(t) \/ Closed(t)

Spec == Init /\ [][Next]_vars

-----------------------------------------------------------------------------
(* Properties.                                                              *)

\* Two collections never share a handle, and none has the default one's,
\* however often they are created, dropped, saved and loaded (new_collection).
HandlesDistinct ==
    \A m, n \in DOMAIN names : names[m] # Main /\ (names[m] = names[n] => m = n)

\* "Closes the DB ... The database would still persist on disk."
\* (include/ukv/db.h:604): every collection that exists on closing is found
\* again by the next ukv_database_init, with the pairs and the absent keys it
\* had, whatever saves and crashes came before.  Keys deleted outside
\* transactions are the exception: their null ranges come back as empty blobs.
CloseKeepsPairs ==
    [][\A t \in Threads : Closed(t) =>
          \A n \in Existing, k \in Keys :
             pairs[<<HandleOf(n), k>>] # NullRange =>
                /\ n \in DOMAIN OnDisk'
                /\ OnDisk'[n][k] = pairs[<<HandleOf(n), k>>]]_vars

\* Between two files, of one save or of several, whether the process runs or
\* not, the disk holds every pair whose saving was acknowledged by
\* ukv_transaction_commit and that was not written since, whoever saves the
\* same file later.  The exception are pairs whose file another thread had
\* open while the commit wrote it: the other one may have collected its rows
\* before the commit and write them after it (write_collection takes no lock).
FlushedOnDisk ==
    (\A f \in Files : files[f].state # "torn") =>
       \A c \in Places : promised[c] # Nothing =>
          c[1] \in Readable /\ OnDisk[c[1]][c[2]] = Shown(promised[c])

\* "If you still need durability, flush writes on ukv_transaction_commit()"
\* (include/ukv/README.md:227): after a crash at any point, acknowledged pairs
\* can be loaded.
FlushedSurvives ==
    up # "up" => \A c \in Places : promised[c] # Nothing =>
       /\ up # "failed"
       /\ c[1] \in Readable
       /\ OnDisk[c[1]][c[2]] = Shown(promised[c])

\* Collections have handles of their own; the variables keep their types.
CollectionsSound == TypeOK /\ HandlesDistinct

-----------------------------------------------------------------------------
(* The inductive invariant behind them.                                     *)

\* A thread that saves has its iterator on a collection that exists, unless
\* that was erased under it; who closes the database is alone.
Saves(t) ==
    /\ writing[t] # "no" => saving[t] # "no"
    /\ saving[t] # "no" => up = "up" /\ (~freed => file[t] \in Existing)
    /\ saving[t] = "close" => \A u \in Threads \ {t} : saving[u] = "no"

\* Threads that share a file know.
SharedKnown(t) ==
    /\ writing[t] # "no" /\ ~shared[t] => \A u \in Threads \ {t} : ~HasOpen(u, file[t])
    /\ writing[t] = "no" => ~shared[t]

\* The pair is in memory; its file is on the way, or holds it, and so do the
\* rows that were collected for it.
Keeps(n, k, v) == n \in Existing /\ pairs[<<HandleOf(n), k>>] = v
Stores(n, k, v) ==
    /\ files[n].state # "absent"
    /\ files[n].state = "whole" => files[n].rows[k] = v
    /\ \A u \in Threads : writing[u] = "rows" /\ file[u] = n => rows[u][k] = v

\* Acknowledged pairs are in memory as long as the process runs, and any file
\* that can be read has them.
PromisedKept ==
    \A n \in Files, k \in Keys : promised[<<n, k>>] # Nothing =>
       /\ promised[<<n, k>>] \in Values \cup {Missing}
       /\ up = "up" => Keeps(n, k, promised[<<n, k>>])
       /\ Stores(n, k, promised[<<n, k>>])

\* So are those a thread is saving, in the files it has opened so far, unless
\* it shares the last of them.
Past(t, n) == n < file[t] \/ (n = file[t] /\ ~shared[t])

PendingKept(t) ==
    \A n \in Files, k \in Keys : pending[t][<<n, k>>] # Nothing =>
       /\ saving[t] = "commit"
       /\ pending[t][<<n, k>>] \in Values \cup {Missing}
       /\ Keeps(n, k, pending[t][<<n, k>>])
       /\ Past(t, n) => Stores(n, k, pending[t][<<n, k>>])

\* The files behind the iterator of a closing thread are what they should be.
ClosingDone(t) ==
    saving[t] = "close" =>
       /\ ~shared[t]
       /\ writing[t] = "rows" => rows[t] = RowsOf(file[t])
       /\ \A n \in Existing : n < file[t] \/ (n = file[t] /\ writing[t] = "no") =>
             files[n] = Whole(RowsOf(n))

DiskInv ==
    /\ CollectionsSound
    /\ PromisedKept
    /\ \A t \in Threads : Saves(t) /\ SharedKnown(t) /\ PendingKept(t) /\ ClosingDone(t)
=============================================================================
