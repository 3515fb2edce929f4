-------------------------------- MODULE Rocks -------------------------------
(***************************************************************************)
(* The engine over RocksDB (src/engine_rocksdb.cpp): blobs and             *)
(* transactions, called by several threads of a process that may crash.    *)
(* Snapshots and collections are in module RocksHandles.                  *)
(*                                                                         *)
(* RocksDB is external.  What is assumed of its OptimisticTransactionDB:   *)
(*   - a WriteBatch is applied at once and takes the next sequence number; *)
(*   - Put, Delete and GetForUpdate of a transaction track the key with    *)
(*     the latest sequence number unless it is tracked already, and a      *)
(*     MultiGetForUpdate tracks all its keys before it gets the first;     *)
(*   - Commit fails if a tracked key was written after it was tracked;     *)
(*     after a success the transaction is empty and goes on;               *)
(*   - a write without the log (disableWAL) survives a crash once the      *)
(*     memtable of its column family was flushed, or the database closed.  *)
(***************************************************************************)
EXTENDS RocksBase

CONSTANTS
    Keys,            \* ukv_key_t
    Unchanged,       \* a place outside a batch
    Batches,         \* the batches in use
    ReadSets,        \* the places read in one call
    MaxSequence,     \* bound: writes stop at this sequence number
    MaxReads,        \* bound: pairs a transaction has read before its last read
    MaxWrites        \* bound: places it has written before its last write

Places == Families \X Keys
Content == Values \cup {Missing}

ASSUME DataAssumption ==
    /\ Missing \notin Values
    /\ Unchanged \notin Content
    /\ None \notin Threads
    /\ Batches \subseteq [Places -> Content \cup {Unchanged}]
    /\ ReadSets \subseteq SUBSET Places

ASSUME BoundsAssumption ==
    MaxSequence \in Nat /\ MaxReads \in Nat /\ MaxWrites \in Nat

VARIABLES
    table,       \* the newest version of every place: value and sequence number
    sequence,    \* GetLatestSequenceNumber
    durable,     \* the values a crash would leave
    mutex,       \* the thread that holds db.mutex
    txn,         \* whether the thread is in a transaction
    tracked,     \* its tracked keys: sequence number or Untracked
    changes,     \* its writes
    at,          \* where the thread is inside a call
    gets,        \* the places its read has yet to get
    own,         \* the sequence number its commit took
    reads,       \* history: place and value of every watched read
    reported     \* history: own and reported number of commits

engine == <<table, sequence, durable>>
mine == <<txn, tracked, changes, reads>>
call == <<at, gets, own>>
vars == <<table, sequence, durable, mutex, txn, tracked, changes, at, gets, own,
          reads, reported>>

-----------------------------------------------------------------------------

Untracked == -1
Nothing == [p \in Places |-> Unchanged]
Version == [val : Content, seq : Nat]

Contents == [p \in Places |-> table[p].val]
Touches(b) == {p \in Places : b[p] # Unchanged}
Over(b, f) == [p \in Places |-> IF b[p] = Unchanged THEN f[p] ELSE b[p]]

\* The versions a batch leaves: it takes the next sequence number.
Versions(b) ==
    [p \in Places |-> IF b[p] = Unchanged THEN table[p]
                      ELSE [val |-> b[p], seq |-> sequence + 1]]

Goes(t, step) == at' = [at EXCEPT ![t] = step]

Init ==
    /\ table = [p \in Places |-> [val |-> Missing, seq |-> 0]]
    /\ sequence = 0
    /\ durable = [p \in Places |-> Missing]
    /\ mutex = None
    /\ txn = [t \in Threads |-> FALSE]
    /\ tracked = [t \in Threads |-> [p \in Places |-> Untracked]]
    /\ changes = [t \in Threads |-> Nothing]
    /\ at = [t \in Threads |-> "ready"]
    /\ gets = [t \in Threads |-> {}]
    /\ own = [t \in Threads |-> 0]
    /\ reads = [t \in Threads |-> {}]
    /\ reported = {}

-----------------------------------------------------------------------------
(* Reads and writes.                                                        *)

\* db.native->Write(options, &batch): sync with the flush option, else no log.
Applies(b, flush) ==
    /\ sequence < MaxSequence
    /\ table' = Versions(b)
    /\ durable' = IF flush THEN Over(b, durable) ELSE durable
    /\ sequence' = sequence + 1

\* ukv_write without a transaction: write_one and write_many.
Write(t, b, flush) ==
    /\ at[t] = "ready"
    /\ Applies(b, flush)
    /\ UNCHANGED <<mutex, mine, call, reported>>

\* Mutant of Tracking: a key tracked before is tracked anew, from now on.
TrackingAnew(t, P) ==
    [p \in Places |-> IF p \in P THEN sequence ELSE tracked[t][p]]

\* The tracked keys when those of P are tracked now.
Tracking(t, P) ==
    [p \in Places |-> IF p \in P /\ tracked[t][p] = Untracked
                      THEN sequence ELSE tracked[t][p]]

\* ukv_write in a transaction: Put and Delete, or their untracked variants.
TxnWrite(t, b, watch) ==
    /\ at[t] = "ready"
    /\ txn[t]
    /\ Cardinality(Touches(changes[t])) < MaxWrites
    /\ changes' = [changes EXCEPT ![t] = Over(b, @)]
    /\ tracked' = IF watch THEN [tracked EXCEPT ![t] = Tracking(t, Touches(b))]
                  ELSE tracked
    /\ UNCHANGED <<engine, mutex, txn, reads, call, reported>>

\* ukv_read in a transaction that watches: read_one and read_many track all
\* keys, then get them one by one.
TxnRead(t, P) ==
    /\ at[t] = "ready"
    /\ txn[t]
    /\ Cardinality(reads[t]) < MaxReads
    /\ tracked' = [tracked EXCEPT ![t] = Tracking(t, P)]
    /\ gets' = [gets EXCEPT ![t] = P]
    /\ Goes(t, "getting")
    /\ UNCHANGED <<engine, mutex, txn, changes, reads,
                   own, reported>>

\* One Get of it: the transaction's own write, or the newest version.
TxnGet(t, p) ==
    /\ at[t] = "getting"
    /\ p \in gets[t]
    /\ gets' = [gets EXCEPT ![t] = @ \ {p}]
    /\ Goes(t, IF gets[t] = {p} THEN "ready" ELSE "getting")
    /\ reads' = IF changes[t][p] = Unchanged
                THEN [reads EXCEPT ![t] = @ \cup {<<p, table[p].val>>}]
                ELSE reads
    /\ UNCHANGED <<engine, mutex, txn, tracked, changes,
                   own, reported>>

-----------------------------------------------------------------------------
(* Transactions.                                                            *)

Empties(t) ==
    /\ tracked' = [tracked EXCEPT ![t] = [p \in Places |-> Untracked]]
    /\ changes' = [changes EXCEPT ![t] = Nothing]
    /\ reads' = [reads EXCEPT ![t] = {}]

\* ukv_transaction_init, also of a transaction in use, and ukv_transaction_free.
TxnInit(t) ==
    /\ at[t] = "ready"
    /\ txn' = [txn EXCEPT ![t] = TRUE]
    /\ Empties(t)
    /\ UNCHANGED <<engine, mutex, call, reported>>

TxnFree(t) ==
    /\ at[t] = "ready"
    /\ txn[t]
    /\ txn' = [txn EXCEPT ![t] = FALSE]
    /\ Empties(t)
    /\ UNCHANGED <<engine, mutex, call, reported>>

\* txn.Commit() succeeds.
Commits(t) ==
    /\ txn[t]
    /\ \A p \in Places : tracked[t][p] # Untracked => table[p].seq <= tracked[t][p]
    /\ IF changes[t] = Nothing
       THEN UNCHANGED engine
       ELSE Applies(changes[t], FALSE)
    /\ Empties(t)
    /\ UNCHANGED txn

\* ukv_transaction_commit without a sequence number.
Commit(t) ==
    /\ at[t] = "ready"
    /\ Commits(t)
    /\ UNCHANGED <<mutex, call, reported>>

\* With one: the mutex is held over the commit and the reading of the number.
CommitLocks(t) ==
    /\ at[t] = "ready"
    /\ txn[t]
    /\ mutex = None
    /\ mutex' = t
    /\ Goes(t, "locked")
    /\ UNCHANGED <<engine, mine, gets, own, reported>>

\* Mutant of CommitLocked: the mutex guards the commit alone.
CommitUnlocks(t) ==
    /\ at[t] = "locked"
    /\ Commits(t)
    /\ own' = [own EXCEPT ![t] = IF changes[t] = Nothing THEN 0 ELSE sequence']
    /\ mutex' = None
    /\ Goes(t, "committed")
    /\ UNCHANGED <<gets, reported>>

CommitLocked(t) ==
    /\ at[t] = "locked"
    /\ Commits(t)
    /\ own' = [own EXCEPT ![t] = IF changes[t] = Nothing THEN 0 ELSE sequence']
    /\ Goes(t, "committed")
    /\ UNCHANGED <<mutex, gets, reported>>

\* The commit fails for a conflict, or because RocksDB asks to try again.
CommitFails(t) ==
    /\ at[t] = "locked"
    /\ mutex' = None
    /\ Goes(t, "ready")
    /\ UNCHANGED <<engine, mine, gets, own, reported>>

CommitReports(t) ==
    /\ at[t] = "committed"
    /\ reported' = IF own[t] = 0 THEN reported ELSE reported \cup {<<own[t], sequence>>}
    /\ mutex' = None
    /\ own' = [own EXCEPT ![t] = 0]
    /\ Goes(t, "ready")
    /\ UNCHANGED <<engine, mine, gets>>

-----------------------------------------------------------------------------
(* RocksDB and the process.                                                 *)

\* A memtable is flushed, in the background.
Flushes(f) ==
    /\ durable' = [p \in Places |-> IF p[1] = f THEN table[p].val ELSE durable[p]]
    /\ UNCHANGED <<table, sequence, mutex, mine, call, reported>>

\* The process ends and ukv_database_init opens the directory again; the new
\* process has no transactions.  Sequence numbers are compared within a
\* process only: they start over.
Reopens ==
    /\ table' = [p \in Places |-> [val |-> durable'[p], seq |-> 0]]
    /\ sequence' = 0
    /\ reported' = {}
    /\ mutex' = None
    /\ txn' = [t \in Threads |-> FALSE]
    /\ tracked' = [t \in Threads |-> [p \in Places |-> Untracked]]
    /\ changes' = [t \in Threads |-> Nothing]
    /\ reads' = [t \in Threads |-> {}]
    /\ at' = [t \in Threads |-> "ready"]
    /\ gets' = [t \in Threads |-> {}]
    /\ own' = [t \in Threads |-> 0]

Crash ==
    /\ UNCHANGED durable
    /\ Reopens

\* ukv_database_free: the destructor of RocksDB flushes the memtables.
DatabaseFree ==
    /\ \A t \in Threads : at[t] = "ready" /\ ~txn[t]
    /\ durable' = Contents
    /\ Reopens

-----------------------------------------------------------------------------

Next ==
    \/ \E t \in Threads :
          \/ \E b \in Batches, flag \in BOOLEAN : Write(t, b, flag) \/ TxnWrite(t, b, flag)
          \/ \E P \in ReadSets : TxnRead(t, P)
          \/ \E p \in Places : TxnGet(t, p)
          \/ TxnInit(t) \/ TxnFree(t) \/ Commit(t)
          \/ CommitLocks(t) \/ CommitLocked(t) \/ CommitFails(t) \/ CommitReports(t)
    \/ \E f \in Families : Flushes(f)
    \/ Crash
    \/ DatabaseFree

Spec == Init /\ [][Next]_vars

-----------------------------------------------------------------------------
(* Properties.                                                              *)

TypeOK ==
    /\ table \in [Places -> Version]
    /\ sequence \in Nat
    /\ durable \in [Places -> Content]
    /\ mutex \in Threads \cup {None}
    /\ txn \in [Threads -> BOOLEAN]
    /\ tracked \in [Threads -> [Places -> Nat \cup {Untracked}]]
    /\ changes \in [Threads -> [Places -> Content \cup {Unchanged}]]
    /\ at \in [Threads -> {"ready", "getting", "locked", "committed"}]
    /\ gets \in [Threads -> SUBSET Places]
    /\ own \in [Threads -> Nat]
    /\ reads \in [Threads -> SUBSET (Places \X Content)]
    /\ reported \subseteq Nat \X Nat

\* The engine implements Store: batches and transactions take effect at once,
\* a transaction only while everything it read under watch still holds, and a
\* crash leaves what was flushed or written with ukv_option_write_flush_k.
S == INSTANCE Store WITH Clients <- Threads,
                         contents <- Contents,
                         stable <- durable,
                         open <- txn

ImplementsStore == S!Spec

\* The sequence numbers of ukv_transaction_commit order the transactions as
\* they were committed, also while others write without asking for one.
ReportedInOrder ==
    \A a, b \in reported : a[1] < b[1] => a[2] < b[1] /\ a[2] < b[2]

=============================================================================
