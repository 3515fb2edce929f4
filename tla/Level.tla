-------------------------------- MODULE Level -------------------------------
(***************************************************************************)
(* src/engine_leveldb.cpp beside src/engine_rocksdb.cpp: which of the two  *)
(* a process is linked with is chosen when it starts.  LevelDB has the     *)
(* main collection alone and no transactions.  Its snapshots are kept like *)
(* those of RocksDB; a ukv_read gets its keys one after the other.         *)
(*                                                                         *)
(* External: leveldb::DB::Write writes a batch at once, iterators and      *)
(* snapshots show the pairs of the moment they were made.                  *)
(***************************************************************************)
EXTENDS RocksHandles

VARIABLE linked      \* the engine the process is linked with

allVars == <<handleVars, linked>>

MainPlaces == {p \in Cells : p[1] = Main}

\* ukv_database_init of either engine, on a new directory.
EnginesInit == HandlesInit /\ linked \in {"rocks", "level"}

-----------------------------------------------------------------------------

\* ukv_write: write_one and write_many.  validate_write refuses collections
\* and transactions.
LevelWrite(t, P, v) == P \subseteq MainPlaces /\ HandlesWrite(t, P, v)

\* ukv_read: with a snapshot, the handle is looked for in db.snapshots.
LevelReadStarts(t, s) == ReadStarts(t, s)

\* Mutant of Enumerated: each get takes the options anew, without the snapshot
\* after the first.
EnumeratedNow(t, p) ==
    IF got[t] = Nowhere THEN Seen(target[t])[p] ELSE contents[p]

Enumerated(t, p) == Seen(target[t])[p]

\* read_enumerate: one get.
LevelReadGets(t, p) ==
    /\ doing[t] = "reading"
    /\ got[t][p] = None
    /\ got' = [got EXCEPT ![t][p] = Enumerated(t, p)]
    /\ UNCHANGED <<contents, named, columns, snapshots, view, doing, target,
                   collected, left, taken, since>>

LevelReadEnds(t) ==
    /\ doing[t] = "reading"
    /\ got[t] # Nowhere
    /\ Turns(t, "ready", None)
    /\ got' = [got EXCEPT ![t] = Nowhere]
    /\ UNCHANGED <<contents, named, columns, snapshots, view, collected, left,
                   taken, since>>

\* ukv_snapshot_create and ukv_snapshot_drop.
LevelSnapshotCreate(t, s) == SnapshotCreate(t, s)
LevelSnapshotDrops(t, s) == SnapshotDrops(t, s)
LevelSnapshotRelease(t) == SnapshotRelease(t) \/ SnapshotReleasesTwice(t)
LevelSnapshotErase(t) == SnapshotErase(t)

\* ukv_collection_drop: of the main collection and without the handle only.
LevelClearCollects(t, v) ==
    /\ doing[t] = "ready"
    /\ collected' = [collected EXCEPT ![t] =
            {p \in MainPlaces : contents[p] # Missing}]
    /\ left' = [left EXCEPT ![t] = v]
    /\ Turns(t, "clearing", Main)
    /\ UNCHANGED <<contents, named, columns, snapshots, view, got, taken, since>>

LevelClearApplies(t) == ClearApplies(t)

LevelNext ==
    /\ Defined
    /\ \E t \in Threads :
        \/ \E P \in SUBSET MainPlaces, v \in CellContent : LevelWrite(t, P, v)
        \/ \E s \in Snapshots :
              \/ LevelSnapshotCreate(t, s)
              \/ LevelSnapshotDrops(t, s)
              \/ LevelReadStarts(t, s)
        \/ LevelSnapshotRelease(t) \/ LevelSnapshotErase(t)
        \/ \E p \in MainPlaces : LevelReadGets(t, p)
        \/ LevelReadEnds(t)
        \/ \E v \in {Missing, EmptyValue} : LevelClearCollects(t, v)
        \/ LevelClearApplies(t)

EnginesNext ==
    /\ \/ linked = "rocks" /\ HandlesNext
       \/ linked = "level" /\ LevelNext
    /\ UNCHANGED linked

EnginesSpec == EnginesInit /\ [][EnginesNext]_allVars

=============================================================================
