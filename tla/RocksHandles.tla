---------------------------- MODULE RocksHandles ----------------------------
(***************************************************************************)
(* The handles that src/engine_rocksdb.cpp gives to its clients: snapshots *)
(* (db.snapshots, under db.mutex) and collections (db.columns), and the    *)
(* reads, writes and drops that go through them.  Transactions are in      *)
(* module Rocks.                                                           *)
(*                                                                         *)
(* External: RocksDB writes a batch at once, an iterator shows the pairs   *)
(* of the moment it was made, a snapshot those of the moment it was taken, *)
(* until it is released; the name of a column family in use is refused.    *)
(* db.columns has no lock; single accesses to it are taken as atomic.      *)
(***************************************************************************)
EXTENDS RocksBase

CONSTANTS
    Main,            \* the default column family
    Names,           \* names of collections
    Cells,           \* column families and keys in use
    EmptyValue,      \* the empty blob
    Snapshots        \* addresses of rocks_snapshot_t

CellContent == Values \cup {EmptyValue, Missing}

\* What the theorems about this module need of its constants.
ConstantsApart ==
    /\ Main \in Families
    /\ Cells # {}
    /\ \A p \in Cells : p[1] \in Families
    /\ None \notin CellContent \cup Names \cup Families

VARIABLES
    contents,    \* the pairs
    named,       \* the name of every column family that exists
    columns,     \* db.columns without the default column family
    snapshots,   \* db.snapshots
    view,        \* what every snapshot of the library shows
    doing,       \* where each thread is inside a call
    target,      \* the name, snapshot or family it is about, if there is one
    collected,   \* the places a drop is going to empty
    left,        \* what it leaves there
    got,         \* what a read has got so far
    taken,       \* history: the pairs when a snapshot was taken
    since        \* history: the places written since a drop looked at them

calls == <<doing, target, collected, left, got>>
handleVars == <<contents, named, columns, snapshots, view, doing, target,
                collected, left, got, taken, since>>

-----------------------------------------------------------------------------

Released == [p \in Cells |-> None]
Nowhere == [p \in Cells |-> None]
Forgotten == [p \in Cells |-> Missing]

Exists(f) == f = Main \/ named[f] # None

HandlesInit ==
    /\ contents = [p \in Cells |-> Missing]
    /\ named = [f \in Families |-> None]
    /\ columns = << >>
    /\ snapshots = {}
    /\ view = [s \in Snapshots |-> Released]
    /\ doing = [t \in Threads |-> "ready"]
    /\ target = [t \in Threads |-> None]
    /\ collected = [t \in Threads |-> {}]
    /\ left = [t \in Threads |-> Missing]
    /\ got = [t \in Threads |-> Nowhere]
    /\ taken = [s \in Snapshots |-> Released]
    /\ since = [t \in Threads |-> {}]

\* The drops under way remember what is written.
Writes(P) ==
    since' = [t \in Threads |-> IF doing[t] = "clearing" THEN since[t] \cup P ELSE {}]

Turns(t, step, x) ==
    /\ doing' = [doing EXCEPT ![t] = step]
    /\ target' = [target EXCEPT ![t] = x]

-----------------------------------------------------------------------------
(* Writes and reads.                                                        *)

\* ukv_write of one value to some places: write_one and write_many.
HandlesWrite(t, P, v) ==
    /\ doing[t] = "ready"
    /\ P # {}
    /\ \A p \in P : Exists(p[1])
    /\ contents' = [p \in Cells |-> IF p \in P THEN v ELSE contents[p]]
    /\ Writes(P)
    /\ UNCHANGED <<named, columns, snapshots, view, calls, taken>>

\* What the options of a read show: a snapshot that was released in the
\* meantime is a null pointer there, and null stands for the present.
Seen(s) == IF view[s] = Released THEN contents ELSE view[s]

\* ukv_read through a snapshot: the handle is looked for in db.snapshots ...
ReadStarts(t, s) ==
    /\ doing[t] = "ready"
    /\ s \in snapshots
    /\ Turns(t, "reading", s)
    /\ UNCHANGED <<contents, named, columns, snapshots, view, collected, left,
                   got, taken, since>>

\* ... and all places are read at once: read_one and read_many.
ReadGets(t) ==
    /\ doing[t] = "reading"
    /\ got' = [got EXCEPT ![t] = [p \in Cells |->
                    IF Exists(p[1]) THEN Seen(target[t])[p] ELSE None]]
    /\ doing' = [doing EXCEPT ![t] = "read"]
    /\ UNCHANGED <<contents, named, columns, snapshots, view, target,
                   collected, left, taken, since>>

ReadEnds(t) ==
    /\ doing[t] = "read"
    /\ Turns(t, "ready", None)
    /\ got' = [got EXCEPT ![t] = Nowhere]
    /\ UNCHANGED <<contents, named, columns, snapshots, view, collected, left,
                   taken, since>>

-----------------------------------------------------------------------------
(* Snapshots.                                                               *)

\* ukv_snapshot_create, under the mutex.  The objects are never deleted, so
\* that an address is given once.
SnapshotCreate(t, s) ==
    /\ doing[t] = "ready"
    /\ taken[s] = Released
    /\ snapshots' = snapshots \cup {s}
    /\ view' = [view EXCEPT ![s] = contents]
    /\ taken' = [taken EXCEPT ![s] = contents]
    /\ UNCHANGED <<contents, named, columns, calls, since>>

\* ukv_snapshot_list.
SnapshotList == snapshots

\* ukv_snapshot_drop: a snapshot that was dropped before is left alone, ...
SnapshotDrops(t, s) ==
    /\ doing[t] = "ready"
    /\ view[s] # Released
    /\ Turns(t, "dropping", s)
    /\ UNCHANGED <<contents, named, columns, snapshots, view, collected,
                   left, got, taken, since>>

\* ... another one is released and forgotten, before the mutex is asked for.
SnapshotRelease(t) ==
    /\ doing[t] = "dropping"
    /\ view[target[t]] # Released
    /\ view' = [view EXCEPT ![target[t]] = Released]
    /\ taken' = [taken EXCEPT ![target[t]] = Forgotten]
    /\ doing' = [doing EXCEPT ![t] = "released"]
    /\ UNCHANGED <<contents, named, columns, snapshots, target, collected,
                   left, got, since>>

\* No lock is held from the test to the release: when two threads drop one
\* snapshot, the second hands the library a snapshot that it has freed, or a
\* null pointer.  What follows is undefined, and no step is modelled after it.
SnapshotReleasesTwice(t) ==
    /\ doing[t] = "dropping"
    /\ view[target[t]] = Released
    /\ doing' = [doing EXCEPT ![t] = "undefined"]
    /\ UNCHANGED <<contents, named, columns, snapshots, view, target,
                   collected, left, got, taken, since>>

Defined == \A t \in Threads : doing[t] # "undefined"

SnapshotErase(t) ==
    /\ doing[t] = "released"
    /\ snapshots' = snapshots \ {target[t]}
    /\ Turns(t, "ready", None)
    /\ UNCHANGED <<contents, named, columns, view, collected, left,
                   got, taken, since>>

-----------------------------------------------------------------------------
(* Collections.                                                             *)

\* ukv_collection_create compares the name with those in db.columns ...
CreateChecks(t, n) ==
    /\ doing[t] = "ready"
    /\ \A i \in DOMAIN columns : named[columns[i]] # n
    /\ Turns(t, "checked", n)
    /\ UNCHANGED <<contents, named, columns, snapshots, view,
                   collected, left, got, taken, since>>

\* ... and has RocksDB create the family, which fails for a name in use.
Creates(t, f) ==
    /\ doing[t] = "checked"
    /\ ~Exists(f)
    /\ \A g \in Families : named[g] # target[t]
    /\ named' = [named EXCEPT ![f] = target[t]]
    /\ columns' = Append(columns, f)
    /\ contents' = [p \in Cells |-> IF p[1] = f THEN Missing ELSE contents[p]]
    /\ Turns(t, "ready", None)
    /\ UNCHANGED <<snapshots, view, collected, left, got, taken, since>>

CreateFails(t) ==
    /\ doing[t] = "checked"
    /\ \E g \in Families : named[g] = target[t]
    /\ Turns(t, "ready", None)
    /\ UNCHANGED <<contents, named, columns, snapshots, view,
                   collected, left, got, taken, since>>

\* ukv_collection_list: names and handles.
CollectionList == [i \in DOMAIN columns |-> <<named[columns[i]], columns[i]>>]

\* Mutant of ToClear: the handle is not looked at.
ToClearMain(f) == Main

\* The handle of a collection; any other is stale, or was never given out.
Listed(f) == f = Main \/ \E i \in DOMAIN columns : columns[i] = f

\* The loop over db.columns: the column asked for, or else the last one, which
\* may be the default.
ToClear(f) ==
    IF Listed(f)
    THEN f
    ELSE IF columns = << >> THEN Main ELSE columns[Len(columns)]

\* Mutant of DropHandle: the handle stays in db.columns.
DropFamilyOnly(t, f) ==
    /\ doing[t] = "ready"
    /\ f # Main /\ ToClear(f) # Main
    /\ named' = [named EXCEPT ![ToClear(f)] = None]
    /\ UNCHANGED <<contents, columns, snapshots, view, calls, taken, since>>

\* db.columns.erase
Erased(i) == SubSeq(columns, 1, i - 1) \o SubSeq(columns, i + 1, Len(columns))

\* ukv_collection_drop with the handle: the first place it is found at.  RocksDB
\* refuses to drop the default column.
DropHandle(t, f) ==
    /\ doing[t] = "ready"
    /\ f # Main
    /\ \E i \in 1..Len(columns) :
          /\ columns[i] = ToClear(f)
          /\ \A j \in 1..i - 1 : columns[j] # columns[i]
          /\ named' = [named EXCEPT ![columns[i]] = None]
          /\ columns' = Erased(i)
    /\ UNCHANGED <<contents, snapshots, view, calls, taken, since>>

\* Without the handle: all keys of an iterator are put into a batch, with the
\* empty value for ukv_drop_vals_k.
ClearCollects(t, f, v) ==
    /\ doing[t] = "ready"
    /\ collected' = [collected EXCEPT ![t] =
            {p \in Cells : p[1] = ToClear(f) /\ contents[p] # Missing}]
    /\ left' = [left EXCEPT ![t] = v]
    /\ Turns(t, "clearing", IF Listed(f) THEN f ELSE None)
    /\ UNCHANGED <<contents, named, columns, snapshots, view, got,
                   taken, since>>

\* The batch is written: a pair put since then to one of the keys is lost, one
\* under another key stays.
ClearApplies(t) ==
    /\ doing[t] = "clearing"
    /\ contents' = [p \in Cells |-> IF p \in collected[t] THEN left[t] ELSE contents[p]]
    /\ since' = [u \in Threads |-> IF doing[u] = "clearing" /\ u # t
                                    THEN since[u] \cup collected[t] ELSE {}]
    /\ collected' = [collected EXCEPT ![t] = {}]
    /\ left' = [left EXCEPT ![t] = Missing]
    /\ Turns(t, "ready", None)
    /\ UNCHANGED <<named, columns, snapshots, view, got, taken>>

-----------------------------------------------------------------------------

HandlesNext ==
    /\ Defined
    /\ \E t \in Threads :
        \/ \E P \in SUBSET Cells, v \in CellContent : HandlesWrite(t, P, v)
        \/ \E s \in Snapshots :
              SnapshotCreate(t, s) \/ SnapshotDrops(t, s) \/ ReadStarts(t, s)
        \/ SnapshotRelease(t) \/ SnapshotReleasesTwice(t) \/ SnapshotErase(t)
        \/ ReadGets(t) \/ ReadEnds(t)
        \/ \E n \in Names : CreateChecks(t, n)
        \/ \E f \in Families :
              \/ Creates(t, f)
              \/ DropHandle(t, f)
              \/ \E v \in {Missing, EmptyValue} : ClearCollects(t, f, v)
        \/ CreateFails(t)
        \/ ClearApplies(t)

HandlesSpec == HandlesInit /\ [][HandlesNext]_handleVars

-----------------------------------------------------------------------------
(* Properties.                                                              *)

Steps == {"ready", "reading", "read", "dropping", "released", "checked", "clearing",
          "undefined"}

HandlesTypeOK ==
    /\ contents \in [Cells -> CellContent]
    /\ named \in [Families -> Names \cup {None}]
    /\ \A i \in DOMAIN columns : columns[i] \in Families \ {Main}
    /\ snapshots \subseteq Snapshots
    /\ view \in [Snapshots -> [Cells -> CellContent] \cup {Released}]
    /\ doing \in [Threads -> Steps]
    /\ target \in [Threads -> Families \cup Names \cup Snapshots \cup {None}]
    /\ collected \in [Threads -> SUBSET Cells]
    /\ left \in [Threads -> {Missing, EmptyValue}]
    /\ got \in [Threads -> [Cells -> CellContent \cup {None}]]
    /\ taken \in [Snapshots -> [Cells -> CellContent] \cup {Released}]
    /\ since \in [Threads -> SUBSET Cells]

\* All values of one ukv_read through a snapshot are those of the moment the
\* snapshot was taken, whatever other threads write before it, after it or
\* between the gets of LevelDB, as long as nobody drops the snapshot meanwhile.
SnapshotReadsFrozen ==
    \A t \in Threads :
        doing[t] \in {"reading", "read"} /\ view[target[t]] # Released =>
            \A p \in Cells : got[t][p] \in {None, taken[target[t]][p]}

\* The snapshots of the library and those of db.snapshots are the same, but for
\* the ones whose drop is between its two steps: none leaks, and every handle
\* that ukv_snapshot_list returns can be read through.
SnapshotsMatch ==
    \A s \in Snapshots :
        s \in SnapshotList <=> \/ view[s] # Released
                               \/ \E t \in Threads : doing[t] = "released" /\ target[t] = s

\* db.columns lists exactly the column families that RocksDB has, each once
\* and under a name of its own, also when two threads create the same name.
ColumnsMatch ==
    /\ \A f \in Families \ {Main} :
          Exists(f) <=> \E i \in DOMAIN columns : \A j \in DOMAIN columns :
                           CollectionList[j] = <<named[f], f>> <=> j = i
    /\ \A f, g \in Families : named[f] = named[g] /\ named[f] # None => f = g

\* When a drop that keeps the handle returns, what is left under a key of the
\* collection is what the drop leaves, or was written since the drop began; and
\* of no other collection has it touched a pair.  Only with a handle that is not
\* in db.columns, for which target is None, it empties one nobody asked for.
DropEmpties ==
    [][\A t \in Threads : ClearApplies(t) =>
          \A p \in Cells :
              /\ p[1] = target[t] =>
                    contents'[p] \in {Missing, left[t]} \/ p \in since[t]
              /\ contents'[p] # contents[p] => target[t] \in {p[1], None}]_handleVars

\* What the engine lists and what the library has are the same, for snapshots
\* and for collections; the variables keep their types.
HandlesMatch == HandlesTypeOK /\ SnapshotsMatch /\ ColumnsMatch
=============================================================================
