-------------------------------- MODULE UMem --------------------------------
(***************************************************************************)
(* The transactional core of the in-memory engine (src/engine_umem.cpp):   *)
(* ukv_read, ukv_write, ukv_scan, ukv_transaction_init and                 *)
(* ukv_transaction_commit over one collection, called by several threads.  *)
(*                                                                         *)
(* The pairs live in a ucset_t, an external library: a locked ordered set  *)
(* with optimistic transactions.  Every call of one of its methods takes   *)
(* its lock, so a call is an action, and the loops of the engine around    *)
(* those calls interleave.  What is assumed of the library:                *)
(*   - watch(k) remembers the generation of the visible pair under k, and  *)
(*     keeps what an earlier watch(k) of the transaction remembered;       *)
(*   - find and upper_bound of a transaction see its own changes first;    *)
(*   - stage() fails when a watched pair has another generation by now or, *)
(*     if StageSeesStaged, when a transaction between its stage() and its  *)
(*     commit() changes it; it gives the transaction its generation;       *)
(*   - commit() shows the changes at once, except where a newer generation *)
(*     is already visible.                                                 *)
(***************************************************************************)
EXTENDS Integers, FiniteSets

CONSTANTS
    Threads,          \* each with a ukv_transaction_t of its own
    Keys,             \* ukv_key_t
    Values,           \* blobs
    Missing,          \* no pair under the key
    NullRange,        \* a pair with a null range: reads as missing, is scanned
    Untouched,        \* a key the transaction does not change
    Starts,           \* start_keys of scans
    Limits,           \* count_limits of scans
    DontWatch,        \* settings of ukv_option_transaction_dont_watch_k in use
    WriteBatches,     \* key sets of the batches written outside transactions
    ReadBatches,      \* key sets of the batches read outside transactions
    MaxGeneration,    \* bound: writes stop at this generation
    MaxAccesses,      \* bound: reads and written keys of one transaction
    StageSeesStaged   \* assumption on ucset, see above

ASSUME DataAssumption ==
    /\ Keys \subseteq Int /\ Keys # {}
    /\ Missing \notin Values
    /\ NullRange \notin Values
    /\ Missing # NullRange
    /\ Untouched \notin Values \cup {Missing, NullRange}
    /\ Starts \subseteq Keys
    /\ WriteBatches \subseteq SUBSET Keys
    /\ ReadBatches \subseteq SUBSET Keys

ASSUME BoundsAssumption ==
    /\ Limits \subseteq Nat
    /\ DontWatch \subseteq BOOLEAN
    /\ MaxGeneration \in Nat
    /\ MaxAccesses \in Nat
    /\ StageSeesStaged \in BOOLEAN

VARIABLES
    pairs,      \* the visible pairs: key -> value and generation
    clock,      \* the last generation given out
    txn,        \* life cycle of each thread's transaction
    gen,        \* its generation(), once staged
    watches,    \* its watches: key -> generation or Unwatched
    changes,    \* its changes: key -> value, Missing (erased) or Untouched
    at,         \* what the thread is doing between two calls of ucset
    cursor,     \* the key of find_and_watch; `previous` of scan_and_watch
    found,      \* match_idx of scan_and_watch
    limit,      \* range_limit of scan_and_watch
    todo,       \* keys a batch read has yet to find
    got,        \* history: what the batch read returned so far
    reads,      \* history: key and value of every watched read
    skipped,    \* history: keys its scans passed as missing from the store
    log         \* history: what was applied, in the order of generations

store == <<pairs, clock, log>>
mine == <<txn, gen, watches, changes, reads, skipped>>
call == <<at, cursor, found, limit, todo, got>>
vars == <<pairs, clock, txn, gen, watches, changes,
          at, cursor, found, limit, todo, got, reads, skipped, log>>

-----------------------------------------------------------------------------

Unwatched == -1

Stored == Values \cup {Missing, NullRange}
Entry == [val : Stored, gen : Nat]
Record == [gen : Nat, reads : SUBSET (Keys \X Stored), skipped : SUBSET Keys,
           writes : [Keys -> Stored \cup {Untouched}]]

\* What the caller of ukv_read is told: presence is `bool(value_view_t)`.
Shown(val) == IF val = NullRange THEN Missing ELSE val

Steps == {"ready", "watched", "scanning", "reading", "staged"}

TypeOK ==
    /\ pairs \in [Keys -> Entry]
    /\ clock \in Nat
    /\ txn \in [Threads -> {"none", "open", "staged"}]
    /\ gen \in [Threads -> Nat]
    /\ watches \in [Threads -> [Keys -> Nat \cup {Unwatched}]]
    /\ changes \in [Threads -> [Keys -> Values \cup {Missing, Untouched}]]
    /\ at \in [Threads -> Steps]
    /\ cursor \in [Threads -> Keys]
    /\ found \in [Threads -> Nat]
    /\ limit \in [Threads -> Nat]
    /\ todo \in [Threads -> SUBSET Keys]
    /\ got \in [Threads -> SUBSET (Keys \X Stored)]
    /\ reads \in [Threads -> SUBSET (Keys \X Stored)]
    /\ skipped \in [Threads -> SUBSET Keys]
    /\ log \subseteq Record

NoKey == CHOOSE k \in Keys : TRUE
NoWatches == [k \in Keys |-> Unwatched]
NoChanges == [k \in Keys |-> Untouched]

Init ==
    /\ pairs = [k \in Keys |-> [val |-> Missing, gen |-> 0]]
    /\ clock = 0
    /\ txn = [t \in Threads |-> "none"]
    /\ gen = [t \in Threads |-> 0]
    /\ watches = [t \in Threads |-> NoWatches]
    /\ changes = [t \in Threads |-> NoChanges]
    /\ at = [t \in Threads |-> "ready"]
    /\ cursor = [t \in Threads |-> NoKey]
    /\ found = [t \in Threads |-> 0]
    /\ limit = [t \in Threads |-> 0]
    /\ todo = [t \in Threads |-> {}]
    /\ got = [t \in Threads |-> {}]
    /\ reads = [t \in Threads |-> {}]
    /\ skipped = [t \in Threads |-> {}]
    /\ log = {}

-----------------------------------------------------------------------------
(* The library's transaction, as the engine uses it.                        *)

Open(t) == txn[t] = "open" /\ at[t] = "ready"

\* The API call returns: its locals go.
Returns(t) ==
    /\ at' = [at EXCEPT ![t] = "ready"]
    /\ cursor' = [cursor EXCEPT ![t] = NoKey]
    /\ found' = [found EXCEPT ![t] = 0]
    /\ limit' = [limit EXCEPT ![t] = 0]
    /\ todo' = [todo EXCEPT ![t] = {}]
    /\ got' = [got EXCEPT ![t] = {}]

\* The transaction object is empty from here on.
Resets(t) ==
    /\ gen' = [gen EXCEPT ![t] = 0]
    /\ watches' = [watches EXCEPT ![t] = NoWatches]
    /\ changes' = [changes EXCEPT ![t] = NoChanges]
    /\ reads' = [reads EXCEPT ![t] = {}]
    /\ skipped' = [skipped EXCEPT ![t] = {}]

Changed(t, k) == changes[t][k] # Untouched

MayAccess(t) ==
    /\ Open(t)
    /\ Cardinality(reads[t]) + Cardinality({k \in Keys : Changed(t, k)}) < MaxAccesses

\* The pair a transaction finds under a key.
View(t, k) == IF txn[t] = "open" /\ Changed(t, k) THEN changes[t][k] ELSE pairs[k].val

Watching(t, ks) ==
    [k \in Keys |-> IF k \in ks /\ watches[t][k] = Unwatched
                    THEN pairs[k].gen ELSE watches[t][k]]

Valid(t) ==
    \A k \in Keys : watches[t][k] # Unwatched =>
       /\ pairs[k].gen = watches[t][k]
       /\ StageSeesStaged =>
             \A u \in Threads : txn[u] = "staged" => ~Changed(u, k)

Changing(t, k, v) == [changes[t] EXCEPT ![k] = v]

\* What is visible once the writes of one generation are.
Publish(writes, g) ==
    [k \in Keys |-> IF writes[k] # Untouched /\ pairs[k].gen < g
                    THEN [val |-> writes[k], gen |-> g] ELSE pairs[k]]

-----------------------------------------------------------------------------
(* ukv_transaction_init, ukv_transaction_free.                              *)

TxnInit(t) ==
    /\ at[t] = "ready"
    /\ txn' = [txn EXCEPT ![t] = "open"]
    /\ Resets(t)
    /\ UNCHANGED <<store, call>>

TxnFree(t) ==
    /\ Open(t)
    /\ txn' = [txn EXCEPT ![t] = "none"]
    /\ Resets(t)
    /\ UNCHANGED <<store, call>>

-----------------------------------------------------------------------------
(* ukv_read within a transaction: find_and_watch of each key.  With         *)
(* ukv_option_transaction_dont_watch_k nothing is watched, and the read     *)
(* changes nothing.                                                         *)

\* Variant: the key is not watched.
ReadWatchForgotten(t, k) ==
    /\ MayAccess(t)
    /\ at' = [at EXCEPT ![t] = "watched"]
    /\ cursor' = [cursor EXCEPT ![t] = k]
    /\ UNCHANGED <<store, mine, found, limit, todo, got>>

ReadWatch(t, k) ==
    /\ MayAccess(t)
    /\ at' = [at EXCEPT ![t] = "watched"]
    /\ cursor' = [cursor EXCEPT ![t] = k]
    /\ watches' = [watches EXCEPT ![t] = Watching(t, {k})]
    /\ UNCHANGED <<store, txn, gen, changes, reads, skipped, found, limit, todo, got>>

ReadFind(t) ==
    /\ at[t] = "watched"
    /\ Returns(t)
    /\ reads' = [reads EXCEPT ![t] =
          IF Changed(t, cursor[t]) THEN @
          ELSE @ \cup {<<cursor[t], Shown(pairs[cursor[t]].val)>>}]
    /\ UNCHANGED <<store, txn, gen, watches, changes, skipped>>

-----------------------------------------------------------------------------
(* ukv_write.  Within a transaction each pair is watched, unless the option *)
(* says not to, and then upserted or erased among the private changes.      *)

TxnWrite(t, k, v, dont_watch) ==
    /\ MayAccess(t)
    /\ watches' = [watches EXCEPT ![t] = IF dont_watch THEN @ ELSE Watching(t, {k})]
    /\ changes' = [changes EXCEPT ![t] = Changing(t, k, v)]
    /\ UNCHANGED <<store, txn, gen, reads, skipped, call>>

\* Outside transactions the whole batch is one upsert; a missing content is
\* upserted as a pair with a null range.
HeadWrite(ks, v) ==
    LET writes == [k \in Keys |-> IF k \in ks THEN v ELSE Untouched]
    IN  /\ clock < MaxGeneration
        /\ clock' = clock + 1
        /\ pairs' = Publish(writes, clock + 1)
        /\ log' = log \cup {[gen |-> clock + 1, reads |-> {}, skipped |-> {}, writes |-> writes]}
        /\ UNCHANGED <<mine, call>>

-----------------------------------------------------------------------------
(* ukv_scan: scan_and_watch.  The first call is find(start), every further  *)
(* one upper_bound(previous); a pair found within a transaction is watched. *)

InTxn(t) == txn[t] = "open"

Present(t, k) == View(t, k) # Missing

Following(t, k) == {n \in Keys : n > k /\ Present(t, n)}

\* The callback of a found pair, the n-th of the scan.
Finds(t, k, n) ==
    /\ cursor' = [cursor EXCEPT ![t] = k]
    /\ found' = [found EXCEPT ![t] = n]
    /\ watches' = [watches EXCEPT ![t] = IF InTxn(t) THEN Watching(t, {k}) ELSE @]
    /\ reads' = [reads EXCEPT ![t] =
          IF ~InTxn(t) \/ Changed(t, k) THEN @ ELSE @ \cup {<<k, Shown(pairs[k].val)>>}]

\* Nothing under these keys, so far as the store is concerned.
Passes(t, ks) ==
    skipped' = [skipped EXCEPT ![t] =
       IF InTxn(t) THEN @ \cup {k \in ks : ~Changed(t, k)} ELSE @]

ScanStart(t, k, n) ==
    /\ at[t] = "ready"
    /\ at' = [at EXCEPT ![t] = "scanning"]
    /\ limit' = [limit EXCEPT ![t] = n]
    /\ IF Present(t, k)
       THEN Finds(t, k, 1) /\ UNCHANGED skipped
       ELSE /\ cursor' = [cursor EXCEPT ![t] = k]
            /\ Passes(t, {k})
            /\ UNCHANGED <<found, watches, reads>>
    /\ UNCHANGED <<store, txn, gen, changes, todo, got>>

\* Variant: the loop runs while the limit is not exceeded.
ScanMoreThanLimit(t) == at[t] = "scanning" /\ found[t] <= limit[t]

\* `while (match_idx != range_limit && !reached_end)`
ScanMore(t) == at[t] = "scanning" /\ found[t] # limit[t]

ScanNext(t) ==
    /\ ScanMore(t)
    /\ \E k \in Following(t, cursor[t]) :
          /\ \A n \in Following(t, cursor[t]) : k <= n
          /\ Finds(t, k, found[t] + 1)
          /\ Passes(t, {n \in Keys : cursor[t] < n /\ n < k})
    /\ UNCHANGED <<store, txn, gen, changes, at, limit, todo, got>>

ScanEnd(t) ==
    /\ ScanMore(t)
    /\ Following(t, cursor[t]) = {}
    /\ Returns(t)
    /\ Passes(t, {n \in Keys : cursor[t] < n})
    /\ UNCHANGED <<store, txn, gen, watches, changes, reads>>

ScanFull(t) ==
    /\ at[t] = "scanning"
    /\ found[t] = limit[t]
    /\ Returns(t)
    /\ UNCHANGED <<store, mine>>

-----------------------------------------------------------------------------
(* ukv_transaction_commit: stage() and commit(), two calls of the library.  *)
(* When stage() fails the error is returned and nothing changes.            *)

Stage(t) ==
    /\ Open(t)
    /\ Valid(t)
    /\ clock < MaxGeneration
    /\ clock' = clock + 1
    /\ gen' = [gen EXCEPT ![t] = clock + 1]
    /\ txn' = [txn EXCEPT ![t] = "staged"]
    /\ at' = [at EXCEPT ![t] = "staged"]
    /\ UNCHANGED <<pairs, log, watches, changes, reads, skipped,
                   cursor, found, limit, todo, got>>

Applied(t) == [gen |-> gen[t], reads |-> reads[t], skipped |-> skipped[t],
               writes |-> changes[t]]

\* Variant: erased keys stay.
CommitWithoutErasures(t) ==
    /\ at[t] = "staged"
    /\ pairs' = Publish([k \in Keys |-> IF changes[t][k] = Missing
                                        THEN Untouched ELSE changes[t][k]], gen[t])
    /\ log' = log \cup {Applied(t)}
    /\ txn' = [txn EXCEPT ![t] = "none"]
    /\ Resets(t)
    /\ Returns(t)
    /\ UNCHANGED clock

Commit(t) ==
    /\ at[t] = "staged"
    /\ pairs' = Publish(changes[t], gen[t])
    /\ log' = log \cup {Applied(t)}
    /\ txn' = [txn EXCEPT ![t] = "none"]
    /\ Resets(t)
    /\ Returns(t)
    /\ UNCHANGED clock

-----------------------------------------------------------------------------
(* ukv_read outside transactions: one find per key of the batch.            *)

HeadRead(t, ks) ==
    /\ at[t] = "ready"
    /\ txn[t] = "none"
    /\ at' = [at EXCEPT ![t] = "reading"]
    /\ todo' = [todo EXCEPT ![t] = ks]
    /\ got' = [got EXCEPT ![t] = {}]
    /\ UNCHANGED <<store, mine, cursor, found, limit>>

\* Variant: a null range is handed out as a value.
HeadFindRaw(t, k) ==
    /\ at[t] = "reading"
    /\ k \in todo[t]
    /\ todo' = [todo EXCEPT ![t] = @ \ {k}]
    /\ got' = [got EXCEPT ![t] = @ \cup {<<k, pairs[k].val>>}]
    /\ UNCHANGED <<store, mine, at, cursor, found, limit>>

HeadFind(t, k) ==
    /\ at[t] = "reading"
    /\ k \in todo[t]
    /\ todo' = [todo EXCEPT ![t] = @ \ {k}]
    /\ got' = [got EXCEPT ![t] = @ \cup {<<k, Shown(pairs[k].val)>>}]
    /\ UNCHANGED <<store, mine, at, cursor, found, limit>>

HeadReturn(t) ==
    /\ at[t] = "reading"
    /\ todo[t] = {}
    /\ Returns(t)
    /\ UNCHANGED <<store, mine>>
-----------------------------------------------------------------------------

Next ==
    \/ \E t \in Threads :
          \/ TxnInit(t) \/ TxnFree(t)
          \/ \E k \in Keys : ReadWatch(t, k) \/ HeadFind(t, k)
          \/ ReadFind(t)
          \/ \E k \in Keys, v \in Values \cup {Missing}, dont_watch \in DontWatch :
                TxnWrite(t, k, v, dont_watch)
          \/ \E k \in Starts, n \in Limits : ScanStart(t, k, n)
          \/ ScanNext(t) \/ ScanEnd(t) \/ ScanFull(t)
          \/ Stage(t) \/ Commit(t)
          \/ \E ks \in ReadBatches : HeadRead(t, ks)
          \/ HeadReturn(t)
    \/ \E ks \in WriteBatches, v \in Values \cup {NullRange} : HeadWrite(ks, v)

Spec == Init /\ [][Next]_vars

-----------------------------------------------------------------------------
(* Properties.                                                              *)

\* Applied writes of a key up to a generation, and the value they leave.
Writers(k, g) == {r \in log : r.gen <= g /\ r.writes[k] # Untouched}

HoldsAt(k, v, g) ==
    IF Writers(k, g) = {} THEN v = Missing
    ELSE \E w \in Writers(k, g) :
            /\ \A x \in Writers(k, g) : x.gen <= w.gen
            /\ v = Shown(w.writes[k])

\* Committed transactions are serializable in the order of their sequence
\* numbers: everything a transaction read and watched is what the writes
\* applied before it left ("If the requested key was updated since the read,
\* the transaction will fail on commit", include/ukv/db.h:179).
Serializable ==
    \A r \in log : \A p \in r.reads : HoldsAt(p[1], p[2], r.gen - 1)

\* Replaying what was applied, ordered by sequence number, gives the visible
\* state: the claim of tests/stress_linearizability.cpp.
ReplayMatches == \A k \in Keys : HoldsAt(k, Shown(pairs[k].val), clock)

\* A key a scan passed over as missing is still missing when the transaction
\* of the scan takes its place in the serial order ("reads are Serializable",
\* include/ukv/README.md:188).
NoPhantoms ==
    \A r \in log : \A k \in r.skipped : HoldsAt(k, Missing, r.gen - 1)

\* A batch read outside transactions returns values that were in the store
\* together (include/ukv/README.md:196: head reads are "Strict Serial").
BatchReadsConsistent ==
    \A t \in Threads : at[t] = "reading" /\ todo[t] = {} =>
       \E g \in 0..clock : \A p \in got[t] : HoldsAt(p[1], p[2], g)

\* Each value that a batch read outside transactions returns is what the writes
\* up to some generation left under its key, though the lookups of the batch
\* interleave with stage(), commit() and writes: never a value that was staged
\* and not committed, never a null range (ukv_read).  That all of a batch were
\* there together does not hold: see BatchReadsConsistent.
EachReadHeld ==
    \A t \in Threads : \A p \in got[t] : \E g \in 0..clock : HoldsAt(p[1], p[2], g)

\* A scan never exports more keys than were asked for, and allocated
\* (include/ukv/blobs.h:529: "count_limits[i] >= counts[i]").
ScanWithinLimit == \A t \in Threads : found[t] <= limit[t]
-----------------------------------------------------------------------------
(* The inductive invariant behind Serializable and ReplayMatches.           *)

\* A transaction has a generation of its own from stage() on.
GenerationsApart ==
    /\ \A r \in log : 0 < r.gen /\ r.gen <= clock
    /\ \A r, s \in log : r.gen = s.gen => r = s
    /\ \A t \in Threads : txn[t] = "staged" =>
          /\ 0 < gen[t] /\ gen[t] <= clock
          /\ \A r \in log : r.gen # gen[t]
          /\ \A u \in Threads \ {t} : txn[u] = "staged" => gen[u] # gen[t]

\* The visible pair is the newest one that was applied.
PairsNewest ==
    \A k \in Keys :
       /\ pairs[k].gen <= clock
       /\ \A r \in log : r.writes[k] # Untouched => r.gen <= pairs[k].gen
       /\ \/ pairs[k] = [val |-> Missing, gen |-> 0]
          \/ \E r \in log : /\ r.writes[k] # Untouched
                             /\ pairs[k] = [val |-> r.writes[k], gen |-> r.gen]

\* A watched read is current for as long as its watch is.
WatchedReads(t) ==
    /\ (at[t] = "staged") <=> (txn[t] = "staged")
    /\ at[t] = "watched" => txn[t] = "open" /\ watches[t][cursor[t]] # Unwatched
    /\ txn[t] = "open" =>
          /\ \A k \in Keys : watches[t][k] # Unwatched => watches[t][k] <= pairs[k].gen
          /\ \A p \in reads[t] :
                /\ watches[t][p[1]] # Unwatched
                /\ watches[t][p[1]] = pairs[p[1]].gen => p[2] = Shown(pairs[p[1]].val)

\* No transaction on its way to commit() will write before g what was read.
Settled(rs, g) ==
    \A p \in rs :
       /\ HoldsAt(p[1], p[2], g - 1)
       /\ \A u \in Threads : txn[u] = "staged" /\ gen[u] < g => ~Changed(u, p[1])

SerialInv ==
    /\ TypeOK
    /\ GenerationsApart
    /\ PairsNewest
    /\ \A t \in Threads : WatchedReads(t)
    /\ \A t \in Threads : txn[t] = "staged" => Settled(reads[t], gen[t])
    /\ \A r \in log : Settled(r.reads, r.gen)
-----------------------------------------------------------------------------
(* The inductive invariant behind EachReadHeld.                             *)

\* The value under a key was visible from a generation on: it was written
\* then, or nothing was written yet.
VisibleFrom(k, v, g) ==
    \/ g = 0 /\ v = Missing
    \/ \E r \in log : r.gen = g /\ r.writes[k] # Untouched /\ v = Shown(r.writes[k])

ReadsVisible ==
    \A t \in Threads : \A p \in got[t] : \E g \in 0..clock : VisibleFrom(p[1], p[2], g)
=============================================================================
