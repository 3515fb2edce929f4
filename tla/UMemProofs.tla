----------------------------- MODULE UMemProofs -----------------------------
(***************************************************************************)
(* What holds of UMem for any number of threads, keys and values: its      *)
(* state keeps its shape; the visible pairs are what the history gives;    *)
(* scans stay within their limits; and committed transactions are          *)
(* serializable by sequence number, provided that stage() refuses one that *)
(* watched what another transaction is about to commit.                    *)
(***************************************************************************)
EXTENDS UMem, TLAPS

-----------------------------------------------------------------------------
(* Types.                                                                   *)

\* The values the operators build are of their types.
LEMMA BuiltTypes ==
    ASSUME TypeOK, NEW t \in Threads
    PROVE  /\ NoKey \in Keys
           /\ NoWatches \in [Keys -> Nat \cup {Unwatched}]
           /\ NoChanges \in [Keys -> Values \cup {Missing, Untouched}]
           /\ \A ks : Watching(t, ks) \in [Keys -> Nat \cup {Unwatched}]
           /\ \A k \in Keys : Shown(pairs[k].val) \in Stored
           /\ \A k \in Keys, v \in Values \cup {Missing} :
                 Changing(t, k, v) \in [Keys -> Values \cup {Missing, Untouched}]
<1>1. NoKey \in Keys
  BY Zenon, DataAssumption DEF NoKey
<1>2. \A ks : Watching(t, ks) \in [Keys -> Nat \cup {Unwatched}]
  BY DEF TypeOK, Watching, Entry
<1>3. \A k \in Keys : Shown(pairs[k].val) \in Stored
  BY Zenon DEF TypeOK, Shown, Entry, Stored
<1>4. \A k \in Keys, v \in Values \cup {Missing} :
         Changing(t, k, v) \in [Keys -> Values \cup {Missing, Untouched}]
  BY Zenon DEF TypeOK, Changing
<1> QED
  BY Zenon, <1>1, <1>2, <1>3, <1>4 DEF NoWatches, NoChanges

\* Showing writes keeps the pairs well formed.
LEMMA PublishType ==
    ASSUME TypeOK, NEW writes \in [Keys -> Stored \cup {Untouched}], NEW g \in Nat
    PROVE  Publish(writes, g) \in [Keys -> Entry]
<1> SUFFICES ASSUME NEW k \in Keys
             PROVE  (IF writes[k] # Untouched /\ pairs[k].gen < g
                     THEN [val |-> writes[k], gen |-> g] ELSE pairs[k]) \in Entry
  BY Zenon DEF Publish
<1> QED
  BY Zenon DEF TypeOK, Entry, Stored

\* A call that returns, and a transaction object that is emptied.
LEMMA ReturnsType ==
    ASSUME TypeOK, NEW t \in Threads, Returns(t)
    PROVE  /\ at' \in [Threads -> Steps]
           /\ cursor' \in [Threads -> Keys]
           /\ found' \in [Threads -> Nat]
           /\ limit' \in [Threads -> Nat]
           /\ todo' \in [Threads -> SUBSET Keys]
           /\ got' \in [Threads -> SUBSET (Keys \X Stored)]
  BY Zenon, BuiltTypes DEF TypeOK, Returns, Steps

LEMMA ResetsType ==
    ASSUME TypeOK, NEW t \in Threads, Resets(t)
    PROVE  /\ gen' \in [Threads -> Nat]
           /\ watches' \in [Threads -> [Keys -> Nat \cup {Unwatched}]]
           /\ changes' \in [Threads -> [Keys -> Values \cup {Missing, Untouched}]]
           /\ reads' \in [Threads -> SUBSET (Keys \X Stored)]
           /\ skipped' \in [Threads -> SUBSET Keys]
  BY Zenon, BuiltTypes DEF TypeOK, Resets

LEMMA FindsType ==
    ASSUME TypeOK, NEW t \in Threads, NEW k \in Keys, NEW n \in Nat, Finds(t, k, n)
    PROVE  /\ cursor' \in [Threads -> Keys]
           /\ found' \in [Threads -> Nat]
           /\ watches' \in [Threads -> [Keys -> Nat \cup {Unwatched}]]
           /\ reads' \in [Threads -> SUBSET (Keys \X Stored)]
  BY BuiltTypes DEF TypeOK, Finds

LEMMA PassesType ==
    ASSUME TypeOK, NEW t \in Threads, NEW ks \in SUBSET Keys, Passes(t, ks)
    PROVE  skipped' \in [Threads -> SUBSET Keys]
  BY Zenon DEF TypeOK, Passes

\* What goes to the log is a record.
LEMMA AppliedType ==
    ASSUME TypeOK, NEW t \in Threads
    PROVE  /\ Applied(t) \in Record
           /\ changes[t] \in [Keys -> Stored \cup {Untouched}]
<1>1. changes[t] \in [Keys -> Stored \cup {Untouched}]
  BY DEF TypeOK, Stored
<1> QED
  BY Zenon, <1>1 DEF TypeOK, Applied, Record

LEMMA TypeInit == Init => TypeOK
<1> SUFFICES ASSUME Init PROVE TypeOK
  BY Zenon
<1>1. NoKey \in Keys
  BY Zenon, DataAssumption DEF NoKey
<1>2. [val |-> Missing, gen |-> 0] \in Entry
  BY Zenon DEF Entry, Stored
<1> QED
  BY Zenon, <1>1, <1>2 DEF Init, TypeOK, NoWatches, NoChanges, Steps, Unwatched

\* One step per action; a state part an action leaves alone keeps its type.
LEMMA TypeStep == TypeOK /\ [Next]_vars => TypeOK'
<1> SUFFICES ASSUME TypeOK, [Next]_vars PROVE TypeOK'
  BY Zenon
<1> USE DEF store, mine, call
<1>1. ASSUME NEW t \in Threads, TxnInit(t) \/ TxnFree(t) PROVE TypeOK'
  <2>1. /\ Resets(t)
        /\ txn' = [txn EXCEPT ![t] = "open"] \/ txn' = [txn EXCEPT ![t] = "none"]
        /\ UNCHANGED <<store, call>>
    BY Zenon, <1>1 DEF TxnInit, TxnFree
  <2> QED
    BY Zenon, <2>1, ResetsType DEF TypeOK
<1>2. ASSUME NEW t \in Threads, NEW k \in Keys, ReadWatch(t, k) PROVE TypeOK'
  BY Zenon, <1>2, BuiltTypes DEF TypeOK, ReadWatch, Steps
<1>3. ASSUME NEW t \in Threads, ReadFind(t) PROVE TypeOK'
  <2>1. reads' \in [Threads -> SUBSET (Keys \X Stored)]
    BY <1>3, BuiltTypes DEF TypeOK, ReadFind
  <2> QED
    BY Zenon, <1>3, <2>1, ReturnsType DEF TypeOK, ReadFind
<1>4. ASSUME NEW t \in Threads, NEW k \in Keys, NEW v \in Values \cup {Missing},
             NEW d \in DontWatch, TxnWrite(t, k, v, d)
      PROVE  TypeOK'
  BY Zenon, <1>4, BuiltTypes DEF TypeOK, TxnWrite
<1>5. ASSUME NEW t \in Threads, NEW k \in Starts, NEW n \in Limits, ScanStart(t, k, n)
      PROVE  TypeOK'
  <2>0. k \in Keys /\ n \in Nat
    BY Zenon, DataAssumption, BoundsAssumption
  <2>1. /\ cursor' \in [Threads -> Keys]
        /\ found' \in [Threads -> Nat]
        /\ watches' \in [Threads -> [Keys -> Nat \cup {Unwatched}]]
        /\ reads' \in [Threads -> SUBSET (Keys \X Stored)]
        /\ skipped' \in [Threads -> SUBSET Keys]
    <3>1. CASE Present(t, k)
      BY Zenon, <1>5, <2>0, <3>1, FindsType DEF ScanStart, TypeOK
    <3>2. CASE ~Present(t, k)
      BY Zenon, <1>5, <2>0, <3>2, PassesType DEF ScanStart, TypeOK
    <3> QED
      BY Zenon, <3>1, <3>2
  <2> QED
    BY Zenon, <1>5, <2>0, <2>1 DEF TypeOK, ScanStart, Steps
<1>6. ASSUME NEW t \in Threads, ScanNext(t) PROVE TypeOK'
  <2>1. PICK k \in Keys : /\ Finds(t, k, found[t] + 1)
                          /\ Passes(t, {n \in Keys : cursor[t] < n /\ n < k})
    BY Zenon, <1>6 DEF ScanNext, Following
  <2>2. found[t] + 1 \in Nat /\ {n \in Keys : cursor[t] < n /\ n < k} \in SUBSET Keys
    BY DEF TypeOK
  <2> QED
    BY Zenon, <1>6, <2>1, <2>2, FindsType, PassesType DEF TypeOK, ScanNext
<1>7. ASSUME NEW t \in Threads, ScanEnd(t) PROVE TypeOK'
  <2>1. Passes(t, {n \in Keys : cursor[t] < n}) /\ Returns(t)
    BY Zenon, <1>7 DEF ScanEnd
  <2>2. skipped' \in [Threads -> SUBSET Keys]
    BY Zenon, <2>1, PassesType
  <2> QED
    BY Zenon, <1>7, <2>1, <2>2, ReturnsType DEF TypeOK, ScanEnd
<1>8. ASSUME NEW t \in Threads, ScanFull(t) \/ HeadReturn(t) PROVE TypeOK'
  BY Zenon, <1>8, ReturnsType DEF TypeOK, ScanFull, HeadReturn
<1>9. ASSUME NEW t \in Threads, Stage(t) PROVE TypeOK'
  BY <1>9 DEF TypeOK, Stage, Steps
<1>10. ASSUME NEW t \in Threads, Commit(t) PROVE TypeOK'
  <2>1. Publish(changes[t], gen[t]) \in [Keys -> Entry]
    BY Zenon, AppliedType, PublishType DEF TypeOK
  <2>2. log' \subseteq Record
    BY Zenon, <1>10, AppliedType DEF TypeOK, Commit
  <2> QED
    BY Zenon, <1>10, <2>1, <2>2, ResetsType, ReturnsType DEF TypeOK, Commit
<1>11. ASSUME NEW t \in Threads, NEW ks \in ReadBatches, HeadRead(t, ks) PROVE TypeOK'
  BY Zenon, <1>11, DataAssumption DEF TypeOK, HeadRead, Steps
<1>12. ASSUME NEW t \in Threads, NEW k \in Keys, HeadFind(t, k) PROVE TypeOK'
  <2>1. got' \in [Threads -> SUBSET (Keys \X Stored)]
    BY <1>12, BuiltTypes DEF TypeOK, HeadFind
  <2> QED
    BY Zenon, <1>12, <2>1 DEF TypeOK, HeadFind
<1>13. ASSUME NEW ks \in WriteBatches, NEW v \in Values \cup {NullRange}, HeadWrite(ks, v)
       PROVE  TypeOK'
  <2> DEFINE writes == [k \in Keys |-> IF k \in ks THEN v ELSE Untouched]
  <2>1. writes \in [Keys -> Stored \cup {Untouched}] /\ clock + 1 \in Nat
    BY DEF Stored, TypeOK
  <2>2. [gen |-> clock + 1, reads |-> {}, skipped |-> {}, writes |-> writes] \in Record
    BY Zenon, <2>1 DEF Record
  <2>3. Publish(writes, clock + 1) \in [Keys -> Entry]
    BY Zenon, <2>1, PublishType
  <2> HIDE DEF writes
  <2>4. /\ pairs' = Publish(writes, clock + 1)
        /\ clock' = clock + 1
        /\ log' = log \cup {[gen |-> clock + 1, reads |-> {}, skipped |-> {}, writes |-> writes]}
        /\ UNCHANGED <<mine, call>>
    BY Zenon, <1>13 DEF HeadWrite, writes
  <2> QED
    BY Zenon, <2>1, <2>2, <2>3, <2>4 DEF TypeOK
<1>14. CASE UNCHANGED vars
  BY Zenon, <1>14 DEF vars, TypeOK
<1>15. CASE Next
  BY <1>15, <1>1, <1>2, <1>3, <1>4, <1>5, <1>6, <1>7, <1>8, <1>9, <1>10, <1>11, <1>12,
     <1>13, Zenon DEF Next
<1> QED
  BY Zenon, <1>14, <1>15

\* The state of the engine and of its transactions keeps its shape through
\* every call of src/engine_umem.cpp.
THEOREM UMemTypeCorrect == Spec => []TypeOK
<1>1. Init => TypeOK
  BY Zenon, TypeInit
<1>2. TypeOK /\ [Next]_vars => TypeOK'
  BY Zenon, TypeStep
<1> QED
  BY <1>1, <1>2, PTL DEF Spec


-----------------------------------------------------------------------------
(* Steps that touch neither the store nor the order of transactions.        *)

\* The history decides what a key holds at a generation.
LEMMA SameHistory ==
    ASSUME UNCHANGED log
    PROVE  \A k, v, g : HoldsAt(k, v, g)' = HoldsAt(k, v, g)
  BY ZenonT(60) DEF HoldsAt, Writers

\* The parts of the state the invariant reads for one thread.
SameThread(u) ==
    /\ txn'[u] = txn[u] /\ gen'[u] = gen[u] /\ at'[u] = at[u] /\ cursor'[u] = cursor[u]
    /\ watches'[u] = watches[u] /\ changes'[u] = changes[u] /\ reads'[u] = reads[u]

\* A thread that is not on its way to commit() only has to keep its own reads
\* in order.
LEMMA PrivateStep ==
    ASSUME SerialInv, TypeOK', NEW t \in Threads, UNCHANGED <<pairs, clock, log>>,
           \A u \in Threads \ {t} : SameThread(u),
           txn[t] # "staged", txn'[t] # "staged", WatchedReads(t)'
    PROVE  SerialInv'
<1> USE DEF SerialInv
<1>1. GenerationsApart'
  BY DEF GenerationsApart, SameThread
<1>2. PairsNewest'
  BY Zenon DEF PairsNewest
<1>3. \A u \in Threads : WatchedReads(u)'
  <2> SUFFICES ASSUME NEW u \in Threads \ {t} PROVE WatchedReads(u)'
    BY Zenon
  <2>1. WatchedReads(u) /\ SameThread(u)
    BY Zenon
  <2> QED
    BY <2>1 DEF WatchedReads, SameThread
<1>4. ASSUME NEW rs, NEW g, Settled(rs, g) PROVE Settled(rs, g)'
  BY <1>4, SameHistory DEF Settled, SameThread, Changed
<1>5. \A u \in Threads : txn'[u] = "staged" => Settled(reads[u], gen[u])'
  BY Zenon, <1>4 DEF SameThread
<1>6. (\A r \in log : Settled(r.reads, r.gen))'
  BY Zenon, <1>4
<1> QED
  BY Zenon, <1>1, <1>2, <1>3, <1>5, <1>6

\* Watching a key leaves the earlier watches alone.
LEMMA WatchingKeeps ==
    ASSUME TypeOK, NEW t \in Threads, NEW ks
    PROVE  \A k \in Keys :
              /\ \/ Watching(t, ks)[k] = watches[t][k]
                 \/ watches[t][k] = Unwatched /\ Watching(t, ks)[k] = pairs[k].gen
              /\ k \in ks => Watching(t, ks)[k] # Unwatched
<1> TAKE k \in Keys
<1>1. pairs[k].gen # Unwatched
  BY DEF TypeOK, Entry, Unwatched
<1>2. Watching(t, ks)[k] = IF k \in ks /\ watches[t][k] = Unwatched
                           THEN pairs[k].gen ELSE watches[t][k]
  BY Zenon DEF Watching
<1> QED
  BY Zenon, <1>1, <1>2

\* Reads and watches of a transaction only grow, and a key is watched before
\* its value is used.
LEMMA ReadsStayWatched ==
    ASSUME TypeOK, NEW t \in Threads, WatchedReads(t), txn[t] = "open", txn'[t] = "open",
           UNCHANGED pairs, NEW ks,
           watches'[t] = watches[t] \/ watches'[t] = Watching(t, ks),
           \A p \in reads'[t] : \/ p \in reads[t]
                                \/ /\ p[1] \in Keys
                                   /\ p[2] = Shown(pairs[p[1]].val)
                                   /\ watches'[t][p[1]] # Unwatched,
           at'[t] # "staged", at'[t] = "watched" => watches'[t][cursor'[t]] # Unwatched
    PROVE  WatchedReads(t)'
<1>1. \A p \in reads[t] : p[1] \in Keys
  BY DEF TypeOK
<1>2. \A k \in Keys :
         \/ watches'[t][k] = watches[t][k]
         \/ watches[t][k] = Unwatched /\ watches'[t][k] = pairs[k].gen
  BY WatchingKeeps
<1>3. \A k \in Keys : pairs[k].gen \in Nat /\ pairs[k].gen # Unwatched
  BY DEF TypeOK, Entry, Unwatched
<1> QED
  BY <1>1, <1>2, <1>3 DEF WatchedReads

LEMMA InitAndFreeSerial ==
    ASSUME SerialInv, TypeOK', NEW t \in Threads, TxnInit(t) \/ TxnFree(t)
    PROVE  SerialInv'
<1>1. /\ txn' = [txn EXCEPT ![t] = "open"] \/ txn' = [txn EXCEPT ![t] = "none"]
      /\ at[t] = "ready" /\ Resets(t)
      /\ UNCHANGED <<store, call>>
  BY Zenon DEF TxnInit, TxnFree, Open
<1>2. \A u \in Threads \ {t} : SameThread(u)
  BY SMTT(60), <1>1 DEF SerialInv, TypeOK, Resets, SameThread, call
<1>3. WatchedReads(t)'
  BY ZenonT(60), <1>1 DEF SerialInv, TypeOK, Resets, WatchedReads, NoWatches, call
<1> QED
  BY Zenon, <1>1, <1>2, <1>3, PrivateStep DEF SerialInv, WatchedReads, TypeOK, store, call

LEMMA ReadSerial ==
    ASSUME SerialInv, TypeOK', NEW t \in Threads,
           ReadFind(t) \/ \E k \in Keys : ReadWatch(t, k)
    PROVE  SerialInv'
<1> USE DEF SerialInv
<1>0. UNCHANGED <<pairs, clock, log, txn, gen, changes>>
  BY Zenon DEF ReadFind, ReadWatch, store
<1>1. WatchedReads(t)
  BY Zenon
<1>2. CASE ReadFind(t)
  <2>0. \A u \in Threads \ {t} : SameThread(u)
    BY SMTT(60), <1>2 DEF TypeOK, ReadFind, Returns, SameThread
  <2>1. txn[t] = "open" /\ watches[t][cursor[t]] # Unwatched /\ cursor[t] \in Keys
    BY Zenon, <1>1, <1>2 DEF ReadFind, WatchedReads, TypeOK
  <2>2. /\ at'[t] = "ready" /\ watches'[t] = watches[t]
        /\ reads'[t] = reads[t] \/ reads'[t] = reads[t] \cup {<<cursor[t], Shown(pairs[cursor[t]].val)>>}
    BY <1>2 DEF ReadFind, Returns, TypeOK
  <2>3. WatchedReads(t)'
    BY SMTT(60), <1>0, <1>1, <2>1, <2>2, ReadsStayWatched
  <2> QED
    BY Zenon, <1>0, <2>0, <2>1, <2>3, PrivateStep
<1>3. ASSUME NEW k \in Keys, ReadWatch(t, k) PROVE SerialInv'
  <2>0. \A u \in Threads \ {t} : SameThread(u)
    BY <1>3 DEF TypeOK, ReadWatch, SameThread
  <2>1. /\ txn[t] = "open" /\ at'[t] = "watched" /\ cursor'[t] = k
        /\ watches'[t] = Watching(t, {k}) /\ reads'[t] = reads[t]
    BY SMTT(60), <1>3 DEF ReadWatch, MayAccess, Open, TypeOK
  <2>2. watches'[t][k] # Unwatched
    BY <2>1, WatchingKeeps
  <2>3. WatchedReads(t)'
    BY Zenon, <1>0, <1>1, <2>1, <2>2, ReadsStayWatched
  <2> QED
    BY Zenon, <1>0, <2>0, <2>1, <2>3, PrivateStep
<1> QED
  BY Zenon, <1>2, <1>3

LEMMA TxnWriteSerial ==
    ASSUME SerialInv, TypeOK', NEW t \in Threads, NEW k \in Keys,
           NEW v \in Values \cup {Missing}, NEW d \in DontWatch, TxnWrite(t, k, v, d)
    PROVE  SerialInv'
<1> USE DEF SerialInv
<1>1. /\ txn[t] = "open" /\ at[t] = "ready"
      /\ UNCHANGED <<pairs, clock, log, txn, gen, reads, at, cursor>>
  BY Zenon DEF TxnWrite, MayAccess, Open, store, call
<1>2. /\ watches'[t] = watches[t] \/ watches'[t] = Watching(t, {k})
      /\ \A u \in Threads \ {t} : watches'[u] = watches[u] /\ changes'[u] = changes[u]
  BY Zenon DEF TxnWrite, TypeOK
<1>3. WatchedReads(t)'
  BY Zenon, <1>1, <1>2, ReadsStayWatched
<1> QED
  BY Zenon, <1>1, <1>2, <1>3, PrivateStep DEF SameThread

\* A pair the scan meets is watched as it is found.
LEMMA FindsSerial ==
    ASSUME SerialInv, TypeOK', NEW t \in Threads, NEW k \in Keys, NEW n, Finds(t, k, n),
           at[t] \in {"ready", "scanning"}, at'[t] = "scanning",
           \A u \in Threads \ {t} : at'[u] = at[u],
           UNCHANGED <<pairs, clock, log, txn, gen, changes>>
    PROVE  SerialInv'
<1> USE DEF SerialInv
<1>0. txn[t] # "staged"
  BY Zenon DEF WatchedReads
<1>1. \A u \in Threads \ {t} : SameThread(u)
  BY DEF TypeOK, Finds, SameThread
<1>2. CASE InTxn(t)
  <2>1. watches'[t] = Watching(t, {k})
    BY Zenon, <1>2 DEF Finds, TypeOK
  <2>2. watches'[t][k] # Unwatched
    BY SMTT(60), <2>1, WatchingKeeps
  <2>3. reads'[t] = reads[t] \/ reads'[t] = reads[t] \cup {<<k, Shown(pairs[k].val)>>}
    BY <1>2 DEF Finds, TypeOK
  <2>4. WatchedReads(t)'
    BY SMTT(60), <1>2, <2>1, <2>2, <2>3, ReadsStayWatched DEF InTxn
  <2> QED
    BY Zenon, <1>0, <1>1, <2>4, PrivateStep
<1>3. CASE ~InTxn(t)
  <2>1. WatchedReads(t)'
    BY Zenon, <1>0, <1>3 DEF WatchedReads, InTxn
  <2> QED
    BY Zenon, <1>0, <1>1, <2>1, PrivateStep
<1> QED
  BY Zenon, <1>2, <1>3

\* The steps of scans and of batch reads that watch nothing.
LEMMA QuietSerial ==
    ASSUME SerialInv, TypeOK', NEW t \in Threads,
           UNCHANGED <<pairs, clock, log, txn, gen, changes, watches, reads>>,
           at[t] \notin {"staged", "watched"}, at'[t] \notin {"staged", "watched"},
           \A u \in Threads \ {t} : at'[u] = at[u] /\ cursor'[u] = cursor[u]
    PROVE  SerialInv'
<1>1. txn[t] # "staged" /\ WatchedReads(t)'
  BY Zenon DEF SerialInv, WatchedReads
<1>2. \A u \in Threads \ {t} : SameThread(u)
  BY Zenon DEF SameThread
<1> QED
  BY Zenon, <1>1, <1>2, PrivateStep

LEMMA ScanStartSerial ==
    ASSUME SerialInv, TypeOK', NEW t \in Threads, NEW k \in Starts, NEW n \in Limits,
           ScanStart(t, k, n)
    PROVE  SerialInv'
<1>0. TypeOK
  BY Zenon DEF SerialInv
<1>1. k \in Keys
  BY Zenon, DataAssumption
<1>2. /\ at[t] = "ready" /\ at' = [at EXCEPT ![t] = "scanning"]
      /\ UNCHANGED <<pairs, clock, log, txn, gen, changes>>
  BY Zenon DEF ScanStart, store
<1>3. at'[t] = "scanning" /\ \A u \in Threads \ {t} : at'[u] = at[u]
  BY Zenon, <1>0, <1>2 DEF TypeOK
<1>4. CASE Finds(t, k, 1)
  BY Zenon, <1>1, <1>2, <1>3, <1>4, FindsSerial
<1>5. CASE UNCHANGED <<watches, reads>> /\ cursor' = [cursor EXCEPT ![t] = k]
  <2>1. \A u \in Threads \ {t} : cursor'[u] = cursor[u]
    BY Zenon, <1>0, <1>5 DEF TypeOK
  <2> QED
    BY Zenon, <1>2, <1>3, <1>5, <2>1, QuietSerial
<1> QED
  BY <1>4, <1>5, Zenon DEF ScanStart

LEMMA ScanNextSerial ==
    ASSUME SerialInv, TypeOK', NEW t \in Threads, ScanNext(t)
    PROVE  SerialInv'
<1>1. PICK k \in Keys : Finds(t, k, found[t] + 1)
  BY Zenon DEF ScanNext, Following
<1>2. at[t] = "scanning" /\ UNCHANGED <<pairs, clock, log, txn, gen, changes, at>>
  BY Zenon DEF ScanNext, ScanMore, store
<1> QED
  BY Zenon, <1>1, <1>2, FindsSerial

LEMMA ScanEndSerial ==
    ASSUME SerialInv, TypeOK', NEW t \in Threads, ScanEnd(t) \/ ScanFull(t)
    PROVE  SerialInv'
<1>1. /\ at[t] = "scanning" /\ Returns(t)
      /\ UNCHANGED <<pairs, clock, log, txn, gen, changes, watches, reads>>
  BY Zenon DEF ScanEnd, ScanFull, ScanMore, store, mine
<1>2. at'[t] = "ready" /\ \A u \in Threads \ {t} : at'[u] = at[u] /\ cursor'[u] = cursor[u]
  BY <1>1 DEF Returns, SerialInv, TypeOK
<1> QED
  BY Zenon, <1>1, <1>2, QuietSerial

LEMMA HeadReadSerial ==
    ASSUME SerialInv, TypeOK', NEW t \in Threads,
           \/ \E ks \in ReadBatches : HeadRead(t, ks)
           \/ \E k \in Keys : HeadFind(t, k)
           \/ HeadReturn(t)
    PROVE  SerialInv'
<1>1. /\ at[t] \in {"ready", "reading"}
      /\ UNCHANGED <<pairs, clock, log, txn, gen, changes, watches, reads>>
  BY Zenon DEF HeadRead, HeadFind, HeadReturn, store, mine
<1>2. /\ at'[t] \in {"ready", "reading"}
      /\ \A u \in Threads \ {t} : at'[u] = at[u] /\ cursor'[u] = cursor[u]
  BY DEF HeadRead, HeadFind, HeadReturn, Returns, SerialInv, TypeOK
<1> QED
  BY Zenon, <1>1, <1>2, QuietSerial

-----------------------------------------------------------------------------
(* The history and the visible pairs.                                       *)

\* From its generation on, a visible pair is what its key holds.
LEMMA VisibleHolds ==
    ASSUME TypeOK, GenerationsApart, PairsNewest, NEW k \in Keys, NEW g \in Int,
           pairs[k].gen <= g
    PROVE  HoldsAt(k, Shown(pairs[k].val), g)
<1>0. /\ pairs[k].gen \in Nat
      /\ \A r \in log : r.gen \in Nat
  BY Zenon DEF TypeOK, Entry, Record
<1>1. \A r \in log : r.writes[k] # Untouched => r.gen <= pairs[k].gen
  BY Zenon DEF PairsNewest
<1>2. CASE pairs[k] = [val |-> Missing, gen |-> 0]
  <2>1. Writers(k, g) = {}
    BY <1>0, <1>1, <1>2 DEF Writers, GenerationsApart
  <2>2. Shown(pairs[k].val) = Missing
    BY <1>2, DataAssumption DEF Shown
  <2> QED
    BY Zenon, <2>1, <2>2 DEF HoldsAt
<1>3. ASSUME NEW r \in log, r.writes[k] # Untouched,
             pairs[k] = [val |-> r.writes[k], gen |-> r.gen]
      PROVE  HoldsAt(k, Shown(pairs[k].val), g)
  <2>1. r \in Writers(k, g) /\ \A x \in Writers(k, g) : x.gen <= r.gen
    BY <1>0, <1>1, <1>3 DEF Writers
  <2>2. pairs[k].val = r.writes[k]
    BY <1>3
  <2> QED
    BY Zenon, <2>1, <2>2 DEF HoldsAt
<1> QED
  BY Zenon, <1>2, <1>3 DEF PairsNewest

\* What a key holds at a generation outlives later writes.
LEMMA LogGrows ==
    ASSUME TypeOK, NEW r \in Record, log' = log \cup {r}, NEW k \in Keys, NEW v,
           NEW g \in Int, r.writes[k] = Untouched \/ g < r.gen
    PROVE  HoldsAt(k, v, g)' = HoldsAt(k, v, g)
<1>1. r.gen \in Int
  BY DEF Record
<1>2. Writers(k, g)' = Writers(k, g)
  BY <1>1 DEF Writers
<1> QED
  BY Zenon, <1>2 DEF HoldsAt

\* A pair is replaced by a newer one or stays.
LEMMA PublishNewer ==
    ASSUME TypeOK, NEW r \in Record, pairs' = Publish(r.writes, r.gen), NEW k \in Keys
    PROVE  \/ /\ r.writes[k] # Untouched /\ pairs[k].gen < r.gen
              /\ pairs'[k] = [val |-> r.writes[k], gen |-> r.gen]
              /\ pairs'[k].gen = r.gen
           \/ /\ r.writes[k] = Untouched \/ r.gen <= pairs[k].gen
              /\ pairs'[k] = pairs[k]
<1>1. r.gen \in Nat /\ pairs[k].gen \in Nat
  BY Zenon DEF TypeOK, Entry, Record
<1>2. pairs'[k] = IF r.writes[k] # Untouched /\ pairs[k].gen < r.gen
                  THEN [val |-> r.writes[k], gen |-> r.gen] ELSE pairs[k]
  BY Zenon DEF Publish
<1> QED
  BY <1>1, <1>2

LEMMA PublishNewest ==
    ASSUME TypeOK, TypeOK', PairsNewest, NEW r \in Record, log' = log \cup {r},
           pairs' = Publish(r.writes, r.gen), clock <= clock', r.gen <= clock'
    PROVE  PairsNewest'
<1> SUFFICES ASSUME NEW k \in Keys
             PROVE  /\ pairs'[k].gen <= clock'
                    /\ \A s \in log' : s.writes[k] # Untouched => s.gen <= pairs'[k].gen
                    /\ \/ pairs'[k] = [val |-> Missing, gen |-> 0]
                       \/ \E s \in log' : /\ s.writes[k] # Untouched
                                          /\ pairs'[k] = [val |-> s.writes[k], gen |-> s.gen]
  BY Zenon DEF PairsNewest
<1>1. /\ pairs[k].gen \in Nat /\ pairs'[k].gen \in Nat /\ clock \in Nat /\ clock' \in Nat
      /\ \A s \in log' : s.gen \in Nat
  BY Zenon DEF TypeOK, Entry, Record
<1>2. /\ pairs[k].gen <= clock
      /\ \A s \in log : s.writes[k] # Untouched => s.gen <= pairs[k].gen
      /\ \/ pairs[k] = [val |-> Missing, gen |-> 0]
         \/ \E s \in log : /\ s.writes[k] # Untouched
                           /\ pairs[k] = [val |-> s.writes[k], gen |-> s.gen]
  BY Zenon DEF PairsNewest
<1>3. CASE /\ r.writes[k] # Untouched /\ pairs[k].gen < r.gen
           /\ pairs'[k] = [val |-> r.writes[k], gen |-> r.gen]
           /\ pairs'[k].gen = r.gen
  BY <1>1, <1>2, <1>3
<1>4. CASE /\ r.writes[k] = Untouched \/ r.gen <= pairs[k].gen
           /\ pairs'[k] = pairs[k]
  <2>1. pairs'[k].gen <= clock'
    BY <1>1, <1>2, <1>4
  <2>2. \A s \in log' : s.writes[k] # Untouched => s.gen <= pairs'[k].gen
    BY Zenon, <1>2, <1>4
  <2>3. \/ pairs'[k] = [val |-> Missing, gen |-> 0]
        \/ \E s \in log' : /\ s.writes[k] # Untouched
                           /\ pairs'[k] = [val |-> s.writes[k], gen |-> s.gen]
    BY Zenon, <1>2, <1>4
  <2> QED
    BY Zenon, <2>1, <2>2, <2>3
<1> QED
  BY Zenon, <1>3, <1>4, PublishNewer

\* A read stays current or its watch goes stale.
LEMMA PublishWatched ==
    ASSUME TypeOK, TypeOK', NEW r \in Record, pairs' = Publish(r.writes, r.gen),
           NEW u \in Threads, SameThread(u), WatchedReads(u)
    PROVE  WatchedReads(u)'
<1>1. \A k \in Keys : /\ pairs[k].gen \in Nat /\ pairs'[k].gen \in Nat
                      /\ watches[u][k] \in Int
  BY DEF TypeOK, Entry, Unwatched
<1>2. \A k \in Keys : pairs[k].gen < pairs'[k].gen \/ pairs'[k] = pairs[k]
  BY Zenon, PublishNewer
<1>3. \A p \in reads[u] : p[1] \in Keys
  BY DEF TypeOK
<1>4. ASSUME txn[u] = "open", NEW k \in Keys, watches[u][k] # Unwatched
      PROVE  watches[u][k] <= pairs'[k].gen
  BY <1>1, <1>2, <1>4 DEF WatchedReads
<1>5. ASSUME txn[u] = "open", NEW p \in reads[u]
      PROVE  /\ watches[u][p[1]] # Unwatched
             /\ watches[u][p[1]] = pairs'[p[1]].gen => p[2] = Shown(pairs'[p[1]].val)
  <2>1. /\ watches[u][p[1]] # Unwatched
        /\ watches[u][p[1]] = pairs[p[1]].gen => p[2] = Shown(pairs[p[1]].val)
        /\ watches[u][p[1]] <= pairs[p[1]].gen
    BY Zenon, <1>3, <1>5 DEF WatchedReads
  <2> QED
    BY <1>1, <1>2, <1>3, <2>1
<1>6. /\ (at[u] = "staged") <=> (txn[u] = "staged")
      /\ at[u] = "watched" => txn[u] = "open" /\ watches[u][cursor[u]] # Unwatched
  BY Zenon DEF WatchedReads
<1> QED
  BY Zenon, <1>4, <1>5, <1>6 DEF WatchedReads, SameThread

-----------------------------------------------------------------------------
(* Steps that take a place in the order.                                    *)

\* Generations are integers, and what was read is under keys.
LEMMA Generations ==
    ASSUME TypeOK
    PROVE  /\ clock \in Nat
           /\ \A u \in Threads : gen[u] \in Nat
           /\ \A r \in log : r.gen \in Nat
           /\ \A u \in Threads : \A p \in reads[u] : p[1] \in Keys
           /\ \A r \in log : \A p \in r.reads : p[1] \in Keys
  BY DEF TypeOK, Record

\* stage() finds every watched read current, and nobody about to change it.
LEMMA StageSettles ==
    ASSUME SerialInv, StageSeesStaged, NEW t \in Threads, Open(t), Valid(t),
           NEW p \in reads[t]
    PROVE  /\ HoldsAt(p[1], p[2], clock)
           /\ \A u \in Threads : txn[u] = "staged" => ~Changed(u, p[1])
<1>1. p[1] \in Keys /\ clock \in Int
  BY Generations DEF SerialInv
<1>2. /\ watches[t][p[1]] # Unwatched
      /\ watches[t][p[1]] = pairs[p[1]].gen => p[2] = Shown(pairs[p[1]].val)
  BY Zenon DEF SerialInv, WatchedReads, Open
<1>3. /\ pairs[p[1]].gen = watches[t][p[1]]
      /\ \A u \in Threads : txn[u] = "staged" => ~Changed(u, p[1])
  BY Zenon, <1>1, <1>2 DEF Valid
<1>4. pairs[p[1]].gen <= clock
  BY Zenon, <1>1 DEF SerialInv, PairsNewest
<1>5. HoldsAt(p[1], Shown(pairs[p[1]].val), clock)
  BY Zenon, <1>1, <1>4, VisibleHolds DEF SerialInv
<1> QED
  BY Zenon, <1>2, <1>3, <1>5

LEMMA StageSerial ==
    ASSUME SerialInv, TypeOK', StageSeesStaged, NEW t \in Threads, Stage(t)
    PROVE  SerialInv'
<1> USE DEF SerialInv
<1>1. /\ UNCHANGED <<pairs, log, watches, changes, reads, cursor>>
      /\ clock' = clock + 1 /\ gen'[t] = clock + 1
      /\ txn[t] = "open" /\ txn'[t] = "staged" /\ at'[t] = "staged"
      /\ \A u \in Threads \ {t} : txn'[u] = txn[u] /\ gen'[u] = gen[u] /\ at'[u] = at[u]
  BY ZenonT(60) DEF Stage, Open, TypeOK
<1>2. clock \in Nat /\ \A u \in Threads : gen[u] \in Nat
  BY Zenon, Generations
<1>3. \A r \in log : r.gen \in Nat /\ r.gen <= clock
  BY Zenon, Generations DEF GenerationsApart
<1>4. \A u \in Threads : txn[u] = "staged" => gen[u] <= clock
  BY Zenon DEF GenerationsApart
<1>5. GenerationsApart'
  BY <1>1, <1>2, <1>3, <1>4 DEF GenerationsApart
<1>6. PairsNewest'
  <2>1. \A k \in Keys : pairs[k].gen \in Nat
    BY Zenon DEF TypeOK, Entry
  <2> QED
    BY SMTT(60), <1>1, <1>2, <2>1 DEF PairsNewest
<1>7. ASSUME NEW u \in Threads PROVE WatchedReads(u)'
  <2>1. WatchedReads(u)
    BY SMTT(60)
  <2> QED
    BY Zenon, <1>1, <2>1 DEF WatchedReads
<1>8. ASSUME NEW rs, NEW g \in Nat, g <= clock, Settled(rs, g) PROVE Settled(rs, g)'
  <2>1. \A p \in rs : HoldsAt(p[1], p[2], g - 1)'
    BY <1>1, <1>8, SameHistory DEF Settled
  <2>2. ASSUME NEW p \in rs, NEW u \in Threads, txn'[u] = "staged", gen'[u] < g
        PROVE  ~Changed(u, p[1])'
    <3>1. u # t
      BY SMTT(60), <1>1, <1>2, <1>8, <2>2
    <3> QED
      BY Zenon, <1>1, <1>8, <2>2, <3>1 DEF Settled, Changed
  <2> QED
    BY Zenon, <2>1, <2>2 DEF Settled
<1>9. Settled(reads[t], gen[t])'
  <2>1. Open(t) /\ Valid(t)
    BY Zenon DEF Stage
  <2>2. ASSUME NEW p \in reads[t] PROVE HoldsAt(p[1], p[2], gen[t] - 1)'
    <3>1. HoldsAt(p[1], p[2], clock)
      BY Zenon, <2>1, StageSettles
    <3>2. gen'[t] - 1 = clock
      BY <1>1, <1>2
    <3> QED
      BY Zenon, <1>1, <3>1, <3>2 DEF HoldsAt, Writers
  <2>3. ASSUME NEW p \in reads[t], NEW u \in Threads, txn'[u] = "staged", gen'[u] < gen'[t]
        PROVE  ~Changed(u, p[1])'
    <3>1. u # t
      BY <1>1, <1>2, <2>3
    <3> QED
      BY Zenon, <1>1, <2>1, <2>3, <3>1, StageSettles DEF Changed
  <2> QED
    BY Zenon, <1>1, <2>2, <2>3 DEF Settled
<1>10. ASSUME NEW u \in Threads, txn'[u] = "staged" PROVE Settled(reads[u], gen[u])'
  <2>1. CASE u = t
    BY Zenon, <1>9, <2>1
  <2>2. CASE u # t
    BY Zenon, <1>1, <1>2, <1>4, <1>8, <1>10, <2>2
  <2> QED
    BY Zenon, <2>1, <2>2
<1>11. (\A r \in log : Settled(r.reads, r.gen))'
  BY Zenon, <1>1, <1>3, <1>8
<1> QED
  BY Zenon, <1>5, <1>6, <1>7, <1>10, <1>11

\* commit() shows the changes under the generation stage() gave; readers that
\* come later in the order saw to it in stage() that they did not read them.
LEMMA CommitSerial ==
    ASSUME SerialInv, TypeOK', NEW t \in Threads, Commit(t)
    PROVE  SerialInv'
<1> USE DEF SerialInv
<1> DEFINE r == Applied(t)
<1>0. /\ r \in Record /\ r.gen = gen[t] /\ r.reads = reads[t] /\ r.writes = changes[t]
      /\ log' = log \cup {r}
  BY Zenon, AppliedType DEF Commit, Applied
<1> HIDE DEF r
<1>1. /\ txn[t] = "staged" /\ txn'[t] = "none" /\ at'[t] = "ready"
      /\ clock' = clock
      /\ pairs' = Publish(r.writes, r.gen)
  BY ZenonT(60), <1>0 DEF Commit, Returns, TypeOK, WatchedReads
<1>2. \A u \in Threads \ {t} : SameThread(u)
  BY SMTT(60) DEF Commit, Returns, Resets, TypeOK, SameThread
<1>3. /\ clock \in Nat
      /\ \A u \in Threads : gen[u] \in Nat
      /\ \A s \in log : s.gen \in Nat
      /\ \A u \in Threads : \A p \in reads[u] : p[1] \in Keys
      /\ \A s \in log : \A p \in s.reads : p[1] \in Keys
  BY Zenon, Generations
<1>4. /\ 0 < r.gen /\ r.gen <= clock
      /\ \A s \in log : s.gen # r.gen
      /\ \A u \in Threads \ {t} : txn[u] = "staged" => gen[u] # r.gen
  BY Zenon, <1>0, <1>1 DEF GenerationsApart
<1>5. GenerationsApart'
  BY SMTT(60), <1>0, <1>1, <1>2, <1>4 DEF GenerationsApart, SameThread
<1>6. PairsNewest'
  BY SMTT(60), <1>0, <1>1, <1>3, <1>4, PublishNewest
<1>7. ASSUME NEW u \in Threads PROVE WatchedReads(u)'
  <2>1. CASE u = t
    BY Zenon, <1>1, <2>1 DEF WatchedReads
  <2>2. CASE u # t
    BY Zenon, <1>0, <1>1, <1>2, <2>2, PublishWatched
  <2> QED
    BY Zenon, <2>1, <2>2
<1>8. ASSUME NEW rs, NEW g \in Nat, \A p \in rs : p[1] \in Keys, Settled(rs, g)
      PROVE  Settled(rs, g)'
  <2>1. ASSUME NEW p \in rs PROVE HoldsAt(p[1], p[2], g - 1)'
    <3>1. r.writes[p[1]] = Untouched \/ g - 1 < r.gen
      BY SMTT(60), <1>0, <1>1, <1>3, <1>8, <2>1 DEF Settled, Changed
    <3> QED
      BY SMTT(60), <1>0, <1>8, <2>1, <3>1, LogGrows DEF Settled
  <2>2. ASSUME NEW p \in rs, NEW u \in Threads, txn'[u] = "staged", gen'[u] < g
        PROVE  ~Changed(u, p[1])'
    BY SMTT(60), <1>1, <1>2, <1>8, <2>2 DEF Settled, Changed, SameThread
  <2> QED
    BY ZenonT(60), <2>1, <2>2 DEF Settled
<1>9. ASSUME NEW u \in Threads, txn'[u] = "staged" PROVE Settled(reads[u], gen[u])'
  <2>1. SameThread(u) /\ Settled(reads[u], gen[u])
    BY Zenon, <1>1, <1>2, <1>9 DEF SameThread
  <2> QED
    BY Zenon, <1>3, <1>8, <2>1 DEF SameThread
<1>10. (\A s \in log : Settled(s.reads, s.gen))'
  BY Zenon, <1>0, <1>1, <1>3, <1>8
<1> QED
  BY Zenon, <1>5, <1>6, <1>7, <1>9, <1>10

LEMMA HeadWriteSerial ==
    ASSUME SerialInv, TypeOK', NEW ks \in WriteBatches, NEW v \in Values \cup {NullRange},
           HeadWrite(ks, v)
    PROVE  SerialInv'
<1> USE DEF SerialInv
<1> DEFINE writes == [k \in Keys |-> IF k \in ks THEN v ELSE Untouched]
           r == [gen |-> clock + 1, reads |-> {}, skipped |-> {}, writes |-> writes]
<1>1. clock \in Nat /\ \A s \in log : s.gen \in Nat
  BY Zenon, Generations
<1>2. writes \in [Keys -> Stored \cup {Untouched}]
  BY Zenon DEF Stored
<1> HIDE DEF writes
<1>3. r \in Record /\ r.gen = clock + 1 /\ r.reads = {} /\ r.writes = writes
  BY SMTT(60), <1>1, <1>2 DEF Record
<1>4. /\ log' = log \cup {r}
      /\ pairs' = Publish(r.writes, r.gen)
      /\ clock' = clock + 1
      /\ UNCHANGED <<txn, gen, watches, changes, reads, at, cursor>>
  BY Zenon DEF HeadWrite, writes, mine, call
<1> HIDE DEF r
<1>5. /\ \A s \in log : s.gen <= clock
      /\ \A u \in Threads : txn[u] = "staged" => gen[u] <= clock
  BY Zenon DEF GenerationsApart
<1>6. \A u \in Threads : gen[u] \in Nat
  BY ZenonT(60), Generations
<1>7. GenerationsApart'
  BY SMTT(60), <1>1, <1>3, <1>4, <1>5, <1>6 DEF GenerationsApart
<1>8. PairsNewest'
  BY <1>1, <1>3, <1>4, PublishNewest
<1>9. \A u \in Threads : WatchedReads(u)'
  BY Zenon, <1>3, <1>4, PublishWatched DEF SameThread
<1>10. ASSUME NEW rs, NEW g \in Nat, g <= clock, \A p \in rs : p[1] \in Keys, Settled(rs, g)
       PROVE  Settled(rs, g)'
  <2>1. ASSUME NEW p \in rs PROVE HoldsAt(p[1], p[2], g - 1)'
    <3>1. g - 1 < r.gen
      BY SMTT(60), <1>1, <1>3, <1>10
    <3> QED
      BY SMTT(60), <1>3, <1>4, <1>10, <2>1, <3>1, LogGrows DEF Settled
  <2> QED
    BY Zenon, <1>4, <1>10, <2>1 DEF Settled, Changed
<1>11. ASSUME NEW u \in Threads, txn'[u] = "staged" PROVE Settled(reads[u], gen[u])'
  <2>1. Settled(reads[u], gen[u]) /\ \A p \in reads[u] : p[1] \in Keys
    BY Zenon, <1>4, <1>11, Generations
  <2> QED
    BY Zenon, <1>4, <1>5, <1>6, <1>10, <1>11, <2>1
<1>12. ASSUME NEW s \in log' PROVE Settled(s.reads, s.gen)'
  <2>1. CASE s = r
    BY Zenon, <1>3, <2>1 DEF Settled
  <2>2. CASE s \in log
    <3>1. Settled(s.reads, s.gen) /\ \A p \in s.reads : p[1] \in Keys
      BY Zenon, <2>2, Generations
    <3> QED
      BY Zenon, <1>1, <1>5, <1>10, <2>2, <3>1
  <2> QED
    BY Zenon, <1>4, <2>1, <2>2
<1> QED
  BY Zenon, <1>7, <1>8, <1>9, <1>11, <1>12

-----------------------------------------------------------------------------

LEMMA SerialInit == Init => SerialInv
<1> SUFFICES ASSUME Init PROVE SerialInv
  BY Zenon
<1>1. TypeOK
  BY Zenon, TypeInit
<1>2. GenerationsApart /\ \A t \in Threads : WatchedReads(t)
  BY Zenon DEF Init, GenerationsApart, WatchedReads, NoWatches
<1>3. PairsNewest
  BY DEF Init, PairsNewest
<1> QED
  BY Zenon, <1>1, <1>2, <1>3 DEF SerialInv, Init

\* One step per action.
LEMMA SerialStep == StageSeesStaged /\ SerialInv /\ [Next]_vars => SerialInv'
<1> SUFFICES ASSUME StageSeesStaged, SerialInv, [Next]_vars PROVE SerialInv'
  BY Zenon
<1>0. TypeOK'
  BY Zenon, TypeStep DEF SerialInv
<1>1. ASSUME NEW t \in Threads, TxnInit(t) \/ TxnFree(t) PROVE SerialInv'
  BY Zenon, <1>0, <1>1, InitAndFreeSerial
<1>2. ASSUME NEW t \in Threads, ReadFind(t) PROVE SerialInv'
  BY Zenon, <1>0, <1>2, ReadSerial
<1>3. ASSUME NEW t \in Threads, NEW k \in Keys, ReadWatch(t, k) PROVE SerialInv'
  BY Zenon, <1>0, <1>3, ReadSerial
<1>4. ASSUME NEW t \in Threads, NEW k \in Keys, HeadFind(t, k) PROVE SerialInv'
  BY Zenon, <1>0, <1>4, HeadReadSerial
<1>5. ASSUME NEW t \in Threads, NEW k \in Keys, NEW v \in Values \cup {Missing},
             NEW d \in DontWatch, TxnWrite(t, k, v, d)
      PROVE  SerialInv'
  BY Zenon, <1>0, <1>5, TxnWriteSerial
<1>6. ASSUME NEW t \in Threads, NEW k \in Starts, NEW n \in Limits, ScanStart(t, k, n)
      PROVE  SerialInv'
  BY Zenon, <1>0, <1>6, ScanStartSerial
<1>7. ASSUME NEW t \in Threads, ScanNext(t) \/ ScanEnd(t) \/ ScanFull(t) PROVE SerialInv'
  BY Zenon, <1>0, <1>7, ScanNextSerial, ScanEndSerial
<1>8. ASSUME NEW t \in Threads, Stage(t) PROVE SerialInv'
  BY Zenon, <1>0, <1>8, StageSerial
<1>9. ASSUME NEW t \in Threads, Commit(t) PROVE SerialInv'
  BY Zenon, <1>0, <1>9, CommitSerial
<1>10. ASSUME NEW t \in Threads, NEW ks \in ReadBatches, HeadRead(t, ks) PROVE SerialInv'
  BY Zenon, <1>0, <1>10, HeadReadSerial
<1>11. ASSUME NEW t \in Threads, HeadReturn(t) PROVE SerialInv'
  BY Zenon, <1>0, <1>11, HeadReadSerial
<1>12. ASSUME NEW ks \in WriteBatches, NEW v \in Values \cup {NullRange}, HeadWrite(ks, v)
       PROVE  SerialInv'
  BY Zenon, <1>0, <1>12, HeadWriteSerial
<1>13. CASE UNCHANGED vars
  <2>1. UNCHANGED <<pairs, clock, txn, gen, watches, changes, at, cursor, reads, log>>
    BY Zenon, <1>13 DEF vars
  <2>2. GenerationsApart' /\ PairsNewest'
    BY Zenon, <2>1 DEF SerialInv, GenerationsApart, PairsNewest
  <2>3. ASSUME NEW t \in Threads PROVE WatchedReads(t)'
    <3>1. WatchedReads(t)
      BY Zenon DEF SerialInv
    <3>2. /\ pairs' = pairs /\ txn' = txn /\ watches' = watches /\ reads' = reads
          /\ at' = at /\ cursor' = cursor
      BY Zenon, <2>1
    <3> QED
      BY Zenon, <3>1, <3>2 DEF WatchedReads
  <2>4. ASSUME NEW rs, NEW g, Settled(rs, g) PROVE Settled(rs, g)'
    BY <2>1, <2>4, SameHistory DEF Settled, Changed
  <2> QED
    BY Zenon, <1>0, <2>1, <2>2, <2>3, <2>4 DEF SerialInv
<1>14. CASE Next
  BY <1>14, <1>1, <1>2, <1>3, <1>4, <1>5, <1>6, <1>7, <1>8, <1>9, <1>10, <1>11, <1>12,
     Zenon DEF Next
<1> QED
  BY Zenon, <1>13, <1>14

\* If stage() refuses watched keys that another transaction is about to commit,
\* ukv_transaction_commit succeeds only for transactions whose watched reads
\* are what the transactions and writes with smaller sequence numbers left.
THEOREM CommitsSerializable == StageSeesStaged => (Spec => []Serializable)
<1> SUFFICES ASSUME StageSeesStaged PROVE Spec => []Serializable
  BY Zenon
<1>1. Init => SerialInv
  BY Zenon, SerialInit
<1>2. SerialInv /\ [Next]_vars => SerialInv'
  BY SerialStep, Zenon
<1>3. SerialInv => Serializable
  BY Zenon DEF SerialInv, Serializable, Settled
<1> QED
  BY <1>1, <1>2, <1>3, PTL DEF Spec

-----------------------------------------------------------------------------
(* What does not depend on what stage() refuses.                            *)

\* A thread is between stage() and commit() when its transaction is.
StagedTogether == \A t \in Threads : (at[t] = "staged") <=> (txn[t] = "staged")

VisibleInv == TypeOK /\ GenerationsApart /\ PairsNewest /\ StagedTogether

\* Steps that show nothing, and stage nothing.
LEMMA QuietVisible ==
    ASSUME VisibleInv, TypeOK', StagedTogether', UNCHANGED <<pairs, clock, log>>,
           \A u \in Threads : txn'[u] = "staged" => txn[u] = "staged" /\ gen'[u] = gen[u]
    PROVE  VisibleInv'
<1>1. pairs' = pairs /\ clock' = clock /\ log' = log
  BY Zenon
<1>2. PairsNewest'
  BY Zenon, <1>1 DEF VisibleInv, PairsNewest
<1>3. ASSUME NEW u \in Threads, txn'[u] = "staged"
      PROVE  /\ 0 < gen'[u] /\ gen'[u] <= clock'
             /\ \A r \in log' : r.gen # gen'[u]
             /\ \A w \in Threads \ {u} : txn'[w] = "staged" => gen'[w] # gen'[u]
  BY Zenon, <1>1, <1>3 DEF VisibleInv, GenerationsApart
<1>4. GenerationsApart'
  BY Zenon, <1>1, <1>3 DEF VisibleInv, GenerationsApart
<1> QED
  BY Zenon, <1>2, <1>4 DEF VisibleInv

\* Only one thread moves, and not from or to "staged".
LEMMA PrivateVisible ==
    ASSUME VisibleInv, TypeOK', NEW t \in Threads, UNCHANGED <<pairs, clock, log>>,
           at[t] # "staged", at'[t] # "staged", txn'[t] # "staged",
           \A u \in Threads \ {t} : at'[u] = at[u] /\ txn'[u] = txn[u] /\ gen'[u] = gen[u]
    PROVE  VisibleInv'
<1>1. StagedTogether'
  BY Zenon DEF VisibleInv, StagedTogether
<1>2. \A u \in Threads : txn'[u] = "staged" => txn[u] = "staged" /\ gen'[u] = gen[u]
  BY Zenon
<1> QED
  BY Zenon, <1>1, <1>2, QuietVisible

LEMMA StageVisible ==
    ASSUME VisibleInv, TypeOK', NEW t \in Threads, Stage(t)
    PROVE  VisibleInv'
<1>1. /\ UNCHANGED <<pairs, log>>
      /\ clock' = clock + 1 /\ gen'[t] = clock + 1
      /\ txn'[t] = "staged" /\ at'[t] = "staged"
      /\ \A u \in Threads \ {t} : at'[u] = at[u] /\ txn'[u] = txn[u] /\ gen'[u] = gen[u]
  BY ZenonT(60) DEF Stage, VisibleInv, TypeOK
<1>2. /\ clock \in Nat /\ \A u \in Threads : gen[u] \in Nat
      /\ \A r \in log : r.gen \in Nat
      /\ \A k \in Keys : pairs[k].gen \in Nat
  BY Zenon, Generations DEF VisibleInv, TypeOK, Entry
<1>3. StagedTogether'
  BY Zenon, <1>1 DEF VisibleInv, StagedTogether
<1>4. ASSUME NEW k \in Keys PROVE pairs[k].gen <= clock + 1
  <2>1. pairs[k].gen <= clock
    BY Zenon DEF VisibleInv, PairsNewest
  <2> QED
    BY <1>2, <2>1
<1>5. PairsNewest'
  BY Zenon, <1>1, <1>4 DEF VisibleInv, PairsNewest
<1>6. /\ \A r \in log : 0 < r.gen /\ r.gen <= clock
      /\ \A u \in Threads : txn[u] = "staged" => 0 < gen[u] /\ gen[u] <= clock
  BY Zenon DEF VisibleInv, GenerationsApart
<1>7. /\ \A r \in log : r.gen <= clock + 1 /\ r.gen # clock + 1
      /\ \A u \in Threads : txn[u] = "staged" => gen[u] <= clock + 1 /\ gen[u] # clock + 1
      /\ 0 < clock + 1 /\ clock + 1 <= clock + 1
  BY <1>2, <1>6
<1>8. ASSUME NEW u \in Threads, txn'[u] = "staged"
      PROVE  /\ 0 < gen'[u] /\ gen'[u] <= clock'
             /\ \A r \in log' : r.gen # gen'[u]
             /\ \A w \in Threads \ {u} : txn'[w] = "staged" => gen'[w] # gen'[u]
  <2>1. CASE u = t
    BY Zenon, <1>1, <1>7, <2>1
  <2>2. CASE u # t
    <3>1. /\ txn[u] = "staged" /\ gen'[u] = gen[u] /\ \A r \in log' : r.gen # gen[u]
          /\ gen[u] # gen'[t]
      BY Zenon, <1>1, <1>7, <1>8, <2>2 DEF VisibleInv, GenerationsApart
    <3>2. ASSUME NEW w \in Threads \ {u}, txn'[w] = "staged" PROVE gen'[w] # gen'[u]
      BY ZenonT(60), <1>1, <3>1, <3>2 DEF VisibleInv, GenerationsApart
    <3> QED
      BY Zenon, <1>1, <1>6, <1>7, <3>1, <3>2
  <2> QED
    BY Zenon, <2>1, <2>2
<1>9. GenerationsApart'
  BY Zenon, <1>1, <1>6, <1>7, <1>8 DEF VisibleInv, GenerationsApart
<1> QED
  BY Zenon, <1>3, <1>5, <1>9 DEF VisibleInv

\* commit() of a staged transaction and an upsert of a batch both show a record
\* with a generation of its own.
LEMMA ShownVisible ==
    ASSUME VisibleInv, TypeOK', StagedTogether', NEW r \in Record,
           log' = log \cup {r}, pairs' = Publish(r.writes, r.gen),
           clock <= clock', 0 < r.gen, r.gen <= clock',
           \A s \in log : s.gen # r.gen,
           \A u \in Threads : txn'[u] = "staged" =>
              txn[u] = "staged" /\ gen'[u] = gen[u] /\ gen[u] # r.gen
    PROVE  VisibleInv'
<1>1. /\ clock \in Nat /\ clock' \in Nat
      /\ \A u \in Threads : gen[u] \in Nat
      /\ \A s \in log : s.gen \in Nat
  BY Zenon, Generations DEF VisibleInv, TypeOK
<1>2. PairsNewest'
  BY Zenon, PublishNewest DEF VisibleInv
<1>3. /\ \A s \in log : 0 < s.gen /\ s.gen <= clock
      /\ \A u \in Threads : txn[u] = "staged" => 0 < gen[u] /\ gen[u] <= clock
  BY Zenon DEF VisibleInv, GenerationsApart
<1>4. /\ \A s \in log : s.gen <= clock'
      /\ \A u \in Threads : txn[u] = "staged" => gen[u] <= clock'
  BY <1>1, <1>3
<1>5. \A s \in log' : 0 < s.gen /\ s.gen <= clock'
  BY Zenon, <1>3, <1>4
<1>6. \A s, q \in log' : s.gen = q.gen => s = q
  BY Zenon DEF VisibleInv, GenerationsApart
<1>7. ASSUME NEW u \in Threads, txn'[u] = "staged"
      PROVE  /\ 0 < gen'[u] /\ gen'[u] <= clock'
             /\ \A s \in log' : s.gen # gen'[u]
             /\ \A w \in Threads \ {u} : txn'[w] = "staged" => gen'[w] # gen'[u]
  <2>1. txn[u] = "staged" /\ gen'[u] = gen[u] /\ gen[u] # r.gen
    BY Zenon, <1>7
  <2>2. \A s \in log' : s.gen # gen[u]
    BY Zenon, <2>1 DEF VisibleInv, GenerationsApart
  <2>3. ASSUME NEW w \in Threads \ {u}, txn'[w] = "staged" PROVE gen'[w] # gen'[u]
    BY Zenon, <2>1, <2>3 DEF VisibleInv, GenerationsApart
  <2> QED
    BY Zenon, <1>3, <1>4, <2>1, <2>2, <2>3
<1>8. GenerationsApart'
  BY Zenon, <1>5, <1>6, <1>7 DEF GenerationsApart
<1> QED
  BY Zenon, <1>2, <1>8 DEF VisibleInv

LEMMA CommitVisible ==
    ASSUME VisibleInv, TypeOK', NEW t \in Threads, Commit(t)
    PROVE  VisibleInv'
<1> DEFINE r == Applied(t)
<1>1. /\ r \in Record /\ r.gen = gen[t] /\ r.writes = changes[t]
      /\ log' = log \cup {r} /\ pairs' = Publish(r.writes, r.gen)
  BY Zenon, AppliedType DEF Commit, Applied, VisibleInv
<1> HIDE DEF r
<1>2. /\ txn[t] = "staged" /\ txn'[t] = "none" /\ at'[t] = "ready" /\ clock' = clock
      /\ \A u \in Threads \ {t} : at'[u] = at[u] /\ txn'[u] = txn[u] /\ gen'[u] = gen[u]
  <2>1. at[t] = "staged" /\ clock' = clock /\ txn' = [txn EXCEPT ![t] = "none"]
        /\ gen' = [gen EXCEPT ![t] = 0] /\ at' = [at EXCEPT ![t] = "ready"]
    BY Zenon DEF Commit, Returns, Resets
  <2>2. txn[t] = "staged"
    BY Zenon, <2>1 DEF VisibleInv, StagedTogether
  <2> QED
    BY ZenonT(60), <2>1, <2>2 DEF VisibleInv, TypeOK
<1>3. StagedTogether'
  BY Zenon, <1>2 DEF VisibleInv, StagedTogether
<1>4. /\ 0 < r.gen /\ r.gen <= clock
      /\ \A s \in log : s.gen # r.gen
      /\ \A u \in Threads \ {t} : txn[u] = "staged" => gen[u] # r.gen
  BY ZenonT(60), <1>1, <1>2 DEF VisibleInv, GenerationsApart
<1>5. \A u \in Threads : txn'[u] = "staged" =>
        txn[u] = "staged" /\ gen'[u] = gen[u] /\ gen[u] # r.gen
  BY Zenon, <1>2, <1>4
<1>6. clock <= clock' /\ r.gen <= clock'
  <2>1. clock \in Nat
    BY Zenon DEF VisibleInv, TypeOK
  <2> QED
    BY <1>2, <1>4, <2>1
<1> QED
  BY Zenon, <1>1, <1>3, <1>4, <1>5, <1>6, ShownVisible

LEMMA HeadWriteVisible ==
    ASSUME VisibleInv, TypeOK', NEW ks \in WriteBatches, NEW v \in Values \cup {NullRange},
           HeadWrite(ks, v)
    PROVE  VisibleInv'
<1> DEFINE writes == [k \in Keys |-> IF k \in ks THEN v ELSE Untouched]
           r == [gen |-> clock + 1, reads |-> {}, skipped |-> {}, writes |-> writes]
<1>1. /\ clock \in Nat /\ \A s \in log : s.gen \in Nat
      /\ \A u \in Threads : gen[u] \in Nat
  BY Zenon, Generations DEF VisibleInv
<1>2. writes \in [Keys -> Stored \cup {Untouched}]
  BY Zenon DEF Stored
<1>3. /\ log' = log \cup {r} /\ pairs' = Publish(writes, clock + 1) /\ clock' = clock + 1
      /\ UNCHANGED <<txn, gen, at>>
  BY Zenon DEF HeadWrite, mine, call
<1> HIDE DEF writes
<1>4. r \in Record /\ r.gen = clock + 1 /\ r.writes = writes
  BY SMTT(60), <1>1, <1>2 DEF Record
<1> HIDE DEF r
<1>5. /\ \A s \in log : s.gen <= clock
      /\ \A u \in Threads : txn[u] = "staged" => gen[u] <= clock
  BY Zenon DEF VisibleInv, GenerationsApart
<1>6. /\ \A s \in log : s.gen # r.gen
      /\ \A u \in Threads : txn[u] = "staged" => gen[u] # r.gen
      /\ clock <= clock' /\ 0 < r.gen /\ r.gen <= clock'
  BY <1>1, <1>3, <1>4, <1>5
<1>7. StagedTogether'
  BY Zenon, <1>3 DEF VisibleInv, StagedTogether
<1>8. \A u \in Threads : txn'[u] = "staged" =>
        txn[u] = "staged" /\ gen'[u] = gen[u] /\ gen[u] # r.gen
  BY Zenon, <1>3, <1>6
<1>9. log' = log \cup {r} /\ pairs' = Publish(r.writes, r.gen)
  BY Zenon, <1>3, <1>4
<1> QED
  BY Zenon, <1>4, <1>6, <1>7, <1>8, <1>9, ShownVisible

\* Returning, a thread changes nothing but its own place.
LEMMA ReturnsAlone ==
    ASSUME TypeOK, NEW t \in Threads, Returns(t)
    PROVE  /\ at'[t] = "ready" /\ found'[t] = 0 /\ limit'[t] = 0
           /\ \A u \in Threads \ {t} : at'[u] = at[u] /\ found'[u] = found[u] /\ limit'[u] = limit[u]
  BY Zenon DEF TypeOK, Returns

LEMMA VisibleStep == VisibleInv /\ [Next]_vars => VisibleInv'
<1> SUFFICES ASSUME VisibleInv, [Next]_vars PROVE VisibleInv'
  BY Zenon
<1>0. TypeOK' /\ TypeOK
  BY Zenon, TypeStep DEF VisibleInv
<1>1. \A t \in Threads : at[t] # "staged" => txn[t] # "staged"
  BY Zenon DEF VisibleInv, StagedTogether
<1>2. ASSUME NEW t \in Threads, TxnInit(t) \/ TxnFree(t) PROVE VisibleInv'
  <2>1. /\ at[t] = "ready" /\ at' = at
        /\ txn'[t] \in {"open", "none"}
        /\ \A u \in Threads \ {t} : txn'[u] = txn[u] /\ gen'[u] = gen[u]
        /\ UNCHANGED <<pairs, clock, log>>
    BY Zenon, <1>0, <1>2 DEF TxnInit, TxnFree, Open, Resets, TypeOK, store, call
  <2>2. "ready" # "staged" /\ txn'[t] # "staged"
    BY <2>1
  <2> QED
    BY Zenon, <1>0, <2>1, <2>2, PrivateVisible
<1>3. ASSUME NEW t \in Threads, UNCHANGED <<pairs, clock, log, txn, gen>>,
             at[t] # "staged", at'[t] # "staged",
             \A u \in Threads \ {t} : at'[u] = at[u]
      PROVE  VisibleInv'
  BY Zenon, <1>0, <1>1, <1>3, PrivateVisible
<1>4. /\ "ready" # "staged" /\ "watched" # "staged" /\ "scanning" # "staged"
      /\ "reading" # "staged"
  OBVIOUS
<1>5. ASSUME NEW t \in Threads, NEW k \in Keys, ReadWatch(t, k) PROVE VisibleInv'
  <2>1. /\ at[t] = "ready" /\ at'[t] = "watched" /\ \A u \in Threads \ {t} : at'[u] = at[u]
        /\ UNCHANGED <<pairs, clock, log, txn, gen>>
    <3>1. at[t] = "ready" /\ at' = [at EXCEPT ![t] = "watched"]
          /\ UNCHANGED <<pairs, clock, log, txn, gen>>
      BY Zenon, <1>5 DEF ReadWatch, MayAccess, Open, store
    <3> QED
      BY Zenon, <1>0, <3>1 DEF TypeOK
  <2> QED
    BY Zenon, <1>3, <1>4, <2>1
<1>6. ASSUME NEW t \in Threads, Returns(t), at[t] # "staged",
             UNCHANGED <<pairs, clock, log, txn, gen>>
      PROVE  VisibleInv'
  BY Zenon, <1>0, <1>3, <1>4, <1>6, ReturnsAlone
<1>7. ASSUME NEW t \in Threads, ReadFind(t) \/ ScanEnd(t) \/ ScanFull(t) \/ HeadReturn(t)
      PROVE  VisibleInv'
  BY Zenon, <1>4, <1>6, <1>7 DEF ReadFind, ScanEnd, ScanMore, ScanFull, HeadReturn, store, mine
<1>8. ASSUME NEW t \in Threads, NEW k \in Keys, NEW v \in Values \cup {Missing},
             NEW d \in DontWatch, TxnWrite(t, k, v, d)
      PROVE  VisibleInv'
  BY Zenon, <1>3, <1>4, <1>8 DEF TxnWrite, MayAccess, Open, store, call
<1>9. ASSUME NEW t \in Threads, NEW k \in Starts, NEW n \in Limits, ScanStart(t, k, n)
      PROVE  VisibleInv'
  <2>1. /\ at[t] = "ready" /\ at'[t] = "scanning" /\ \A u \in Threads \ {t} : at'[u] = at[u]
        /\ UNCHANGED <<pairs, clock, log, txn, gen>>
    BY Zenon, <1>0, <1>9 DEF ScanStart, TypeOK, store
  <2> QED
    BY Zenon, <1>3, <1>4, <2>1
<1>10. ASSUME NEW t \in Threads, ScanNext(t) PROVE VisibleInv'
  BY Zenon, <1>3, <1>4, <1>10 DEF ScanNext, ScanMore, store
<1>11. ASSUME NEW t \in Threads, NEW ks \in ReadBatches, HeadRead(t, ks) PROVE VisibleInv'
  <2>1. /\ at[t] = "ready" /\ at'[t] = "reading" /\ \A u \in Threads \ {t} : at'[u] = at[u]
        /\ UNCHANGED <<pairs, clock, log, txn, gen>>
    BY Zenon, <1>0, <1>11 DEF HeadRead, TypeOK, store, mine
  <2> QED
    BY Zenon, <1>3, <1>4, <2>1
<1>12. ASSUME NEW t \in Threads, NEW k \in Keys, HeadFind(t, k) PROVE VisibleInv'
  BY Zenon, <1>3, <1>4, <1>12 DEF HeadFind, store, mine
<1>13. CASE UNCHANGED vars
  <2>1. UNCHANGED <<pairs, clock, txn, gen, at, log>>
    BY Zenon, <1>13 DEF vars
  <2>2. StagedTogether'
    BY Zenon, <2>1 DEF VisibleInv, StagedTogether
  <2> QED
    BY Zenon, <1>0, <2>1, <2>2, QuietVisible
<1>14. CASE Next
  BY Zenon, <1>0, <1>2, <1>5, <1>7, <1>8, <1>9, <1>10, <1>11, <1>12, <1>14,
     StageVisible, CommitVisible, HeadWriteVisible DEF Next
<1> QED
  BY Zenon, <1>13, <1>14

\* What ukv_read finds is what replaying the batches and the committed
\* transactions by sequence number gives, whatever stage() lets through.
THEOREM ReplayGivesState == Spec => []ReplayMatches
<1>1. Init => VisibleInv
  <2> SUFFICES ASSUME Init PROVE VisibleInv
    BY Zenon
  <2>1. TypeOK /\ GenerationsApart /\ PairsNewest
    BY Zenon, SerialInit DEF SerialInv
  <2>2. StagedTogether
    <3>1. \A t \in Threads : at[t] = "ready" /\ txn[t] = "none"
      BY Zenon DEF Init
    <3>2. "ready" # "staged" /\ "none" # "staged"
      OBVIOUS
    <3> QED
      BY Zenon, <3>1, <3>2 DEF StagedTogether
  <2> QED
    BY Zenon, <2>1, <2>2 DEF VisibleInv
<1>2. VisibleInv /\ [Next]_vars => VisibleInv'
  BY Zenon, VisibleStep
<1>3. VisibleInv => ReplayMatches
  <2> SUFFICES ASSUME VisibleInv PROVE ReplayMatches
    BY Zenon
  <2>1. clock \in Int /\ \A k \in Keys : pairs[k].gen <= clock
    BY Generations DEF VisibleInv, PairsNewest
  <2> QED
    BY Zenon, <2>1, VisibleHolds DEF VisibleInv, ReplayMatches
<1> QED
  BY <1>1, <1>2, <1>3, PTL DEF Spec

-----------------------------------------------------------------------------
(* Scans.                                                                   *)

\* A scan has found no more than it may, and who does not scan has found
\* nothing.
ScanInv ==
    \A t \in Threads :
       /\ found[t] <= limit[t]
       /\ at[t] # "scanning" => found[t] = 0 /\ limit[t] = 0

\* One thread moves.
LEMMA ScanPrivate ==
    ASSUME ScanInv, NEW t \in Threads,
           \A u \in Threads \ {t} : at'[u] = at[u] /\ found'[u] = found[u] /\ limit'[u] = limit[u],
           found'[t] <= limit'[t],
           at'[t] # "scanning" => found'[t] = 0 /\ limit'[t] = 0
    PROVE  ScanInv'
<1> SUFFICES ASSUME NEW u \in Threads
             PROVE  /\ found'[u] <= limit'[u]
                    /\ at'[u] # "scanning" => found'[u] = 0 /\ limit'[u] = 0
  BY Zenon DEF ScanInv
<1>1. CASE u = t
  BY Zenon, <1>1
<1>2. CASE u # t
  BY Zenon, <1>2 DEF ScanInv
<1> QED
  BY Zenon, <1>1, <1>2

LEMMA ScanStep ==
    ASSUME TypeOK, ScanInv, [Next]_vars, 0 \notin Limits
    PROVE  ScanInv'
<1>0. 0 <= 0 /\ "ready" # "scanning" /\ "watched" # "scanning" /\ "staged" # "scanning"
      /\ "reading" # "scanning"
  OBVIOUS
<1>1. ASSUME UNCHANGED <<at, found, limit>> PROVE ScanInv'
  BY Zenon, <1>1 DEF ScanInv
<1>2. ASSUME NEW t \in Threads, NEW step, at[t] # "scanning", step # "scanning",
             at' = [at EXCEPT ![t] = step], UNCHANGED <<found, limit>>
      PROVE  ScanInv'
  <2>1. at'[t] = step /\ \A u \in Threads \ {t} : at'[u] = at[u]
    BY Zenon, <1>2 DEF TypeOK
  <2>2. found'[t] <= limit'[t] /\ found'[t] = 0 /\ limit'[t] = 0
    BY Zenon, <1>2 DEF ScanInv
  <2> QED
    BY Zenon, <1>2, <2>1, <2>2, ScanPrivate
<1>3. ASSUME NEW t \in Threads, Returns(t) PROVE ScanInv'
  BY Zenon, <1>0, <1>3, ReturnsAlone, ScanPrivate
<1>4. ASSUME NEW t \in Threads, NEW k \in Starts, NEW n \in Limits, ScanStart(t, k, n)
      PROVE  ScanInv'
  <2>1. n \in Nat /\ n # 0
    BY Zenon, BoundsAssumption
  <2>2. /\ at'[t] = "scanning" /\ limit'[t] = n
        /\ \A u \in Threads \ {t} : at'[u] = at[u] /\ limit'[u] = limit[u]
    BY Zenon, <1>4 DEF ScanStart, TypeOK
  <2>3. found[t] = 0
    BY Zenon, <1>0, <1>4 DEF ScanStart, ScanInv
  <2>4. found' = [found EXCEPT ![t] = 1] \/ found' = found
    BY Zenon, <1>4 DEF ScanStart, Finds
  <2>5. /\ found'[t] \in {0, 1}
        /\ \A u \in Threads \ {t} : found'[u] = found[u]
    BY Zenon, <2>3, <2>4 DEF TypeOK
  <2>6. found'[t] <= limit'[t]
    BY <2>1, <2>2, <2>5
  <2> QED
    BY Zenon, <2>2, <2>5, <2>6, ScanPrivate
<1>5. ASSUME NEW t \in Threads, ScanNext(t) PROVE ScanInv'
  <2>1. PICK k \in Keys : Finds(t, k, found[t] + 1)
    BY Zenon, <1>5 DEF ScanNext, Following
  <2>2. at' = at /\ limit' = limit /\ at[t] = "scanning" /\ found[t] # limit[t]
    BY Zenon, <1>5 DEF ScanNext, ScanMore
  <2>3. found'[t] = found[t] + 1 /\ \A u \in Threads \ {t} : found'[u] = found[u]
    BY Zenon, <2>1 DEF Finds, TypeOK
  <2>4. found[t] \in Nat /\ limit[t] \in Nat /\ found[t] <= limit[t]
    BY Zenon DEF TypeOK, ScanInv
  <2>5. found'[t] <= limit'[t]
    BY <2>2, <2>3, <2>4
  <2> QED
    BY Zenon, <2>2, <2>3, <2>5, ScanPrivate
<1>6. CASE UNCHANGED vars
  BY Zenon, <1>1, <1>6 DEF vars
<1>7. ASSUME NEW t \in Threads, NEW k \in Keys, ReadWatch(t, k) PROVE ScanInv'
  BY Zenon, <1>0, <1>2, <1>7 DEF ReadWatch, MayAccess, Open
<1>8. ASSUME NEW t \in Threads, Stage(t) PROVE ScanInv'
  BY Zenon, <1>0, <1>2, <1>8 DEF Stage, Open
<1>9. ASSUME NEW t \in Threads, NEW ks \in ReadBatches, HeadRead(t, ks) PROVE ScanInv'
  BY Zenon, <1>0, <1>2, <1>9 DEF HeadRead
<1>10. ASSUME NEW t \in Threads, TxnInit(t) \/ TxnFree(t) PROVE ScanInv'
  BY Zenon, <1>1, <1>10 DEF TxnInit, TxnFree, call
<1>11. ASSUME NEW t \in Threads, NEW k \in Keys, HeadFind(t, k) PROVE ScanInv'
  BY Zenon, <1>1, <1>11 DEF HeadFind
<1>12. ASSUME NEW t \in Threads, NEW k \in Keys, NEW v \in Values \cup {Missing},
              NEW d \in DontWatch, TxnWrite(t, k, v, d)
       PROVE  ScanInv'
  BY Zenon, <1>1, <1>12 DEF TxnWrite, call
<1>13. ASSUME NEW t \in Threads,
              ReadFind(t) \/ ScanEnd(t) \/ ScanFull(t) \/ Commit(t) \/ HeadReturn(t)
       PROVE  ScanInv'
  BY Zenon, <1>3, <1>13 DEF ReadFind, ScanEnd, ScanFull, Commit, HeadReturn
<1>14. ASSUME NEW ks \in WriteBatches, NEW v \in Values \cup {NullRange}, HeadWrite(ks, v)
       PROVE  ScanInv'
  BY Zenon, <1>1, <1>14 DEF HeadWrite, call
<1>15. CASE Next
  BY Zenon, <1>4, <1>5, <1>7, <1>8, <1>9, <1>10, <1>11, <1>12, <1>13, <1>14, <1>15 DEF Next
<1> QED
  BY Zenon, <1>6, <1>15

\* ukv_scan never exports more keys than the caller has asked for, and the
\* engine has allocated, when at least one is asked for: scan_and_watch counts
\* the pair under the first key before it looks at the limit.
THEOREM ScansWithinLimit == ASSUME 0 \notin Limits PROVE Spec => []ScanWithinLimit
<1>1. Init => TypeOK /\ ScanInv
  <2> SUFFICES ASSUME Init PROVE TypeOK /\ ScanInv
    BY Zenon
  <2>1. 0 <= 0
    OBVIOUS
  <2>2. \A t \in Threads : found[t] = 0 /\ limit[t] = 0
    BY Zenon DEF Init
  <2> QED
    BY Zenon, <2>1, <2>2, TypeInit DEF ScanInv
<1>2. (TypeOK /\ ScanInv) /\ [Next]_vars => (TypeOK /\ ScanInv)'
  BY Zenon, TypeStep, ScanStep
<1>3. TypeOK /\ ScanInv => ScanWithinLimit
  BY Zenon DEF ScanInv, ScanWithinLimit
<1> QED
  BY <1>1, <1>2, <1>3, PTL DEF Spec

-----------------------------------------------------------------------------
(* Batches of reads.                                                        *)

\* What was applied stays applied.
LEMMA HistoryGrows ==
    ASSUME TypeOK, [Next]_vars
    PROVE  log \subseteq log' /\ clock <= clock' /\ clock \in Nat /\ clock' \in Nat
<1>0. clock \in Nat /\ clock' \in Nat
  BY Zenon, TypeStep DEF TypeOK
<1>1. \/ clock' = clock /\ (log' = log \/ \E t \in Threads : log' = log \cup {Applied(t)})
      \/ clock' = clock + 1 /\ (log' = log \/ \E r : log' = log \cup {r})
  <2>1. ASSUME NEW t \in Threads,
               \/ TxnInit(t) \/ TxnFree(t)
               \/ \E k \in Keys : ReadWatch(t, k) \/ HeadFind(t, k)
               \/ ReadFind(t)
               \/ \E k \in Keys, v \in Values \cup {Missing}, dont_watch \in DontWatch :
                     TxnWrite(t, k, v, dont_watch)
               \/ \E k \in Starts, n \in Limits : ScanStart(t, k, n)
               \/ ScanNext(t) \/ ScanEnd(t) \/ ScanFull(t)
               \/ \E ks \in ReadBatches : HeadRead(t, ks)
               \/ HeadReturn(t)
        PROVE  clock' = clock /\ log' = log
    BY Zenon, <2>1 DEF TxnInit, TxnFree, ReadWatch, HeadFind, ReadFind, TxnWrite, ScanStart,
       ScanNext, ScanEnd, ScanFull, HeadRead, HeadReturn, store
  <2>2. ASSUME NEW t \in Threads, Stage(t) PROVE clock' = clock + 1 /\ log' = log
    BY Zenon, <2>2 DEF Stage
  <2>3. ASSUME NEW t \in Threads, Commit(t) PROVE clock' = clock /\ log' = log \cup {Applied(t)}
    BY Zenon, <2>3 DEF Commit
  <2>4. ASSUME NEW ks \in WriteBatches, NEW v \in Values \cup {NullRange}, HeadWrite(ks, v)
        PROVE  clock' = clock + 1 /\ \E r : log' = log \cup {r}
    BY Zenon, <2>4 DEF HeadWrite
  <2>5. CASE UNCHANGED vars
    BY Zenon, <2>5 DEF vars
  <2> QED
    BY Zenon, <2>1, <2>2, <2>3, <2>4, <2>5 DEF Next
<1>2. log \subseteq log'
  BY Zenon, <1>1
<1>3. clock' = clock \/ clock' = clock + 1
  BY Zenon, <1>1
<1> QED
  BY <1>0, <1>2, <1>3

\* Only find() adds to what a batch read has; the other steps of a batch start
\* it or return.
LEMMA BatchSteps ==
    ASSUME TypeOK, [Next]_vars
    PROVE  \/ UNCHANGED <<todo, got>> /\ \A t \in Threads : at'[t] = "reading" => at[t] = "reading"
           \/ \E t \in Threads : Returns(t)
           \/ \E t \in Threads, ks \in ReadBatches : HeadRead(t, ks)
           \/ \E t \in Threads, k \in Keys : HeadFind(t, k)
<1>1. ASSUME NEW t \in Threads, NEW step, step # "reading", at' = [at EXCEPT ![t] = step]
      PROVE  \A u \in Threads : at'[u] = "reading" => at[u] = "reading"
  BY Zenon, <1>1 DEF TypeOK
<1>2. "watched" # "reading" /\ "scanning" # "reading" /\ "staged" # "reading"
  OBVIOUS
<1>3. ASSUME NEW t \in Threads, NEW k \in Keys, ReadWatch(t, k)
      PROVE  UNCHANGED <<todo, got>> /\ \A u \in Threads : at'[u] = "reading" => at[u] = "reading"
  BY Zenon, <1>1, <1>2, <1>3 DEF ReadWatch
<1>4. ASSUME NEW t \in Threads, NEW k \in Starts, NEW n \in Limits, ScanStart(t, k, n)
      PROVE  UNCHANGED <<todo, got>> /\ \A u \in Threads : at'[u] = "reading" => at[u] = "reading"
  BY Zenon, <1>1, <1>2, <1>4 DEF ScanStart
<1>5. ASSUME NEW t \in Threads, Stage(t)
      PROVE  UNCHANGED <<todo, got>> /\ \A u \in Threads : at'[u] = "reading" => at[u] = "reading"
  BY Zenon, <1>1, <1>2, <1>5 DEF Stage
<1>6. ASSUME \/ \E t \in Threads : TxnInit(t) \/ TxnFree(t) \/ ScanNext(t)
             \/ \E t \in Threads, k \in Keys, v \in Values \cup {Missing}, d \in DontWatch :
                   TxnWrite(t, k, v, d)
             \/ \E ks \in WriteBatches, v \in Values \cup {NullRange} : HeadWrite(ks, v)
             \/ UNCHANGED vars
      PROVE  UNCHANGED <<todo, got, at>>
  BY Zenon, <1>6 DEF TxnInit, TxnFree, ScanNext, TxnWrite, HeadWrite, call, vars
<1>7. ASSUME NEW t \in Threads,
             ReadFind(t) \/ ScanEnd(t) \/ ScanFull(t) \/ Commit(t) \/ HeadReturn(t)
      PROVE  Returns(t)
  BY Zenon, <1>7 DEF ReadFind, ScanEnd, ScanFull, Commit, HeadReturn
<1> QED
  BY Zenon, <1>3, <1>4, <1>5, <1>6, <1>7 DEF Next

\* What find() returns was visible from the generation of its pair on.
LEMMA FoundVisible ==
    ASSUME VisibleInv, NEW k \in Keys
    PROVE  \E g \in 0..clock : VisibleFrom(k, Shown(pairs[k].val), g)
<1>1. pairs[k].gen \in Nat /\ clock \in Nat /\ pairs[k].gen <= clock
  BY Zenon DEF VisibleInv, TypeOK, Entry, PairsNewest
<1>2. pairs[k].gen \in 0..clock
  BY <1>1
<1>3. CASE pairs[k] = [val |-> Missing, gen |-> 0]
  BY <1>2, <1>3, DataAssumption DEF VisibleFrom, Shown
<1>4. ASSUME NEW r \in log, r.writes[k] # Untouched,
             pairs[k] = [val |-> r.writes[k], gen |-> r.gen]
      PROVE  VisibleFrom(k, Shown(pairs[k].val), pairs[k].gen)
  <2>1. pairs[k].val = r.writes[k] /\ pairs[k].gen = r.gen
    BY <1>4
  <2> QED
    BY Zenon, <1>4, <2>1 DEF VisibleFrom
<1> QED
  BY Zenon, <1>2, <1>3, <1>4 DEF VisibleInv, PairsNewest

\* A value that was visible from a generation on is what its key held then.
LEMMA VisibleThen ==
    ASSUME VisibleInv, NEW k \in Keys, NEW v, NEW g \in Nat, VisibleFrom(k, v, g)
    PROVE  HoldsAt(k, v, g)
<1>0. \A r \in log : r.gen \in Nat /\ 0 < r.gen
  BY Zenon DEF VisibleInv, TypeOK, GenerationsApart, Record
<1>1. CASE g = 0 /\ v = Missing
  <2>1. Writers(k, g) = {}
    BY <1>0, <1>1 DEF Writers
  <2> QED
    BY Zenon, <1>1, <2>1 DEF HoldsAt
<1>2. ASSUME NEW r \in log, r.gen = g, r.writes[k] # Untouched, v = Shown(r.writes[k])
      PROVE  HoldsAt(k, v, g)
  <2>1. r \in Writers(k, g) /\ \A x \in Writers(k, g) : x.gen <= r.gen
    BY <1>0, <1>2 DEF Writers
  <2> QED
    BY Zenon, <1>2, <2>1 DEF HoldsAt
<1> QED
  BY Zenon, <1>1, <1>2 DEF VisibleFrom

\* What was read stays what was visible once.
LEMMA ReadsVisibleStep ==
    ASSUME VisibleInv, ReadsVisible, [Next]_vars
    PROVE  ReadsVisible'
<1>0. TypeOK
  BY Zenon DEF VisibleInv
<1>1. log \subseteq log' /\ \A g \in 0..clock : g \in 0..clock'
  BY <1>0, HistoryGrows
<1>2. ASSUME NEW k, NEW v, \E g \in 0..clock : VisibleFrom(k, v, g)
      PROVE  \E g \in 0..clock' : VisibleFrom(k, v, g)'
  BY Zenon, <1>1, <1>2 DEF VisibleFrom
<1>3. ASSUME NEW t \in Threads, \A u \in Threads \ {t} : got'[u] = got[u],
             \A p \in got'[t] : p \in got[t] \/ \E k \in Keys : p = <<k, Shown(pairs[k].val)>>
      PROVE  ReadsVisible'
  <2> SUFFICES ASSUME NEW u \in Threads, NEW p \in got'[u]
               PROVE  \E g \in 0..clock' : VisibleFrom(p[1], p[2], g)'
    BY Zenon DEF ReadsVisible
  <2>1. CASE p \in got[u]
    BY Zenon, <1>2, <2>1 DEF ReadsVisible
  <2>2. ASSUME NEW k \in Keys, p = <<k, Shown(pairs[k].val)>>
        PROVE  \E g \in 0..clock' : VisibleFrom(p[1], p[2], g)'
    <3>1. p[1] = k /\ p[2] = Shown(pairs[k].val)
      BY Zenon, <2>2
    <3> QED
      BY Zenon, <1>2, <3>1, FoundVisible
  <2> QED
    BY Zenon, <1>3, <2>1, <2>2
<1>4. CASE UNCHANGED <<todo, got>>
  BY Zenon, <1>2, <1>4 DEF ReadsVisible
<1>5. ASSUME NEW t \in Threads, Returns(t) PROVE ReadsVisible'
  BY Zenon, <1>0, <1>3, <1>5 DEF Returns, TypeOK
<1>6. ASSUME NEW t \in Threads, NEW ks \in ReadBatches, HeadRead(t, ks) PROVE ReadsVisible'
  BY Zenon, <1>0, <1>3, <1>6 DEF HeadRead, TypeOK
<1>7. ASSUME NEW t \in Threads, NEW k \in Keys, HeadFind(t, k) PROVE ReadsVisible'
  BY Zenon, <1>0, <1>3, <1>7 DEF HeadFind, TypeOK
<1> QED
  BY Zenon, <1>0, <1>4, <1>5, <1>6, <1>7, BatchSteps

LEMMA ReadsHeld ==
    ASSUME VisibleInv, ReadsVisible, NEW t \in Threads, NEW p \in got[t]
    PROVE  \E g \in 0..clock : HoldsAt(p[1], p[2], g)
<1>1. PICK g \in 0..clock : VisibleFrom(p[1], p[2], g)
  BY Zenon DEF ReadsVisible
<1>2. p[1] \in Keys
  BY DEF VisibleInv, TypeOK
<1>3. g \in Nat
  BY DEF VisibleInv, TypeOK
<1> QED
  BY Zenon, <1>1, <1>2, <1>3, VisibleThen

LEMMA VisibleInit == Init => VisibleInv /\ ReadsVisible
<1> SUFFICES ASSUME Init PROVE VisibleInv /\ ReadsVisible
  BY Zenon
<1>1. TypeOK /\ GenerationsApart /\ PairsNewest
  BY Zenon, SerialInit DEF SerialInv
<1>2. \A t \in Threads : at[t] = "ready" /\ txn[t] = "none" /\ got[t] = {}
  BY Zenon DEF Init
<1>3. "ready" # "staged" /\ "none" # "staged" /\ "ready" # "reading"
  OBVIOUS
<1> QED
  BY Zenon, <1>1, <1>2, <1>3 DEF VisibleInv, StagedTogether, ReadsVisible

\* Whatever the size of its batch, ukv_read outside transactions returns for
\* each key what the writes up to some generation left there: never a value
\* that was staged and not committed, and never a null range.
THEOREM EachReadWasHeld ==
    Spec => []EachReadHeld
<1>1. Init => VisibleInv /\ ReadsVisible
  BY Zenon, VisibleInit
<1>2. (VisibleInv /\ ReadsVisible) /\ [Next]_vars => (VisibleInv /\ ReadsVisible)'
  BY Zenon, VisibleStep, ReadsVisibleStep
<1>3. VisibleInv /\ ReadsVisible => EachReadHeld
  BY ReadsHeld, Zenon DEF EachReadHeld
<1> QED
  BY <1>1, <1>2, <1>3, PTL DEF Spec
=============================================================================
