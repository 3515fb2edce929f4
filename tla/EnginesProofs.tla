---------------------------- MODULE EnginesProofs ---------------------------
(***************************************************************************)
(* The engine over RocksDB implements the abstract Store, and the numbers  *)
(* it reports order the commits: for any threads, collections, keys,       *)
(* batches and bounds.  Then the handles of the engines over RocksDB and   *)
(* LevelDB: what is listed is what there is, snapshots show the moment     *)
(* they were taken, and drops leave nothing behind.                        *)
(***************************************************************************)
EXTENDS Rocks, Level, TLAPS

Batch == [Places -> Content \cup {Unchanged}]

\* What the parts of Next leave typed, as facts to cite.
LEMMA NothingTyped == Nothing \in Batch /\ Touches(Nothing) = {}
BY Zenon DEF Nothing, Batch, Touches

LEMMA OverTyped ==
    ASSUME NEW b \in Batch
    PROVE  /\ \A c \in Batch : Over(b, c) \in Batch
           /\ \A f \in [Places -> Content] : Over(b, f) \in [Places -> Content]
BY Zenon DEF Over, Batch

LEMMA BatchesTyped == Batches \subseteq Batch
BY Zenon, DataAssumption DEF Batch

LEMMA NextNumber ==
    /\ \A n \in Nat : n + 1 \in Nat
    /\ 0 \in Nat
    /\ \A n \in Nat : n # Untracked
BY DEF Untracked

LEMMA VersionsTyped ==
    ASSUME table \in [Places -> Version], sequence \in Nat, NEW b \in Batch
    PROVE  Versions(b) \in [Places -> Version]
BY Zenon, NextNumber DEF Versions, Version, Batch

LEMMA TrackingTyped ==
    ASSUME tracked \in [Threads -> [Places -> Nat \cup {Untracked}]], sequence \in Nat,
           NEW t \in Threads, NEW P \in SUBSET Places
    PROVE  Tracking(t, P) \in [Places -> Nat \cup {Untracked}]
BY Zenon DEF Tracking

LEMMA AppliesTyped ==
    ASSUME TypeOK, NEW b \in Batch, NEW flush \in BOOLEAN, Applies(b, flush)
    PROVE  /\ table' \in [Places -> Version]
           /\ sequence' \in Nat
           /\ durable' \in [Places -> Content]
BY Zenon, VersionsTyped, OverTyped, NextNumber DEF TypeOK, Applies

LEMMA EmptiesTyped ==
    ASSUME TypeOK, NEW t \in Threads, Empties(t)
    PROVE  /\ tracked' \in [Threads -> [Places -> Nat \cup {Untracked}]]
           /\ changes' \in [Threads -> Batch]
           /\ reads' \in [Threads -> SUBSET (Places \X Content)]
BY Zenon, NothingTyped DEF TypeOK, Empties, Batch

LEMMA CommitsTyped ==
    ASSUME TypeOK, NEW t \in Threads, Commits(t)
    PROVE  /\ table' \in [Places -> Version]
           /\ sequence' \in Nat
           /\ durable' \in [Places -> Content]
           /\ tracked' \in [Threads -> [Places -> Nat \cup {Untracked}]]
           /\ changes' \in [Threads -> Batch]
           /\ reads' \in [Threads -> SUBSET (Places \X Content)]
           /\ txn' \in [Threads -> BOOLEAN]
<1>1. changes[t] \in Batch
  BY Zenon DEF TypeOK, Batch
<1>2. /\ table' \in [Places -> Version]
      /\ sequence' \in Nat
      /\ durable' \in [Places -> Content]
  <2>1. CASE changes[t] = Nothing
    BY Zenon, <2>1 DEF Commits, engine, TypeOK
  <2>2. CASE changes[t] # Nothing
    BY Zenon, <2>2, <1>1, AppliesTyped DEF Commits
  <2> QED
    BY Zenon, <2>1, <2>2
<1> QED
  BY Zenon, <1>2, EmptiesTyped DEF Commits, TypeOK

LEMMA ReopensTyped ==
    ASSUME durable' \in [Places -> Content], Reopens
    PROVE  TypeOK'
<1>1. table' \in [Places -> Version]
  BY Zenon, NextNumber DEF Reopens, Version
<1>2. changes' \in [Threads -> [Places -> Content \cup {Unchanged}]]
  BY Zenon, NothingTyped DEF Reopens, Batch
<1> QED
  BY Zenon, <1>1, <1>2, NextNumber DEF Reopens, TypeOK

-----------------------------------------------------------------------------
(* Type correctness.                                                        *)

LEMMA TypeInit == Init => TypeOK
<1> SUFFICES ASSUME Init PROVE TypeOK
  OBVIOUS
<1>1. table \in [Places -> Version]
  BY Zenon, NextNumber DEF Init, Version, Content
<1>2. changes \in [Threads -> [Places -> Content \cup {Unchanged}]]
  BY Zenon, NothingTyped DEF Init, Batch
<1> QED
  BY Zenon, <1>1, <1>2, NextNumber DEF Init, TypeOK, Content

LEMMA TypeNext == TypeOK /\ [Next]_vars => TypeOK'
<1> SUFFICES ASSUME TypeOK, [Next]_vars PROVE TypeOK'
  OBVIOUS
<1> USE DEF mine, call, engine, Goes
<1>1. ASSUME NEW t \in Threads, NEW b \in Batches, NEW flush \in BOOLEAN, Write(t, b, flush)
      PROVE  TypeOK'
  <2>1. b \in Batch
    BY Zenon, BatchesTyped
  <2> QED
    BY Zenon, <1>1, <2>1, AppliesTyped DEF Write, TypeOK
<1>2. ASSUME NEW t \in Threads, NEW b \in Batches, NEW watch \in BOOLEAN, TxnWrite(t, b, watch)
      PROVE  TypeOK'
  <2>1. Over(b, changes[t]) \in Batch
    BY Zenon, BatchesTyped, OverTyped DEF TypeOK, Batch
  <2>2. changes' \in [Threads -> Batch]
    BY Zenon, <1>2, <2>1 DEF TxnWrite, TypeOK, Batch
  <2>3. Touches(b) \in SUBSET Places
    BY Zenon DEF Touches
  <2>4. tracked' \in [Threads -> [Places -> Nat \cup {Untracked}]]
    BY Zenon, <1>2, <2>3, TrackingTyped DEF TxnWrite, TypeOK
  <2> QED
    BY Zenon, <1>2, <2>2, <2>4 DEF TxnWrite, TypeOK, Batch
<1>3. ASSUME NEW t \in Threads, NEW P \in ReadSets, TxnRead(t, P)
      PROVE  TypeOK'
  <2>1. P \in SUBSET Places
    BY Zenon, DataAssumption
  <2> QED
    BY Zenon, <1>3, <2>1, TrackingTyped DEF TxnRead, TypeOK
<1>4. ASSUME NEW t \in Threads, NEW p \in Places, TxnGet(t, p)
      PROVE  TypeOK'
  <2>1. table[p].val \in Content
    BY Zenon DEF TypeOK, Version
  <2>2. reads' \in [Threads -> SUBSET (Places \X Content)]
    BY <1>4, <2>1 DEF TxnGet, TypeOK
  <2>3. at' \in [Threads -> {"ready", "getting", "locked", "committed"}]
    BY Zenon, <1>4 DEF TxnGet, TypeOK
  <2> QED
    BY Zenon, <1>4, <2>2, <2>3 DEF TxnGet, TypeOK
<1>5. ASSUME NEW t \in Threads, TxnInit(t) \/ TxnFree(t)
      PROVE  TypeOK'
  BY Zenon, <1>5, EmptiesTyped DEF TxnInit, TxnFree, TypeOK, Batch
<1>6. ASSUME NEW t \in Threads, Commit(t)
      PROVE  TypeOK'
  BY Zenon, <1>6, CommitsTyped DEF Commit, TypeOK, Batch
<1>7. ASSUME NEW t \in Threads, CommitLocks(t) \/ CommitFails(t)
      PROVE  TypeOK'
  BY Zenon, <1>7 DEF CommitLocks, CommitFails, TypeOK
<1>8. ASSUME NEW t \in Threads, CommitLocked(t)
      PROVE  TypeOK'
  <2>1. own' \in [Threads -> Nat]
    BY Zenon, <1>8, CommitsTyped, NextNumber DEF CommitLocked, TypeOK
  <2> QED
    BY Zenon, <1>8, <2>1, CommitsTyped DEF CommitLocked, TypeOK, Batch
<1>9. ASSUME NEW t \in Threads, CommitReports(t)
      PROVE  TypeOK'
  <2>1. reported' \subseteq Nat \X Nat
    BY <1>9 DEF CommitReports, TypeOK
  <2> QED
    BY Zenon, <1>9, <2>1, NextNumber DEF CommitReports, TypeOK
<1>10. ASSUME NEW f \in Families, Flushes(f)
       PROVE  TypeOK'
  <2>1. durable' \in [Places -> Content]
    BY Zenon, <1>10 DEF Flushes, TypeOK, Version
  <2> QED
    BY Zenon, <1>10, <2>1 DEF Flushes, TypeOK
<1>11. CASE Crash
  BY Zenon, <1>11, ReopensTyped DEF Crash, TypeOK
<1>12. CASE DatabaseFree
  <2>1. Contents \in [Places -> Content]
    BY Zenon DEF Contents, TypeOK, Version
  <2> QED
    BY Zenon, <1>12, <2>1, ReopensTyped DEF DatabaseFree
<1>13. CASE UNCHANGED vars
  BY Zenon, <1>13 DEF vars, TypeOK
<1> QED
  BY Zenon, <1>1, <1>2, <1>3, <1>4, <1>5, <1>6, <1>7, <1>8, <1>9, <1>10, <1>11, <1>12, <1>13
     DEF Next

\* The engine's state, its transactions and the calls in flight keep their
\* types, for every bound.
THEOREM RocksTypeCorrect == Spec => []TypeOK
<1>1. Init => TypeOK
  BY TypeInit
<1>2. TypeOK /\ [Next]_vars => TypeOK'
  BY TypeNext
<1> QED
  BY <1>1, <1>2, PTL DEF Spec

-----------------------------------------------------------------------------
(* What a transaction has read holds as long as its commit would succeed.   *)

\* Every watched read is of a tracked key, and is current as long as the key
\* was not written since it was tracked.
Current ==
    \A t \in Threads, p \in Places, v \in Content :
        <<p, v>> \in reads[t] =>
            /\ tracked[t][p] # Untracked
            /\ table[p].seq <= tracked[t][p] => table[p].val = v

\* Reads in flight have tracked their keys; only transactions have contents.
CallSound(t) ==
    /\ \A p \in gets[t] : tracked[t][p] # Untracked
    /\ at[t] # "getting" => gets[t] = {}
    /\ ~txn[t] => at[t] = "ready" /\ reads[t] = {} /\ changes[t] = Nothing
Calling == \A t \in Threads : CallSound(t)

\* No number is from the future.
Numbers ==
    /\ \A p \in Places : table[p].seq <= sequence
    /\ \A t \in Threads, p \in Places : tracked[t][p] <= sequence

StoreInv == TypeOK /\ Current /\ Calling /\ Numbers

\* A step leaves versions that are not younger than a tracked number alone.
OlderStays ==
    \A p \in Places, n \in Nat \cup {Untracked} :
        n <= sequence /\ table'[p].seq <= n => table'[p] = table[p]

\* A step leaves the reads it keeps tracked as they were.
ReadsKept ==
    \A t \in Threads, p \in Places, v \in Content :
        <<p, v>> \in reads'[t] => <<p, v>> \in reads[t] /\ tracked'[t][p] = tracked[t][p]

LEMMA CurrentKept ==
    ASSUME TypeOK, Current, Numbers, OlderStays, ReadsKept
    PROVE  Current'
<1> SUFFICES ASSUME NEW t \in Threads, NEW p \in Places, NEW v \in Content, <<p, v>> \in reads'[t]
             PROVE  /\ tracked'[t][p] # Untracked
                    /\ table'[p].seq <= tracked'[t][p] => table'[p].val = v
  BY Zenon DEF Current
<1>1. <<p, v>> \in reads[t] /\ tracked'[t][p] = tracked[t][p]
  BY Zenon DEF ReadsKept
<1>2. tracked[t][p] \in Nat \cup {Untracked} /\ tracked[t][p] <= sequence
  BY Zenon DEF TypeOK, Numbers
<1>3. /\ tracked[t][p] # Untracked
      /\ table[p].seq <= tracked[t][p] => table[p].val = v
  BY Zenon, <1>1 DEF Current
<1>4. table'[p].seq <= tracked[t][p] => table'[p] = table[p]
  BY Zenon, <1>2 DEF OlderStays
<1> QED
  BY Zenon, <1>1, <1>3, <1>4

\* A batch makes the versions it writes younger than everything tracked.
LEMMA AppliesYounger ==
    ASSUME TypeOK, Numbers, NEW b \in Batch, NEW flush \in BOOLEAN, Applies(b, flush)
    PROVE  /\ OlderStays
           /\ \A p \in Places : table'[p].seq <= sequence'
           /\ \A t \in Threads, p \in Places : tracked[t][p] <= sequence'
<1> USE DEF Applies
<1>1. sequence \in Nat /\ sequence' = sequence + 1
  BY Zenon DEF TypeOK
<1>2. ASSUME NEW p \in Places
      PROVE  /\ table[p].seq \in Nat
             /\ table'[p] = table[p] \/ table'[p].seq = sequence + 1
  BY Zenon DEF TypeOK, Version, Versions
<1>3. \A n \in Nat \cup {Untracked} : n <= sequence => n <= sequence + 1 /\ ~(sequence + 1 <= n)
  BY <1>1 DEF Untracked
<1>4. sequence + 1 <= sequence + 1
  BY <1>1
<1>5. OlderStays
  BY Zenon, <1>2, <1>3 DEF OlderStays
<1>6. \A p \in Places : table'[p].seq <= sequence'
  BY Zenon, <1>1, <1>2, <1>3, <1>4 DEF Numbers
<1>7. \A t \in Threads, p \in Places : tracked[t][p] \in Nat \cup {Untracked}
  BY Zenon DEF TypeOK
<1> QED
  BY Zenon, <1>1, <1>3, <1>5, <1>6, <1>7 DEF Numbers

\* An empty transaction tracks nothing, which no number forbids.
LEMMA UntrackedLow == \A n \in Nat : Untracked <= n /\ n <= n /\ 0 <= n
BY DEF Untracked

LEMMA StoreInit == Init => StoreInv
<1> SUFFICES ASSUME Init PROVE StoreInv
  OBVIOUS
<1>1. Current /\ Calling
  BY Zenon DEF Init, Current, Calling, CallSound
<1>2. Numbers
  BY Zenon, UntrackedLow, NextNumber DEF Init, Numbers
<1> QED
  BY Zenon, <1>1, <1>2, TypeInit DEF StoreInv

\* Tracking more keys leaves the reads of the transaction as they are.
LEMMA TrackingKeeps ==
    ASSUME StoreInv, NEW t \in Threads, NEW P \in SUBSET Places,
           tracked' = [tracked EXCEPT ![t] = Tracking(t, P)], UNCHANGED <<reads, sequence>>
    PROVE  /\ ReadsKept
           /\ \A u \in Threads, p \in Places : tracked'[u][p] <= sequence'
           /\ \A u \in Threads, p \in Places :
                 tracked[u][p] # Untracked => tracked'[u][p] # Untracked
           /\ \A p \in P : tracked'[t][p] # Untracked
<1>1. \A u \in Threads, p \in Places :
         tracked'[u][p] = tracked[u][p] \/ (tracked[u][p] = Untracked /\ tracked'[u][p] = sequence)
  BY Zenon DEF StoreInv, TypeOK, Tracking
<1>2. \A p \in P : tracked'[t][p] = tracked[t][p] => tracked[t][p] # Untracked \/ sequence = Untracked
  BY Zenon DEF StoreInv, TypeOK, Tracking
<1>3. sequence \in Nat /\ sequence <= sequence /\ sequence # Untracked
  BY Zenon, UntrackedLow, NextNumber DEF StoreInv, TypeOK
<1>4. ReadsKept
  BY Zenon, <1>1 DEF ReadsKept, StoreInv, Current
<1>5. \A u \in Threads, p \in Places : tracked'[u][p] <= sequence'
  BY Zenon, <1>1, <1>3 DEF StoreInv, Numbers
<1> QED
  BY Zenon, <1>1, <1>2, <1>3, <1>4, <1>5

\* Emptying a transaction leaves the reads of the others as they are.
LEMMA EmptiesKeeps ==
    ASSUME TypeOK, NEW t \in Threads, Empties(t)
    PROVE  /\ ReadsKept
           /\ reads'[t] = {} /\ changes'[t] = Nothing
           /\ \A p \in Places : tracked'[t][p] = Untracked
           /\ \A u \in Threads \ {t} : /\ tracked'[u] = tracked[u]
                                       /\ reads'[u] = reads[u]
                                       /\ changes'[u] = changes[u]
<1>1. /\ reads'[t] = {} /\ changes'[t] = Nothing
      /\ \A p \in Places : tracked'[t][p] = Untracked
      /\ \A u \in Threads \ {t} : /\ tracked'[u] = tracked[u]
                                  /\ reads'[u] = reads[u]
                                  /\ changes'[u] = changes[u]
  BY Zenon DEF TypeOK, Empties
<1> QED
  BY Zenon, <1>1 DEF ReadsKept

\* Threads that a step does not concern.
LEMMA CallStays ==
    ASSUME NEW u, CallSound(u), gets'[u] = gets[u], at'[u] = at[u], txn'[u] = txn[u],
           reads'[u] = reads[u], changes'[u] = changes[u],
           \A p \in gets[u] : tracked[u][p] # Untracked => tracked'[u][p] # Untracked
    PROVE  CallSound(u)'
BY Zenon DEF CallSound

LEMMA EngineStays ==
    ASSUME UNCHANGED table
    PROVE  OlderStays
BY Zenon DEF OlderStays

\* A successful commit: what it wrote is younger, its transaction is empty.
LEMMA CommitsKeeps ==
    ASSUME StoreInv, NEW t \in Threads, at[t] # "getting", Commits(t),
           gets' = gets, NEW step \in {"ready", "committed"}, at' = [at EXCEPT ![t] = step]
    PROVE  Current' /\ Calling' /\ Numbers'
<1>1. ReadsKept /\ reads'[t] = {} /\ changes'[t] = Nothing
      /\ (\A p \in Places : tracked'[t][p] = Untracked)
      /\ (\A u \in Threads \ {t} : /\ tracked'[u] = tracked[u]
                                   /\ reads'[u] = reads[u]
                                   /\ changes'[u] = changes[u])
  BY Zenon, EmptiesKeeps DEF Commits, StoreInv
<1>2. /\ OlderStays
      /\ \A p \in Places : table'[p].seq <= sequence'
      /\ \A u \in Threads, p \in Places : tracked[u][p] <= sequence'
  <2>1. CASE changes[t] = Nothing
    BY Zenon, <2>1, EngineStays DEF Commits, engine, StoreInv, Numbers
  <2>2. CASE changes[t] # Nothing
    <3>1. changes[t] \in Batch
      BY Zenon DEF StoreInv, TypeOK, Batch
    <3> QED
      BY Zenon, <2>2, <3>1, AppliesYounger DEF Commits, StoreInv
  <2> QED
    BY Zenon, <2>1, <2>2
<1>3. Current'
  BY Zenon, <1>1, <1>2, CurrentKept DEF StoreInv
<1>4. sequence' \in Nat
  BY Zenon, CommitsTyped DEF StoreInv
<1>5. Numbers'
  BY Zenon, <1>1, <1>2, <1>4, UntrackedLow DEF Numbers
<1>6. gets'[t] = {} /\ txn[t] /\ txn' = txn
  BY Zenon DEF Commits, StoreInv, Calling, CallSound
<1>7. CallSound(t)'
  BY Zenon, <1>6 DEF CallSound
<1>8. \A u \in Threads \ {t} : at'[u] = at[u] /\ CallSound(u)
  BY Zenon DEF StoreInv, TypeOK, Calling
<1>9. ASSUME NEW u \in Threads \ {t}
      PROVE  CallSound(u)'
  <2>1. /\ gets'[u] = gets[u] /\ txn'[u] = txn[u] /\ tracked'[u] = tracked[u]
        /\ reads'[u] = reads[u] /\ changes'[u] = changes[u]
    BY Zenon, <1>1, <1>6
  <2> QED
    BY Zenon, <1>8, <2>1, CallStays
<1>10. Calling'
  BY Zenon, <1>7, <1>9 DEF Calling
<1> QED
  BY Zenon, <1>3, <1>5, <1>10

LEMMA ReopensKeeps ==
    ASSUME Reopens
    PROVE  Current' /\ Calling' /\ Numbers'
<1>1. Current' /\ Calling'
  BY Zenon DEF Reopens, Current, Calling, CallSound
<1>2. Numbers'
  BY Zenon, UntrackedLow, NextNumber DEF Reopens, Numbers
<1> QED
  BY Zenon, <1>1, <1>2

LEMMA StoreNext == StoreInv /\ [Next]_vars => StoreInv'
<1> SUFFICES ASSUME StoreInv, [Next]_vars PROVE Current' /\ Calling' /\ Numbers'
  BY Zenon, TypeNext DEF StoreInv
<1> USE DEF mine, call, engine, Goes
<1>1. ASSUME NEW t \in Threads, NEW b \in Batches, NEW flush \in BOOLEAN, Write(t, b, flush)
      PROVE  Current' /\ Calling' /\ Numbers'
  <2>1. /\ OlderStays
        /\ \A p \in Places : table'[p].seq <= sequence'
        /\ \A u \in Threads, p \in Places : tracked[u][p] <= sequence'
    BY Zenon, <1>1, BatchesTyped, AppliesYounger DEF Write, StoreInv
  <2>2. ReadsKept
    BY Zenon, <1>1 DEF Write, ReadsKept
  <2>3. Current'
    BY Zenon, <2>1, <2>2, CurrentKept DEF StoreInv
  <2>4. Calling' /\ Numbers'
    <3>1. UNCHANGED <<gets, tracked, at, txn, reads, changes>>
      BY Zenon, <1>1 DEF Write
    <3>2. Calling'
      BY Zenon, <3>1 DEF StoreInv, Calling, CallSound
    <3>3. Numbers'
      BY Zenon, <2>1, <3>1 DEF Numbers
    <3> QED
      BY Zenon, <3>2, <3>3
  <2> QED
    BY Zenon, <2>3, <2>4
<1>2. ASSUME NEW t \in Threads, NEW b \in Batches, NEW watch \in BOOLEAN, TxnWrite(t, b, watch)
      PROVE  Current' /\ Calling' /\ Numbers'
  <2>1. OlderStays /\ txn' = txn /\ at' = at /\ gets' = gets /\ reads' = reads
        /\ table' = table /\ sequence' = sequence /\ txn[t]
        /\ (\A u \in Threads \ {t} : changes'[u] = changes[u])
    BY Zenon, <1>2, EngineStays DEF TxnWrite, StoreInv, TypeOK
  <2>2. Touches(b) \in SUBSET Places
    BY Zenon DEF Touches
  <2>3. /\ ReadsKept
        /\ \A u \in Threads, p \in Places : tracked'[u][p] <= sequence'
        /\ \A u \in Threads, p \in Places : tracked[u][p] # Untracked => tracked'[u][p] # Untracked
    <3>1. CASE watch
      BY Zenon, <3>1, <1>2, <2>1, <2>2, TrackingKeeps DEF TxnWrite
    <3>2. CASE ~watch
      BY Zenon, <3>2, <1>2, <2>1 DEF TxnWrite, ReadsKept, StoreInv, Numbers
    <3> QED
      BY Zenon, <3>1, <3>2
  <2>4. Current'
    BY Zenon, <2>1, <2>3, CurrentKept DEF StoreInv
  <2>5. Numbers'
    BY Zenon, <2>1, <2>3 DEF StoreInv, Numbers
  <2>6. \A u \in Threads : CallSound(u) /\ gets[u] \subseteq Places
    BY Zenon DEF StoreInv, Calling, TypeOK
  <2>7. CallSound(t)'
    BY Zenon, <2>1, <2>3, <2>6 DEF CallSound
  <2>8. ASSUME NEW u \in Threads \ {t}
        PROVE  CallSound(u)'
    <3>1. /\ gets'[u] = gets[u] /\ at'[u] = at[u] /\ txn'[u] = txn[u]
          /\ reads'[u] = reads[u] /\ changes'[u] = changes[u]
      BY Zenon, <2>1
    <3>2. \A p \in gets[u] : tracked[u][p] # Untracked => tracked'[u][p] # Untracked
      BY Zenon, <2>3, <2>6
    <3> QED
      BY Zenon, <2>6, <3>1, <3>2, CallStays
  <2>9. Calling'
    BY Zenon, <2>7, <2>8 DEF Calling
  <2> QED
    BY Zenon, <2>4, <2>5, <2>9
<1>3. ASSUME NEW t \in Threads, NEW P \in ReadSets, TxnRead(t, P)
      PROVE  Current' /\ Calling' /\ Numbers'
  <2>1. OlderStays /\ txn' = txn /\ changes' = changes /\ reads' = reads
        /\ table' = table /\ sequence' = sequence /\ txn[t]
        /\ gets'[t] = P /\ at'[t] = "getting"
        /\ (\A u \in Threads \ {t} : gets'[u] = gets[u] /\ at'[u] = at[u])
    BY Zenon, <1>3, EngineStays DEF TxnRead, StoreInv, TypeOK
  <2>2. P \in SUBSET Places
    BY Zenon, DataAssumption
  <2>3. /\ ReadsKept
        /\ \A u \in Threads, p \in Places : tracked'[u][p] <= sequence'
        /\ \A u \in Threads, p \in Places : tracked[u][p] # Untracked => tracked'[u][p] # Untracked
        /\ \A p \in P : tracked'[t][p] # Untracked
    BY Zenon, <1>3, <2>1, <2>2, TrackingKeeps DEF TxnRead
  <2>4. Current'
    BY Zenon, <2>1, <2>3, CurrentKept DEF StoreInv
  <2>5. Numbers'
    BY Zenon, <2>1, <2>3 DEF StoreInv, Numbers
  <2>6. \A u \in Threads : CallSound(u) /\ gets[u] \subseteq Places
    BY Zenon DEF StoreInv, Calling, TypeOK
  <2>7. CallSound(t)'
    BY Zenon, <2>1, <2>3, <2>6 DEF CallSound
  <2>8. ASSUME NEW u \in Threads \ {t}
        PROVE  CallSound(u)'
    <3>1. /\ gets'[u] = gets[u] /\ at'[u] = at[u] /\ txn'[u] = txn[u]
          /\ reads'[u] = reads[u] /\ changes'[u] = changes[u]
      BY Zenon, <2>1
    <3>2. \A p \in gets[u] : tracked[u][p] # Untracked => tracked'[u][p] # Untracked
      BY Zenon, <2>3, <2>6
    <3> QED
      BY Zenon, <2>6, <3>1, <3>2, CallStays
  <2>9. Calling'
    BY Zenon, <2>7, <2>8 DEF Calling
  <2> QED
    BY Zenon, <2>4, <2>5, <2>9
<1>4. ASSUME NEW t \in Threads, NEW q \in Places, TxnGet(t, q)
      PROVE  Current' /\ Calling' /\ Numbers'
  <2>1. txn' = txn /\ changes' = changes /\ tracked' = tracked
        /\ table' = table /\ sequence' = sequence /\ q \in gets[t]
        /\ gets'[t] = gets[t] \ {q} /\ at[t] = "getting"
        /\ (at'[t] # "getting" => gets[t] = {q})
        /\ (\A u \in Threads \ {t} : gets'[u] = gets[u] /\ at'[u] = at[u] /\ reads'[u] = reads[u])
    BY Zenon, <1>4 DEF TxnGet, StoreInv, TypeOK
  <2>2. txn[t] /\ tracked[t][q] # Untracked
    BY Zenon, <2>1 DEF StoreInv, Calling, CallSound
  <2>3. \A p \in Places, v \in Content :
           <<p, v>> \in reads'[t] => <<p, v>> \in reads[t] \/ (p = q /\ v = table[q].val)
    <3>1. reads'[t] \subseteq reads[t] \cup {<<q, table[q].val>>}
      BY Zenon, <1>4 DEF TxnGet, StoreInv, TypeOK
    <3> QED
      BY <3>1
  <2>4. Current'
    <3> SUFFICES ASSUME NEW u \in Threads, NEW p \in Places, NEW v \in Content,
                        <<p, v>> \in reads'[u]
                 PROVE  /\ tracked[u][p] # Untracked
                        /\ table[p].seq <= tracked[u][p] => table[p].val = v
      BY Zenon, <2>1 DEF Current
    <3>1. CASE <<p, v>> \in reads[u]
      BY Zenon, <3>1 DEF StoreInv, Current
    <3>2. CASE u = t /\ p = q /\ v = table[q].val
      BY Zenon, <3>2, <2>2
    <3> QED
      BY Zenon, <2>1, <2>3, <3>1, <3>2
  <2>5. Calling' /\ Numbers'
    BY Zenon, <2>1, <2>2 DEF StoreInv, Calling, CallSound, Numbers
  <2> QED
    BY Zenon, <2>4, <2>5
<1>5. ASSUME NEW t \in Threads, TxnInit(t) \/ TxnFree(t)
      PROVE  Current' /\ Calling' /\ Numbers'
  <2>1. OlderStays /\ Empties(t) /\ at[t] = "ready" /\ at' = at /\ gets' = gets
        /\ table' = table /\ sequence' = sequence
        /\ (\A u \in Threads \ {t} : txn'[u] = txn[u])
    BY Zenon, <1>5, EngineStays DEF TxnInit, TxnFree, StoreInv, TypeOK
  <2>2. ReadsKept /\ reads'[t] = {} /\ changes'[t] = Nothing
        /\ (\A p \in Places : tracked'[t][p] = Untracked)
        /\ (\A u \in Threads \ {t} : /\ tracked'[u] = tracked[u]
                                     /\ reads'[u] = reads[u]
                                     /\ changes'[u] = changes[u])
    BY Zenon, <2>1, EmptiesKeeps DEF StoreInv
  <2>3. Current'
    BY Zenon, <2>1, <2>2, CurrentKept DEF StoreInv
  <2>4. gets[t] = {} /\ sequence \in Nat
    BY Zenon, <2>1 DEF StoreInv, Calling, CallSound, TypeOK
  <2>5. Calling'
    <3>1. CallSound(t)'
      BY Zenon, <2>1, <2>2, <2>4 DEF CallSound
    <3>2. ASSUME NEW u \in Threads \ {t}
          PROVE  CallSound(u)'
      <4>1. /\ gets'[u] = gets[u] /\ at'[u] = at[u] /\ txn'[u] = txn[u]
            /\ tracked'[u] = tracked[u] /\ reads'[u] = reads[u] /\ changes'[u] = changes[u]
        BY Zenon, <2>1, <2>2
      <4>2. CallSound(u)
        BY Zenon DEF StoreInv, Calling
      <4> QED
        BY Zenon, <4>1, <4>2, CallStays
    <3> QED
      BY Zenon, <3>1, <3>2 DEF Calling
  <2>6. Numbers'
    BY Zenon, <2>1, <2>2, <2>4, UntrackedLow DEF StoreInv, Numbers
  <2> QED
    BY Zenon, <2>3, <2>5, <2>6
<1>6. ASSUME NEW t \in Threads, Commit(t)
      PROVE  Current' /\ Calling' /\ Numbers'
  <2>1. at' = [at EXCEPT ![t] = "ready"] /\ gets' = gets /\ at[t] = "ready" /\ Commits(t)
    BY Zenon, <1>6 DEF Commit, StoreInv, TypeOK
  <2>2. at[t] # "getting"
    BY Zenon, <2>1
  <2> QED
    BY Zenon, <2>1, <2>2, CommitsKeeps
<1>7. ASSUME NEW t \in Threads, CommitLocked(t)
      PROVE  Current' /\ Calling' /\ Numbers'
  <2>1. at' = [at EXCEPT ![t] = "committed"] /\ gets' = gets /\ at[t] = "locked" /\ Commits(t)
    BY Zenon, <1>7 DEF CommitLocked
  <2>2. at[t] # "getting"
    BY Zenon, <2>1
  <2> QED
    BY Zenon, <2>1, <2>2, CommitsKeeps
<1>8. ASSUME NEW t \in Threads, CommitLocks(t) \/ CommitFails(t) \/ CommitReports(t)
      PROVE  Current' /\ Calling' /\ Numbers'
  <2>1. UNCHANGED <<engine, mine, gets>> /\ at'[t] \in {"ready", "locked"} /\ at[t] # "getting"
        /\ (at'[t] = "ready" \/ txn[t])
        /\ (\A u \in Threads \ {t} : at'[u] = at[u])
    BY Zenon, <1>8 DEF CommitLocks, CommitFails, CommitReports, StoreInv, TypeOK
  <2>2. Current' /\ Numbers'
    BY Zenon, <2>1 DEF StoreInv, Current, Numbers
  <2>3. \A u \in Threads : CallSound(u)
    BY Zenon DEF StoreInv, Calling
  <2>4. CallSound(t)'
    BY Zenon, <2>1, <2>3 DEF CallSound
  <2>5. ASSUME NEW u \in Threads \ {t}
        PROVE  CallSound(u)'
    BY Zenon, <2>1, <2>3, CallStays
  <2> QED
    BY Zenon, <2>2, <2>4, <2>5 DEF Calling
<1>9. ASSUME NEW f \in Families, Flushes(f)
      PROVE  Current' /\ Calling' /\ Numbers'
  BY Zenon, <1>9 DEF Flushes, StoreInv, Current, Calling, CallSound, Numbers
<1>10. CASE Crash \/ DatabaseFree
  BY Zenon, <1>10, ReopensKeeps DEF Crash, DatabaseFree
<1>11. CASE UNCHANGED vars
  BY Zenon, <1>11 DEF vars, StoreInv, Current, Calling, CallSound, Numbers
<1> QED
  BY Zenon, <1>1, <1>2, <1>3, <1>4, <1>5, <1>6, <1>7, <1>8, <1>9, <1>10, <1>11 DEF Next

-----------------------------------------------------------------------------
(* Refinement: every step is a step of Store or leaves its variables alone. *)

LEMMA SameNotions ==
    /\ S!Content = Content /\ S!Nothing = Nothing /\ S!Batch = Batch
    /\ \A b, f : S!Over(b, f) = Over(b, f)
BY Zenon DEF S!Content, Content, S!Nothing, Nothing, S!Batch, Batch, S!Over, Over

LEMMA ContentsTyped == TypeOK => Contents \in [Places -> Content]
BY Zenon DEF TypeOK, Contents, Version

\* What a batch does to the values.
LEMMA AppliesContents ==
    ASSUME TypeOK, NEW b \in Batch, NEW flush \in BOOLEAN, Applies(b, flush)
    PROVE  Contents' = Over(b, Contents)
BY Zenon DEF Applies, Contents, Versions, Over, TypeOK

LEMMA CommitsRefines ==
    ASSUME StoreInv, NEW t \in Threads, Commits(t)
    PROVE  S!Next
<1>1. \A r \in reads[t] : Contents[r[1]] = r[2]
  <2> SUFFICES ASSUME NEW r \in reads[t] PROVE Contents[r[1]] = r[2]
    OBVIOUS
  <2>1. PICK p \in Places, v \in Content : r = <<p, v>>
    <3>1. r \in Places \X Content
      BY Zenon DEF StoreInv, TypeOK
    <3> QED
      BY <3>1
  <2>2. /\ tracked[t][p] # Untracked
        /\ table[p].seq <= tracked[t][p] => table[p].val = v
    BY Zenon, <2>1 DEF StoreInv, Current
  <2>3. table[p].val = v
    BY Zenon, <2>2 DEF Commits
  <2> QED
    BY Zenon, <2>1, <2>3 DEF Contents
<1>2. changes[t] \in Batch
  BY Zenon DEF StoreInv, TypeOK, Batch
<1>3. Contents' = Over(changes[t], Contents) /\ durable' = durable
  <2>1. CASE changes[t] = Nothing
    <3>1. Over(Nothing, Contents) = Contents
      BY Zenon, ContentsTyped DEF StoreInv, Over, Nothing
    <3>2. UNCHANGED <<table, sequence, durable>>
      BY Zenon, <2>1 DEF Commits, engine
    <3> QED
      BY Zenon, <2>1, <3>1, <3>2 DEF Contents
  <2>2. CASE changes[t] # Nothing
    <3>1. Applies(changes[t], FALSE)
      BY Zenon, <2>2 DEF Commits
    <3> QED
      BY Zenon, <1>2, <3>1, AppliesContents DEF StoreInv, Applies
  <2> QED
    BY Zenon, <2>1, <2>2
<1>4. S!Commit(t)
  BY Zenon, <1>1, <1>3, SameNotions DEF Commits, Empties, S!Commit
<1> QED
  BY Zenon, <1>4 DEF S!Next

LEMMA StoreStep == StoreInv /\ [Next]_vars => [S!Next]_S!vars
<1> SUFFICES ASSUME StoreInv, [Next]_vars PROVE [S!Next]_S!vars
  OBVIOUS
<1> USE DEF mine, call, engine, Goes
<1>a. Contents \in [Places -> Content] /\ Contents' \in [Places -> Content]
  <2>1. TypeOK'
    BY Zenon, TypeNext DEF StoreInv
  <2>2. Contents' \in [Places -> Content]
    BY Zenon, <2>1 DEF TypeOK, Contents, Version
  <2> QED
    BY Zenon, <2>2, ContentsTyped DEF StoreInv
<1>1. ASSUME NEW t \in Threads, NEW b \in Batches, NEW flush \in BOOLEAN, Write(t, b, flush)
      PROVE  S!Next
  <2>1. b \in Batch /\ Touches(b) \in SUBSET Places
    BY Zenon, BatchesTyped DEF Touches
  <2>2. Contents' = Over(b, Contents)
    BY Zenon, <1>1, <2>1, AppliesContents DEF Write, StoreInv
  <2>3. \A p \in Places \ Touches(b) : Contents'[p] = Contents[p]
    BY Zenon, <2>2 DEF Over, Touches
  <2>4. Over(b, durable) = [p \in Places |-> IF p \in Touches(b) THEN Contents'[p] ELSE durable[p]]
    BY Zenon, <2>2 DEF Over, Touches
  <2>5. S!Write(Touches(b), flush)
    BY Zenon, <1>1, <1>a, <2>3, <2>4, SameNotions DEF Write, Applies, S!Write, S!mine
  <2> QED
    BY Zenon, <2>1, <2>5 DEF S!Next
<1>2. ASSUME NEW t \in Threads, NEW b \in Batches, NEW watch \in BOOLEAN, TxnWrite(t, b, watch)
      PROVE  S!Next
  <2>1. changes' \in [Threads -> Batch]
    BY Zenon, TypeNext DEF StoreInv, TypeOK, Batch
  <2>2. \A u \in Threads \ {t} : changes'[u] = changes[u]
    BY Zenon, <1>2 DEF TxnWrite, StoreInv, TypeOK
  <2>3. Contents' = Contents
    BY Zenon, <1>2 DEF TxnWrite, Contents
  <2>4. S!Change(t)
    BY Zenon, <1>2, <2>1, <2>2, <2>3, SameNotions DEF TxnWrite, S!Change, S!data
  <2> QED
    BY Zenon, <2>4 DEF S!Next
<1>3. ASSUME NEW t \in Threads, NEW p \in Places, TxnGet(t, p)
      PROVE  [S!Next]_S!vars
  <2>1. Contents' = Contents /\ Contents[p] = table[p].val
    BY Zenon, <1>3 DEF TxnGet, Contents
  <2>2. txn[t]
    BY Zenon, <1>3 DEF TxnGet, StoreInv, Calling, CallSound
  <2>3. CASE changes[t][p] = Unchanged
    <3>1. S!Read(t, p)
      BY Zenon, <1>3, <2>1, <2>2, <2>3 DEF TxnGet, S!Read, S!data
    <3> QED
      BY Zenon, <3>1 DEF S!Next
  <2>4. CASE changes[t][p] # Unchanged
    BY Zenon, <1>3, <2>1, <2>4 DEF TxnGet, S!vars
  <2> QED
    BY Zenon, <2>3, <2>4
<1>4. ASSUME NEW t \in Threads, TxnInit(t) \/ TxnFree(t)
      PROVE  S!Next
  <2>1. Contents' = Contents /\ durable' = durable
    BY Zenon, <1>4 DEF TxnInit, TxnFree, Contents
  <2>2. S!Reset(t, TRUE) \/ S!Reset(t, FALSE)
    BY Zenon, <1>4, <2>1, SameNotions DEF TxnInit, TxnFree, Empties, S!Reset, S!data
  <2> QED
    BY Zenon, <2>2 DEF S!Next
<1>5. ASSUME NEW t \in Threads, Commit(t) \/ CommitLocked(t)
      PROVE  S!Next
  BY Zenon, <1>5, CommitsRefines DEF Commit, CommitLocked
<1>6. ASSUME NEW t \in Threads, NEW P \in ReadSets,
             TxnRead(t, P) \/ CommitLocks(t) \/ CommitFails(t) \/ CommitReports(t)
      PROVE  UNCHANGED S!vars
  BY Zenon, <1>6 DEF TxnRead, CommitLocks, CommitFails, CommitReports, S!vars, Contents
<1>7. ASSUME NEW t \in Threads, CommitLocks(t) \/ CommitFails(t) \/ CommitReports(t)
      PROVE  UNCHANGED S!vars
  BY Zenon, <1>7 DEF CommitLocks, CommitFails, CommitReports, S!vars, Contents
<1>8. ASSUME NEW f \in Families, Flushes(f)
      PROVE  S!Next
  <2> DEFINE P == {p \in Places : p[1] = f}
  <2>1. Contents' = Contents
    BY Zenon, <1>8 DEF Flushes, Contents
  <2>2. durable' = [p \in Places |-> IF p \in P THEN Contents[p] ELSE durable[p]]
    BY Zenon, <1>8 DEF Flushes, Contents
  <2>3. S!Persist(P)
    BY Zenon, <1>8, <2>1, <2>2 DEF Flushes, S!Persist, S!mine
  <2> QED
    BY Zenon, <2>3 DEF S!Next
<1>9. CASE Crash
  <2>1. Contents' = durable
    BY Zenon, <1>9 DEF Crash, Reopens, Contents, StoreInv, TypeOK
  <2>2. S!Crash
    BY Zenon, <1>9, <2>1, SameNotions DEF Crash, Reopens, S!Crash
  <2> QED
    BY Zenon, <2>2 DEF S!Next
<1>10. CASE DatabaseFree
  <2>1. Contents' = Contents
    BY Zenon, <1>10, <1>a DEF DatabaseFree, Reopens, Contents
  <2>2. txn' = txn /\ reads' = reads /\ changes' = changes
    <3>1. \A t \in Threads : txn[t] = FALSE /\ reads[t] = {} /\ changes[t] = Nothing
      BY Zenon, <1>10 DEF DatabaseFree, StoreInv, Calling, CallSound, TypeOK
    <3>2. txn = [t \in Threads |-> FALSE]
      BY Zenon, <3>1 DEF StoreInv, TypeOK
    <3>3. reads = [t \in Threads |-> {}]
      BY Zenon, <3>1 DEF StoreInv, TypeOK
    <3>4. changes = [t \in Threads |-> Nothing]
      BY Zenon, <3>1 DEF StoreInv, TypeOK
    <3> QED
      BY Zenon, <1>10, <3>2, <3>3, <3>4 DEF DatabaseFree, Reopens
  <2>3. durable' = [p \in Places |-> IF p \in Places THEN Contents[p] ELSE durable[p]]
    BY Zenon, <1>10, <1>a DEF DatabaseFree, Contents
  <2>4. S!Persist(Places)
    BY Zenon, <2>1, <2>2, <2>3 DEF S!Persist, S!mine
  <2> QED
    BY Zenon, <2>4 DEF S!Next
<1>11. CASE UNCHANGED vars
  BY Zenon, <1>11 DEF vars, S!vars, Contents
<1> QED
  BY Zenon, <1>1, <1>2, <1>3, <1>4, <1>5, <1>6, <1>7, <1>8, <1>9, <1>10, <1>11 DEF Next

\* The engine over RocksDB implements Store: batches and transactions take
\* effect at once, a transaction only while what it read under watch holds, and
\* a crash leaves what was made durable; for any threads, collections and keys.
THEOREM RocksImplementsStore == Spec => ImplementsStore
<1>1. Init => S!Init
  <2> SUFFICES ASSUME Init PROVE S!Init
    OBVIOUS
  <2>1. \A p \in Places : table[p].val = Missing
    BY Zenon DEF Init
  <2>2. Contents = [p \in Places |-> Missing]
    BY Zenon, <2>1 DEF Contents
  <2> QED
    BY Zenon, <2>2, SameNotions DEF Init, S!Init
<1>2. Spec => []StoreInv
  <2>1. Init => StoreInv
    BY StoreInit
  <2>2. StoreInv /\ [Next]_vars => StoreInv'
    BY StoreNext
  <2> QED
    BY <2>1, <2>2, PTL DEF Spec
<1>3. StoreInv /\ [Next]_vars => [S!Next]_S!vars
  BY StoreStep
<1> QED
  BY <1>1, <1>2, <1>3, PTL DEF Spec, ImplementsStore, S!Spec

-----------------------------------------------------------------------------
(* The reported numbers.                                                    *)

\* The mutex is held by the thread whose commit is being numbered.
Holding == \A t \in Threads : at[t] \in {"locked", "committed"} => mutex = t

\* A commit that was reported is older than the one that is being numbered.
ReportsBefore ==
    /\ \A r \in reported : r[1] <= r[2] /\ r[2] <= sequence
    /\ \A t \in Threads : at[t] = "committed" /\ own[t] # 0 =>
          own[t] <= sequence /\ \A r \in reported : r[2] < own[t]

ReportInv == TypeOK /\ Holding /\ ReportsBefore /\ ReportedInOrder

\* Steps that report nothing and number nothing.
LEMMA ReportsStay ==
    ASSUME ReportInv, TypeOK', sequence <= sequence', UNCHANGED reported,
           \A t \in Threads : at'[t] = "committed" => at[t] = "committed" /\ own'[t] = own[t],
           Holding'
    PROVE  ReportsBefore' /\ ReportedInOrder'
<1>1. \A r \in reported : r[1] \in Nat /\ r[2] \in Nat
  BY DEF ReportInv, TypeOK
<1>2. sequence \in Nat /\ sequence' \in Nat /\ \A t \in Threads : own[t] \in Nat
  BY Zenon DEF ReportInv, TypeOK
<1>3. \A n \in Nat : n <= sequence => n <= sequence'
  BY <1>2
<1>4. ReportsBefore'
  BY Zenon, <1>1, <1>2, <1>3 DEF ReportInv, ReportsBefore
<1> QED
  BY Zenon, <1>4 DEF ReportInv, ReportedInOrder

LEMMA CommitsNumber ==
    ASSUME TypeOK, NEW t \in Threads, Commits(t)
    PROVE  sequence <= sequence' /\ (changes[t] # Nothing => sequence' = sequence + 1)
<1>1. sequence' = sequence \/ sequence' = sequence + 1
  BY Zenon DEF Commits, Applies, engine
<1>2. changes[t] # Nothing => sequence' = sequence + 1
  BY Zenon DEF Commits, Applies
<1>3. sequence \in Nat
  BY Zenon DEF TypeOK
<1>4. sequence <= sequence'
  BY <1>1, <1>3
<1> QED
  BY Zenon, <1>2, <1>4

LEMMA ReportNext == ReportInv /\ [Next]_vars => ReportInv'
<1> SUFFICES ASSUME ReportInv, [Next]_vars PROVE Holding' /\ ReportsBefore' /\ ReportedInOrder'
  BY Zenon, TypeNext DEF ReportInv
<1> USE DEF mine, call, engine, Goes
<1>a. TypeOK /\ TypeOK' /\ sequence \in Nat /\ sequence <= sequence
  BY Zenon, TypeNext, UntrackedLow DEF ReportInv, TypeOK
<1>1. ASSUME NEW t \in Threads, NEW b \in Batches, NEW flush \in BOOLEAN, Write(t, b, flush)
      PROVE  Holding' /\ ReportsBefore' /\ ReportedInOrder'
  <2>1. sequence' = sequence + 1 /\ UNCHANGED <<at, own, mutex, reported>>
    BY Zenon, <1>1 DEF Write, Applies
  <2>2. sequence <= sequence'
    BY <1>a, <2>1
  <2>3. Holding'
    BY Zenon, <2>1 DEF ReportInv, Holding
  <2> QED
    BY Zenon, <1>a, <2>1, <2>2, <2>3, ReportsStay
<1>2. ASSUME NEW t \in Threads,
             \/ \E b \in Batches, watch \in BOOLEAN : TxnWrite(t, b, watch)
             \/ \E P \in ReadSets : TxnRead(t, P)
             \/ \E p \in Places : TxnGet(t, p)
             \/ TxnInit(t) \/ TxnFree(t) \/ CommitLocks(t) \/ CommitFails(t)
      PROVE  Holding' /\ ReportsBefore' /\ ReportedInOrder'
  <2>1. UNCHANGED <<sequence, own, reported>> /\ at[t] # "committed"
    BY Zenon, <1>2
       DEF TxnWrite, TxnRead, TxnGet, TxnInit, TxnFree, CommitLocks, CommitFails
  <2>2. at'[t] \in {"ready", "getting", "locked"} /\ \A u \in Threads \ {t} : at'[u] = at[u]
    BY ZenonT(60), <1>2, <1>a
       DEF TxnWrite, TxnRead, TxnGet, TxnInit, TxnFree, CommitLocks, CommitFails, TypeOK
  <2>3. \/ at'[t] = "locked" /\ mutex = None /\ mutex' = t
        \/ at'[t] # "locked" /\ (mutex' = mutex \/ (at[t] = "locked" /\ mutex' = None))
    BY ZenonT(60), <1>2, <1>a
       DEF TxnWrite, TxnRead, TxnGet, TxnInit, TxnFree, CommitLocks, CommitFails, TypeOK
  <2>4. Holding'
    <3> SUFFICES ASSUME NEW u \in Threads, at'[u] \in {"locked", "committed"}
                 PROVE  mutex' = u
      BY Zenon DEF Holding
    <3>1. CASE u = t
      BY Zenon, <3>1, <2>2, <2>3
    <3>2. CASE u # t
      <4>1. mutex = u
        BY Zenon, <3>2, <2>2 DEF ReportInv, Holding
      <4>2. mutex # None /\ at[t] # "locked"
        BY Zenon, <3>2, <4>1, DataAssumption DEF ReportInv, Holding
      <4> QED
        BY Zenon, <4>1, <4>2, <2>3
    <3> QED
      BY Zenon, <3>1, <3>2
  <2>5. \A u \in Threads : at'[u] = "committed" => at[u] = "committed" /\ own'[u] = own[u]
    BY Zenon, <2>1, <2>2
  <2> QED
    BY Zenon, <1>a, <2>1, <2>4, <2>5, ReportsStay
<1>3. ASSUME NEW t \in Threads, Commit(t)
      PROVE  Holding' /\ ReportsBefore' /\ ReportedInOrder'
  <2>1. sequence <= sequence' /\ UNCHANGED <<at, own, mutex, reported>>
    BY Zenon, <1>3, <1>a, CommitsNumber DEF Commit
  <2>2. Holding'
    BY Zenon, <2>1 DEF ReportInv, Holding
  <2> QED
    BY Zenon, <1>a, <2>1, <2>2, ReportsStay
<1>4. ASSUME NEW t \in Threads, CommitLocked(t)
      PROVE  Holding' /\ ReportsBefore' /\ ReportedInOrder'
  <2>1. /\ mutex = t /\ mutex' = mutex /\ UNCHANGED reported
        /\ at'[t] = "committed" /\ \A u \in Threads \ {t} : at'[u] = at[u]
        /\ own'[t] = IF changes[t] = Nothing THEN 0 ELSE sequence'
    BY ZenonT(60), <1>4, <1>a DEF CommitLocked, ReportInv, Holding, TypeOK
  <2>2. Holding'
    BY Zenon, <2>1 DEF ReportInv, Holding
  <2>3. sequence <= sequence' /\ (changes[t] # Nothing => sequence' = sequence + 1)
    BY Zenon, <1>4, <1>a, CommitsNumber DEF CommitLocked
  <2>4. \A u \in Threads : at'[u] = "committed" => u = t
    BY Zenon, <2>1, <2>2 DEF Holding
  <2>5. \A r \in reported : r[1] \in Nat /\ r[2] \in Nat /\ r[1] <= r[2] /\ r[2] <= sequence
    <3>1. \A r \in reported : r[1] \in Nat /\ r[2] \in Nat
      BY <1>a DEF TypeOK
    <3> QED
      BY Zenon, <3>1 DEF ReportInv, ReportsBefore
  <2>6. sequence' \in Nat
    BY Zenon, <1>a DEF TypeOK
  <2>7. \A n \in Nat : n <= sequence => n <= sequence' /\ (sequence' = sequence + 1 => n < sequence')
    BY <1>a, <2>3, <2>6
  <2>8. own'[t] # 0 => own'[t] = sequence' /\ sequence' = sequence + 1
    BY Zenon, <2>1, <2>3
  <2>9. sequence' <= sequence'
    BY <2>6
  <2>10. ReportsBefore'
    BY Zenon, <2>1, <2>4, <2>5, <2>7, <2>8, <2>9 DEF ReportsBefore
  <2> QED
    BY Zenon, <2>1, <2>2, <2>10 DEF ReportInv, ReportedInOrder
<1>5. ASSUME NEW t \in Threads, CommitReports(t)
      PROVE  Holding' /\ ReportsBefore' /\ ReportedInOrder'
  <2> DEFINE new == <<own[t], sequence>>
  <2>1. /\ mutex = t /\ sequence' = sequence /\ at[t] = "committed"
        /\ at'[t] = "ready" /\ \A u \in Threads \ {t} : at'[u] = at[u]
        /\ reported' = IF own[t] = 0 THEN reported ELSE reported \cup {new}
    BY Zenon, <1>5, <1>a DEF CommitReports, ReportInv, Holding, TypeOK
  <2>2. \A u \in Threads : at'[u] \notin {"locked", "committed"}
    BY Zenon, <2>1 DEF ReportInv, Holding
  <2>3. Holding'
    BY Zenon, <2>2 DEF Holding
  <2>4. \A r \in reported : r[1] \in Nat /\ r[2] \in Nat
    BY <1>a DEF TypeOK
  <2>5. new[1] = own[t] /\ new[2] = sequence /\ own[t] \in Nat
    BY Zenon, <1>a DEF TypeOK
  <2>6. own[t] # 0 => own[t] <= sequence /\ \A r \in reported : r[2] < own[t]
    BY Zenon, <2>1 DEF ReportInv, ReportsBefore
  <2>7. \A r \in reported' : r[1] <= r[2] /\ r[2] <= sequence
    <3>1. \A r \in reported : r[1] <= r[2] /\ r[2] <= sequence
      BY Zenon DEF ReportInv, ReportsBefore
    <3>2. own[t] # 0 => new[1] <= new[2] /\ new[2] <= sequence
      BY Zenon, <1>a, <2>5, <2>6
    <3> HIDE DEF new
    <3> QED
      BY Zenon, <2>1, <3>1, <3>2
  <2>8. ReportsBefore'
    BY Zenon, <2>1, <2>2, <2>7 DEF ReportsBefore
  <2>9. ReportedInOrder'
    <3>1. \A a, b \in reported : a[1] < b[1] => a[2] < b[1] /\ a[2] < b[2]
      BY Zenon DEF ReportInv, ReportedInOrder
    <3>2. ASSUME own[t] # 0, NEW a \in reported
          PROVE  /\ a[2] < new[1] /\ a[2] < new[2]
                 /\ ~(new[1] < a[1])
      <4>1. a[1] \in Nat /\ a[2] \in Nat /\ a[1] <= a[2] /\ a[2] < own[t] /\ own[t] <= sequence
        BY Zenon, <3>2, <2>4, <2>6 DEF ReportInv, ReportsBefore
      <4> QED
        BY <1>a, <2>5, <4>1
    <3>3. ~(new[1] < new[1])
      BY <2>5
    <3> HIDE DEF new
    <3> QED
      BY Zenon, <2>1, <3>1, <3>2, <3>3 DEF ReportedInOrder
  <2> QED
    BY Zenon, <2>3, <2>8, <2>9
<1>6. ASSUME NEW f \in Families, Flushes(f)
      PROVE  Holding' /\ ReportsBefore' /\ ReportedInOrder'
  BY Zenon, <1>6 DEF Flushes, ReportInv, Holding, ReportsBefore, ReportedInOrder
<1>7. CASE Crash \/ DatabaseFree
  BY Zenon, <1>7 DEF Crash, DatabaseFree, Reopens, Holding, ReportsBefore, ReportedInOrder
<1>8. CASE UNCHANGED vars
  BY Zenon, <1>8 DEF vars, ReportInv, Holding, ReportsBefore, ReportedInOrder
<1> QED
  BY Zenon, <1>1, <1>2, <1>3, <1>4, <1>5, <1>6, <1>7, <1>8 DEF Next

\* The sequence numbers that ukv_transaction_commit reports order the commits
\* as they happened: the mutex covers the commit and the reading of the number.
THEOREM RocksReportsInOrder == Spec => []ReportedInOrder
<1>1. Init => ReportInv
  BY Zenon, TypeInit DEF Init, ReportInv, Holding, ReportsBefore, ReportedInOrder
<1>2. ReportInv /\ [Next]_vars => ReportInv'
  BY ReportNext
<1>3. ReportInv => ReportedInOrder
  BY Zenon DEF ReportInv
<1> QED
  BY <1>1, <1>2, <1>3, PTL DEF Spec

-----------------------------------------------------------------------------
(* The handles of both engines.                                             *)

\* One step of one thread, of either engine.
Step(t) ==
    \/ \E P \in SUBSET Cells, v \in CellContent : HandlesWrite(t, P, v)
    \/ \E s \in Snapshots : SnapshotCreate(t, s)
    \/ \E s \in Snapshots : SnapshotDrops(t, s)
    \/ SnapshotRelease(t)
    \/ SnapshotReleasesTwice(t)
    \/ SnapshotErase(t)
    \/ \E s \in Snapshots : ReadStarts(t, s)
    \/ ReadGets(t)
    \/ ReadEnds(t)
    \/ \E n \in Names : CreateChecks(t, n)
    \/ \E f \in Families : Creates(t, f)
    \/ CreateFails(t)
    \/ \E f \in Families : DropHandle(t, f)
    \/ \E f \in Families, v \in {Missing, EmptyValue} : ClearCollects(t, f, v)
    \/ ClearApplies(t)
    \/ \E p \in MainPlaces : LevelReadGets(t, p)
    \/ LevelReadEnds(t)
    \/ \E v \in {Missing, EmptyValue} : LevelClearCollects(t, v)

LEMMA StepsOfThreads ==
    ASSUME EnginesNext
    PROVE  \E t \in Threads : Step(t)
<1>1. CASE HandlesNext
  BY Zenon, <1>1 DEF HandlesNext, Step
<1>2. CASE LevelNext
  <2>1. PICK t \in Threads :
        \/ \E P \in SUBSET MainPlaces, v \in CellContent : LevelWrite(t, P, v)
        \/ \E s \in Snapshots :
              \/ LevelSnapshotCreate(t, s)
              \/ LevelSnapshotDrops(t, s)
              \/ LevelReadStarts(t, s)
        \/ LevelSnapshotRelease(t) \/ LevelSnapshotErase(t)
        \/ \E p \in MainPlaces : LevelReadGets(t, p)
        \/ LevelReadEnds(t)
        \/ \E v \in {Missing, EmptyValue} : LevelClearCollects(t, v)
        \/ LevelClearApplies(t)
    BY Zenon, <1>2 DEF LevelNext
  <2>2. SUBSET MainPlaces \subseteq SUBSET Cells
    BY Zenon DEF MainPlaces
  <2>3. Step(t)
    BY Zenon, <2>1, <2>2 DEF Step, LevelWrite, LevelSnapshotCreate, LevelSnapshotDrops, LevelSnapshotRelease,
       LevelReadStarts, LevelSnapshotErase, LevelClearApplies
  <2> QED BY <2>3
<1> QED BY Zenon, <1>1, <1>2 DEF EnginesNext

-----------------------------------------------------------------------------
(* Types.                                                                   *)

\* What a thread is about, by where it is.
Targets ==
    \A t \in Threads :
        /\ doing[t] \in {"reading", "read", "dropping", "released"} => target[t] \in Snapshots
        /\ doing[t] = "checked" => target[t] \in Names

Typed == HandlesTypeOK /\ Targets /\ columns \in Seq(Families \ {Main})

Ready == [t \in Threads |-> "ready"]

LEMMA TypedInit == ASSUME HandlesInit PROVE Typed
<1>1. HandlesTypeOK
  <2>1. /\ contents \in [Cells -> CellContent] /\ named \in [Families -> Names \cup {None}]
        /\ snapshots \subseteq Snapshots
    BY Zenon DEF HandlesInit, CellContent
  <2>2. /\ view \in [Snapshots -> [Cells -> CellContent] \cup {Released}]
        /\ taken \in [Snapshots -> [Cells -> CellContent] \cup {Released}]
    BY Zenon DEF HandlesInit
  <2>3. doing \in [Threads -> Steps]
    BY Zenon DEF HandlesInit, Steps
  <2>4. target \in [Threads -> Families \cup Names \cup Snapshots \cup {None}]
    BY Zenon DEF HandlesInit
  <2>5. /\ collected \in [Threads -> SUBSET Cells] /\ since \in [Threads -> SUBSET Cells]
        /\ left \in [Threads -> {Missing, EmptyValue}]
        /\ got \in [Threads -> [Cells -> CellContent \cup {None}]]
    BY Zenon DEF HandlesInit, Nowhere
  <2>6. \A i \in DOMAIN columns : columns[i] \in Families \ {Main}
    BY DEF HandlesInit
  <2> QED BY Zenon, <2>1, <2>2, <2>3, <2>4, <2>5, <2>6 DEF HandlesTypeOK
<1>2. Targets
  BY DEF HandlesInit, Targets
<1>3. columns \in Seq(Families \ {Main})
  BY DEF HandlesInit
<1> QED BY <1>1, <1>2, <1>3 DEF Typed

\* What a concatenation holds.
LEMMA Concatenated ==
    ASSUME NEW T, NEW r \in Seq(T), NEW s \in Seq(T)
    PROVE  /\ r \o s \in Seq(T) /\ Len(r \o s) = Len(r) + Len(s)
           /\ \A j \in 1..Len(r) + Len(s) :
                 (r \o s)[j] = IF j <= Len(r) THEN r[j] ELSE s[j - Len(r)]
<1>1. r \o s \in Seq(T)
  OBVIOUS
<1>2. Len(r \o s) = Len(r) + Len(s)
  OBVIOUS
<1>3. ASSUME NEW j \in 1..Len(r) + Len(s)
      PROVE  (r \o s)[j] = IF j <= Len(r) THEN r[j] ELSE s[j - Len(r)]
  OBVIOUS
<1> QED BY Zenon, <1>1, <1>2, <1>3

\* Erasing a column.
LEMMA ErasedColumns ==
    ASSUME NEW T, columns \in Seq(T), NEW i \in 1..Len(columns)
    PROVE  /\ Erased(i) \in Seq(T)
           /\ Len(Erased(i)) = Len(columns) - 1
           /\ \A j \in 1..Len(columns) - 1 :
                 Erased(i)[j] = IF j < i THEN columns[j] ELSE columns[j + 1]
<1> DEFINE front == SubSeq(columns, 1, i - 1)
           back == SubSeq(columns, i + 1, Len(columns))
<1>1. front \in Seq(T) /\ Len(front) = i - 1 /\ \A j \in 1..i - 1 : front[j] = columns[j]
  OBVIOUS
<1>2. /\ back \in Seq(T) /\ Len(back) = Len(columns) - i
      /\ \A j \in 1..Len(columns) - i : back[j] = columns[i + j]
  OBVIOUS
<1>3. Erased(i) = front \o back
  BY DEF Erased
<1>4. /\ front \o back \in Seq(T) /\ Len(front \o back) = Len(front) + Len(back)
      /\ \A j \in 1..Len(front) + Len(back) : (front \o back)[j] =
            IF j <= Len(front) THEN front[j] ELSE back[j - Len(front)]
  <2> HIDE DEF front, back
  <2> QED BY Zenon, <1>1, <1>2, Concatenated
<1> HIDE DEF front, back
<1>5. Len(columns) \in Nat
  OBVIOUS
<1>6. ASSUME NEW j \in 1..Len(columns) - 1
      PROVE  (front \o back)[j] = IF j < i THEN columns[j] ELSE columns[j + 1]
  <2>1. CASE j < i
    BY <1>1, <1>2, <1>4, <1>5, <2>1
  <2>2. CASE ~(j < i)
    <3>1. (front \o back)[j] = back[j - Len(front)]
      BY SMTT(30), <1>1, <1>2, <1>4, <1>5, <2>2
    <3>2. j - (i - 1) \in 1..Len(columns) - i /\ i + (j - (i - 1)) = j + 1
      BY <1>5, <2>2
    <3> QED BY <1>1, <1>2, <2>2, <3>1, <3>2
  <2> QED BY <2>1, <2>2
<1>7. Len(front \o back) = Len(columns) - 1
  BY <1>1, <1>2, <1>4, <1>5
<1> QED BY Zenon, <1>3, <1>4, <1>6, <1>7

\* Goes changes one thread alone.
LEMMA GoesOne ==
    ASSUME HandlesTypeOK, NEW t \in Threads, NEW step, NEW x, Turns(t, step, x)
    PROVE  /\ doing'[t] = step /\ target'[t] = x
           /\ \A u \in Threads \ {t} : doing'[u] = doing[u] /\ target'[u] = target[u]
BY Zenon DEF Turns, HandlesTypeOK

\* A thread that moves on with what it is about.
LEMMA SameTarget ==
    ASSUME HandlesTypeOK, NEW t \in Threads, NEW step, target' = target,
           doing' = [doing EXCEPT ![t] = step]
    PROVE  Turns(t, step, target[t])
BY Zenon DEF Turns, HandlesTypeOK

\* Steps of which the thread comes back with its target forgotten.
LEMMA GoesTyped ==
    ASSUME Typed, NEW t \in Threads,
           NEW step \in Steps,
           NEW x \in Families \cup Names \cup Snapshots \cup {None},
           Turns(t, step, x),
           step \in {"reading", "read", "dropping", "released"} => x \in Snapshots,
           step = "checked" => x \in Names
    PROVE  /\ doing' \in [Threads -> Steps]
           /\ target' \in [Threads -> Families \cup Names \cup Snapshots \cup {None}]
           /\ Targets'
<1>1. doing' \in [Threads -> Steps]
  BY Zenon DEF Turns, HandlesTypeOK, Typed
<1>2. target' \in [Threads -> Families \cup Names \cup Snapshots \cup {None}]
  BY Zenon DEF Turns, HandlesTypeOK, Typed
<1>3. ASSUME NEW u \in Threads
      PROVE  /\ doing'[u] \in {"reading", "read", "dropping", "released"} => target'[u] \in Snapshots
             /\ doing'[u] = "checked" => target'[u] \in Names
  <2>1. CASE u = t
    BY Zenon, <2>1, GoesOne DEF Typed
  <2>2. CASE u # t
    BY Zenon, <2>2, GoesOne DEF Typed, Targets
  <2> QED BY <2>1, <2>2
<1> QED BY Zenon, <1>1, <1>2, <1>3 DEF Targets

LEMMA TypedStep ==
    ASSUME Typed, NEW t \in Threads, Step(t), ConstantsApart
    PROVE  Typed'
<1> USE DEF Typed
<1>0. /\ {"ready", "reading", "read", "dropping", "released", "checked", "clearing", "undefined"}
             \subseteq Steps
      /\ "ready" # "checked" /\ "ready" \notin {"reading", "read", "dropping", "released"}
      /\ "clearing" # "checked" /\ "clearing" \notin {"reading", "read", "dropping", "released"}
      /\ "undefined" # "checked" /\ "undefined" \notin {"reading", "read", "dropping", "released"}
      /\ "dropping" # "checked" /\ "released" # "checked" /\ "reading" # "checked"
      /\ "checked" \notin {"reading", "read", "dropping", "released"}
  BY DEF Steps
<1>1. ASSUME NEW P \in SUBSET Cells, NEW v \in CellContent, HandlesWrite(t, P, v) PROVE Typed'
  <2>1. contents' \in [Cells -> CellContent] /\ since' \in [Threads -> SUBSET Cells]
    BY Zenon, <1>1 DEF HandlesWrite, Writes, HandlesTypeOK
  <2>2. Targets'
    BY Zenon, <1>1 DEF HandlesWrite, Targets, calls
  <2> QED BY Zenon, <1>1, <2>1, <2>2 DEF HandlesWrite, HandlesTypeOK, calls
<1>2. ASSUME NEW s \in Snapshots, SnapshotCreate(t, s) PROVE Typed'
  <2>1. /\ view' \in [Snapshots -> [Cells -> CellContent] \cup {Released}]
        /\ taken' \in [Snapshots -> [Cells -> CellContent] \cup {Released}]
        /\ snapshots' \subseteq Snapshots
    BY Zenon, <1>2 DEF SnapshotCreate, HandlesTypeOK
  <2>2. Targets'
    BY Zenon, <1>2 DEF SnapshotCreate, Targets, calls
  <2> QED BY Zenon, <1>2, <2>1, <2>2 DEF SnapshotCreate, HandlesTypeOK, calls
<1>3. ASSUME SnapshotRelease(t) PROVE Typed'
  <2>1. Forgotten \in [Cells -> CellContent]
    BY Zenon DEF Forgotten, CellContent
  <2>2. /\ view' \in [Snapshots -> [Cells -> CellContent] \cup {Released}]
        /\ taken' \in [Snapshots -> [Cells -> CellContent] \cup {Released}]
    BY Zenon, <1>3, <2>1 DEF SnapshotRelease, HandlesTypeOK
  <2>3. target[t] \in Snapshots /\ Turns(t, "released", target[t])
    BY Zenon, <1>3, SameTarget DEF SnapshotRelease, Targets
  <2> QED BY Zenon, <1>0, <1>3, <2>2, <2>3, GoesTyped DEF SnapshotRelease, HandlesTypeOK
<1>15. ASSUME NEW s \in Snapshots, SnapshotDrops(t, s) PROVE Typed'
  <2>1. Turns(t, "dropping", s)
    BY Zenon, <1>15 DEF SnapshotDrops
  <2> QED BY Zenon, <1>0, <1>15, <2>1, GoesTyped DEF SnapshotDrops, HandlesTypeOK
<1>16. ASSUME SnapshotReleasesTwice(t) PROVE Typed'
  <2>1. target[t] \in Snapshots /\ Turns(t, "undefined", target[t])
    BY Zenon, <1>16, SameTarget DEF SnapshotReleasesTwice, Targets
  <2> QED BY Zenon, <1>0, <1>16, <2>1, GoesTyped DEF SnapshotReleasesTwice, HandlesTypeOK
<1>4. ASSUME SnapshotErase(t) PROVE Typed'
  <2>1. Turns(t, "ready", None)
    BY Zenon, <1>4 DEF SnapshotErase
  <2> QED BY Zenon, <1>4, <2>1, <1>0, GoesTyped DEF SnapshotErase, HandlesTypeOK
<1>5. ASSUME NEW s \in Snapshots, ReadStarts(t, s) PROVE Typed'
  <2>1. Turns(t, "reading", s)
    BY Zenon, <1>5 DEF ReadStarts
  <2> QED BY Zenon, <1>5, <2>1, <1>0, GoesTyped DEF ReadStarts, HandlesTypeOK
<1>6. ASSUME ReadGets(t) PROVE Typed'
  <2>1. target[t] \in Snapshots
    BY Zenon, <1>6 DEF ReadGets, Targets
  <2>2. Seen(target[t]) \in [Cells -> CellContent]
    BY Zenon, <2>1 DEF Seen, HandlesTypeOK
  <2>3. [p \in Cells |-> IF Exists(p[1]) THEN Seen(target[t])[p] ELSE None]
           \in [Cells -> CellContent \cup {None}]
    BY Zenon, <2>2
  <2>4. got' \in [Threads -> [Cells -> CellContent \cup {None}]]
    BY Zenon, <1>6, <2>3 DEF ReadGets, HandlesTypeOK
  <2>5. doing' \in [Threads -> Steps]
    BY Zenon, <1>0, <1>6 DEF ReadGets, HandlesTypeOK
  <2>6. ASSUME NEW u \in Threads
        PROVE  /\ doing'[u] \in {"reading", "read", "dropping", "released"} => target'[u] \in Snapshots
               /\ doing'[u] = "checked" => target'[u] \in Names
    <3>1. CASE u = t
      BY Zenon, <1>6, <2>1, <3>1 DEF ReadGets, HandlesTypeOK
    <3>2. CASE u # t
      BY Zenon, <1>6, <3>2 DEF ReadGets, HandlesTypeOK, Targets
    <3> QED BY <3>1, <3>2
  <2>7. Targets'
    BY Zenon, <2>6 DEF Targets
  <2> QED BY Zenon, <1>6, <2>4, <2>5, <2>7 DEF ReadGets, HandlesTypeOK
<1>7. ASSUME ReadEnds(t) \/ LevelReadEnds(t) PROVE Typed'
  <2>1. Turns(t, "ready", None)
    BY Zenon, <1>7 DEF ReadEnds, LevelReadEnds
  <2>2. Nowhere \in [Cells -> CellContent \cup {None}]
    BY Zenon DEF Nowhere
  <2>3. got' \in [Threads -> [Cells -> CellContent \cup {None}]]
    BY Zenon, <1>7, <2>2 DEF ReadEnds, LevelReadEnds, HandlesTypeOK
  <2> QED BY Zenon, <1>7, <2>1, <2>3, <1>0, GoesTyped DEF ReadEnds, LevelReadEnds, HandlesTypeOK
<1>8. ASSUME NEW n \in Names, CreateChecks(t, n) PROVE Typed'
  <2>1. Turns(t, "checked", n)
    BY Zenon, <1>8 DEF CreateChecks
  <2> QED BY Zenon, <1>8, <2>1, <1>0, GoesTyped DEF CreateChecks, HandlesTypeOK
<1>9. ASSUME NEW f \in Families, Creates(t, f) PROVE Typed'
  <2>1. Turns(t, "ready", None) /\ f # Main
    BY Zenon, <1>9 DEF Creates, Exists
  <2>2. named' \in [Families -> Names \cup {None}]
    BY Zenon, <1>9 DEF Creates, Targets, HandlesTypeOK
  <2>3. contents' \in [Cells -> CellContent]
    BY Zenon, <1>9 DEF Creates, HandlesTypeOK, CellContent
  <2>4. columns' \in Seq(Families \ {Main})
    BY <1>9, <2>1 DEF Creates
  <2>5. \A i \in DOMAIN columns' : columns'[i] \in Families \ {Main}
    BY <2>4
  <2> QED BY Zenon, <1>9, <2>1, <2>2, <2>3, <2>4, <2>5, <1>0, GoesTyped DEF Creates, HandlesTypeOK
<1>10. ASSUME CreateFails(t) PROVE Typed'
  <2>1. Turns(t, "ready", None)
    BY Zenon, <1>10 DEF CreateFails
  <2> QED BY Zenon, <1>10, <2>1, <1>0, GoesTyped DEF CreateFails, HandlesTypeOK
<1>11. ASSUME NEW f \in Families, DropHandle(t, f) PROVE Typed'
  <2>1. PICK i \in 1..Len(columns) :
          /\ named' = [named EXCEPT ![columns[i]] = None]
          /\ columns' = Erased(i)
    BY Zenon, <1>11 DEF DropHandle
  <2>2. named' \in [Families -> Names \cup {None}]
    BY Zenon, <2>1 DEF HandlesTypeOK
  <2>3. columns' \in Seq(Families \ {Main})
    BY Zenon, <2>1, ErasedColumns
  <2>4. \A j \in DOMAIN columns' : columns'[j] \in Families \ {Main}
    BY <2>3
  <2>5. Targets'
    BY Zenon, <1>11 DEF DropHandle, Targets, calls
  <2> QED BY Zenon, <1>11, <2>2, <2>3, <2>4, <2>5 DEF DropHandle, HandlesTypeOK, calls
<1>12. ASSUME NEW f \in Families, NEW v \in {Missing, EmptyValue},
              ClearCollects(t, f, v) \/ (LevelClearCollects(t, v) /\ f = Main) PROVE Typed'
  <2>1. PICK g \in Families \cup {None} : Turns(t, "clearing", g)
    BY Zenon, <1>12 DEF ClearCollects, LevelClearCollects
  <2>2. /\ {p \in Cells : p[1] = ToClear(f) /\ contents[p] # Missing} \in SUBSET Cells
        /\ {p \in MainPlaces : contents[p] # Missing} \in SUBSET Cells
    BY Zenon DEF MainPlaces
  <2>3. PICK c \in SUBSET Cells : collected' = [collected EXCEPT ![t] = c]
    BY Zenon, <1>12, <2>2 DEF ClearCollects, LevelClearCollects
  <2>4. left' = [left EXCEPT ![t] = v]
    BY Zenon, <1>12 DEF ClearCollects, LevelClearCollects
  <2>5. collected' \in [Threads -> SUBSET Cells] /\ left' \in [Threads -> {Missing, EmptyValue}]
    BY Zenon, <2>3, <2>4 DEF HandlesTypeOK
  <2> QED BY Zenon, <1>12, <2>1, <2>5, <1>0, GoesTyped DEF ClearCollects, LevelClearCollects, HandlesTypeOK
<1>13. ASSUME ClearApplies(t) PROVE Typed'
  <2>1. Turns(t, "ready", None)
    BY Zenon, <1>13 DEF ClearApplies
  <2>2. contents' \in [Cells -> CellContent]
    BY Zenon, <1>13 DEF ClearApplies, HandlesTypeOK, CellContent
  <2>3. since' \in [Threads -> SUBSET Cells]
    BY Zenon, <1>13 DEF ClearApplies, HandlesTypeOK
  <2>4. collected' \in [Threads -> SUBSET Cells] /\ left' \in [Threads -> {Missing, EmptyValue}]
    BY Zenon, <1>13 DEF ClearApplies, HandlesTypeOK
  <2> QED BY Zenon, <1>13, <2>1, <2>2, <2>3, <2>4, <1>0, GoesTyped DEF ClearApplies, HandlesTypeOK
<1>14. ASSUME NEW p \in MainPlaces, LevelReadGets(t, p) PROVE Typed'
  <2>1. target[t] \in Snapshots /\ p \in Cells
    BY Zenon, <1>14 DEF LevelReadGets, Targets, MainPlaces
  <2>2. Seen(target[t]) \in [Cells -> CellContent]
    BY Zenon, <2>1 DEF Seen, HandlesTypeOK
  <2>3. Enumerated(t, p) \in CellContent \cup {None}
    BY Zenon, <2>1, <2>2 DEF Enumerated
  <2>4. got' \in [Threads -> [Cells -> CellContent \cup {None}]]
    BY Zenon, <1>14, <2>1, <2>3 DEF LevelReadGets, HandlesTypeOK
  <2>5. Targets'
    BY Zenon, <1>14 DEF LevelReadGets, Targets
  <2> QED BY Zenon, <1>14, <2>4, <2>5 DEF LevelReadGets, HandlesTypeOK
<1> QED BY Zenon, <1>1, <1>2, <1>3, <1>4, <1>5, <1>6, <1>7, <1>8, <1>9, <1>10, <1>11, <1>12, <1>13,
           <1>14, <1>15, <1>16 DEF Step, ConstantsApart

-----------------------------------------------------------------------------
(* Snapshots.                                                               *)

\* A snapshot of the library shows what was there when it was taken; before
\* that it is not listed.
ViewsAsTaken ==
    \A s \in Snapshots :
        /\ view[s] # Released => view[s] = taken[s]
        /\ taken[s] = Released => view[s] = Released /\ s \notin snapshots

\* Nobody reads through or drops a snapshot that was never taken.
TakenBefore ==
    \A t \in Threads : doing[t] \in {"reading", "read", "released"} => taken[target[t]] # Released

\* A snapshot is dropped by one thread, which has released it.
ReleasedOnce ==
    \A t \in Threads : doing[t] = "released" =>
        /\ view[target[t]] = Released
        /\ \A u \in Threads : doing[u] = "released" /\ target[u] = target[t] => u = t

\* Who does not read has got nothing.
GotNothing == \A t \in Threads : doing[t] \notin {"reading", "read"} => got[t] = Nowhere

SnapInv ==
    /\ ViewsAsTaken /\ TakenBefore /\ ReleasedOnce /\ GotNothing
    /\ SnapshotsMatch /\ SnapshotReadsFrozen

LEMMA NeverReleased ==
    ASSUME ConstantsApart
    PROVE  /\ \A c \in [Cells -> CellContent] : c # Released
           /\ Forgotten # Released
<1>1. PICK p \in Cells : TRUE
  BY Zenon DEF ConstantsApart
<1>2. Released[p] = None
  BY Zenon DEF Released
<1>3. Forgotten \in [Cells -> CellContent]
  BY Zenon DEF Forgotten, CellContent
<1>4. ASSUME NEW c \in [Cells -> CellContent] PROVE c # Released
  BY Zenon, <1>1, <1>2 DEF ConstantsApart
<1> QED BY Zenon, <1>3, <1>4

LEMMA SnapInit == ASSUME HandlesInit, ConstantsApart PROVE SnapInv
<1>1. \A s \in Snapshots : view[s] = Released /\ taken[s] = Released /\ s \notin snapshots
  BY Zenon DEF HandlesInit
<1>2. \A t \in Threads : doing[t] = "ready" /\ got[t] = Nowhere
  BY Zenon DEF HandlesInit
<1>3. "ready" \notin {"reading", "read", "released"}
  OBVIOUS
<1> QED BY Zenon, <1>1, <1>2, <1>3 DEF SnapInv, ViewsAsTaken, TakenBefore, ReleasedOnce, GotNothing,
           SnapshotsMatch, SnapshotList, SnapshotReadsFrozen

\* Nothing is taken, released or erased.
LEMMA MatchKept ==
    ASSUME SnapshotsMatch, view' = view, snapshots' = snapshots,
           \A s \in Snapshots :
              (\E u \in Threads : doing'[u] = "released" /\ target'[u] = s)
                 <=> (\E u \in Threads : doing[u] = "released" /\ target[u] = s)
    PROVE  SnapshotsMatch'
<1>1. ASSUME NEW s \in Snapshots
      PROVE  s \in snapshots' <=> \/ view'[s] # Released
                                  \/ \E u \in Threads : doing'[u] = "released" /\ target'[u] = s
  <2>1. s \in snapshots <=> \/ view[s] # Released
                            \/ \E u \in Threads : doing[u] = "released" /\ target[u] = s
    BY Zenon DEF SnapshotsMatch, SnapshotList
  <2> QED BY Zenon, <2>1
<1> QED BY Zenon, <1>1 DEF SnapshotsMatch, SnapshotList

\* Whoever drops a snapshot has dropped it before.
LEMMA OnceKept ==
    ASSUME ReleasedOnce, view' = view,
           \A u \in Threads : doing'[u] = "released" => doing[u] = "released" /\ target'[u] = target[u]
    PROVE  ReleasedOnce'
<1>1. ASSUME NEW u \in Threads, doing'[u] = "released"
      PROVE  /\ view'[target'[u]] = Released
             /\ \A w \in Threads : doing'[w] = "released" /\ target'[w] = target'[u] => w = u
  <2>1. doing[u] = "released" /\ target'[u] = target[u] /\ view[target[u]] = Released
    BY Zenon, <1>1 DEF ReleasedOnce
  <2>2. ASSUME NEW w \in Threads, doing'[w] = "released", target'[w] = target'[u] PROVE w = u
    <3>1. doing[w] = "released" /\ target[w] = target[u]
      BY Zenon, <2>1, <2>2
    <3> QED BY Zenon, <2>1, <3>1 DEF ReleasedOnce
  <2> QED BY Zenon, <2>1, <2>2
<1> QED BY Zenon, <1>1 DEF ReleasedOnce

\* Steps that have nothing to do with snapshots.
LEMMA SnapQuiet ==
    ASSUME SnapInv, UNCHANGED <<view, taken, snapshots, got>>,
           \A u \in Threads :
              \/ doing'[u] = doing[u] /\ target'[u] = target[u]
              \/ /\ doing[u] \notin {"reading", "read", "released"}
                 /\ doing'[u] \notin {"reading", "read", "released"}
    PROVE  SnapInv'
<1> DEFINE Busy == {"reading", "read", "released"}
<1>1. /\ view' = view /\ taken' = taken /\ snapshots' = snapshots /\ got' = got
  BY Zenon
<1>2. \A u \in Threads : doing'[u] \in Busy => doing'[u] = doing[u] /\ target'[u] = target[u]
  BY Zenon
<1>3. \A u \in Threads : doing[u] \in Busy => doing'[u] = doing[u] /\ target'[u] = target[u]
  BY Zenon
<1>4. "reading" \in Busy /\ "read" \in Busy /\ "released" \in Busy
  OBVIOUS
<1> HIDE DEF Busy
<1>5. ViewsAsTaken'
  BY Zenon, <1>1 DEF SnapInv, ViewsAsTaken
<1>6. TakenBefore'
  <2>1. \A u \in Threads : doing[u] \in Busy => taken[target[u]] # Released
    BY Zenon DEF SnapInv, TakenBefore, Busy
  <2>2. \A u \in Threads : doing'[u] \in Busy => taken'[target'[u]] # Released
    BY Zenon, <1>1, <1>2, <2>1
  <2>3. Released' = Released
    BY Zenon DEF Released
  <2> QED BY Zenon, <2>2, <2>3 DEF TakenBefore, Busy
<1>7. ReleasedOnce'
  BY ZenonT(60), <1>1, <1>2, <1>4 DEF SnapInv, ReleasedOnce
<1>8. GotNothing'
  BY Zenon, <1>1, <1>2, <1>3, <1>4 DEF SnapInv, GotNothing
<1>9. SnapshotsMatch'
  <2>1. ASSUME NEW s \in Snapshots
        PROVE  (\E u \in Threads : doing'[u] = "released" /\ target'[u] = s)
                  <=> (\E u \in Threads : doing[u] = "released" /\ target[u] = s)
    BY Zenon, <1>2, <1>3, <1>4
  <2> QED BY Zenon, <1>1, <2>1, MatchKept DEF SnapInv
<1>10. SnapshotReadsFrozen'
  BY Zenon, <1>1, <1>2, <1>4 DEF SnapInv, SnapshotReadsFrozen
<1> QED BY Zenon, <1>5, <1>6, <1>7, <1>8, <1>9, <1>10 DEF SnapInv

LEMMA SnapCreate ==
    ASSUME Typed, SnapInv, ConstantsApart, NEW t \in Threads, NEW s \in Snapshots,
           SnapshotCreate(t, s)
    PROVE  SnapInv'
<1>1. /\ view'[s] = contents /\ taken'[s] = contents /\ snapshots' = snapshots \cup {s}
      /\ \A r \in Snapshots \ {s} : view'[r] = view[r] /\ taken'[r] = taken[r]
  BY Zenon DEF SnapshotCreate, Typed, HandlesTypeOK
<1>2. doing' = doing /\ target' = target /\ got' = got /\ taken[s] = Released
  BY Zenon DEF SnapshotCreate, calls
<1>3. contents # Released
  BY Zenon, NeverReleased DEF Typed, HandlesTypeOK
<1>4. \A u \in Threads : doing[u] \in {"reading", "read", "released"} =>
        target[u] \in Snapshots \ {s}
  BY Zenon, <1>2 DEF Typed, Targets, SnapInv, TakenBefore
<1>5. ViewsAsTaken'
  BY Zenon, <1>1, <1>3 DEF SnapInv, ViewsAsTaken
<1>6. TakenBefore'
  BY Zenon, <1>1, <1>2, <1>4 DEF SnapInv, TakenBefore
<1>7. ReleasedOnce'
  BY Zenon, <1>1, <1>2, <1>4 DEF SnapInv, ReleasedOnce
<1>8. GotNothing'
  BY Zenon, <1>2 DEF SnapInv, GotNothing
<1>9. SnapshotsMatch'
  BY Zenon, <1>1, <1>2, <1>3 DEF SnapInv, SnapshotsMatch, SnapshotList
<1>10. SnapshotReadsFrozen'
  BY Zenon, <1>1, <1>2, <1>4 DEF SnapInv, SnapshotReadsFrozen
<1> QED BY Zenon, <1>5, <1>6, <1>7, <1>8, <1>9, <1>10 DEF SnapInv

LEMMA SnapRelease ==
    ASSUME Typed, SnapInv, ConstantsApart, NEW t \in Threads, SnapshotRelease(t)
    PROVE  SnapInv'
<1>0. PICK s \in Snapshots : s = target[t]
  BY Zenon DEF SnapshotRelease, Typed, Targets
<1>1. /\ view'[s] = Released /\ taken'[s] = Forgotten /\ snapshots' = snapshots
      /\ \A r \in Snapshots \ {s} : view'[r] = view[r] /\ taken'[r] = taken[r]
  BY Zenon, <1>0 DEF SnapshotRelease, Typed, HandlesTypeOK
<1>2. /\ doing[t] = "dropping" /\ doing'[t] = "released" /\ target'[t] = s /\ got' = got
      /\ \A u \in Threads \ {t} : doing'[u] = doing[u] /\ target'[u] = target[u]
      /\ view[s] # Released
  BY Zenon, <1>0 DEF SnapshotRelease, Typed, HandlesTypeOK
<1>3. Forgotten # Released
  BY Zenon, NeverReleased
<1>4. \A u \in Threads : doing[u] \in {"reading", "read", "released"} => target[u] \in Snapshots
  BY Zenon DEF Typed, Targets
<1>5. "released" \notin {"reading", "read"} /\ "dropping" \notin {"reading", "read", "released"}
  OBVIOUS
<1>6. ViewsAsTaken'
  BY Zenon, <1>1, <1>3 DEF SnapInv, ViewsAsTaken
<1>7. ASSUME NEW u \in Threads, doing'[u] \in {"reading", "read", "released"}
      PROVE  taken'[target'[u]] # Released
  <2>1. CASE u = t
    BY Zenon, <1>1, <1>2, <1>3, <2>1
  <2>2. CASE u # t
    <3>1. taken[target[u]] # Released /\ target[u] \in Snapshots
      BY Zenon, <1>2, <1>4, <1>7, <2>2 DEF SnapInv, TakenBefore
    <3> QED BY ZenonT(60), <1>1, <1>2, <1>3, <2>2, <3>1
  <2> QED BY <2>1, <2>2
<1>8. \A u \in Threads \ {t} : doing[u] = "released" => target[u] # s
  BY Zenon, <1>2 DEF SnapInv, ReleasedOnce
<1>9. ReleasedOnce'
  <2>1. ASSUME NEW u \in Threads, doing'[u] = "released"
        PROVE  /\ view'[target'[u]] = Released
               /\ \A w \in Threads : doing'[w] = "released" /\ target'[w] = target'[u] => w = u
    <3>1. CASE u = t
      BY Zenon, <1>1, <1>2, <1>8, <3>1
    <3>2. CASE u # t
      <4>1. doing[u] = "released" /\ target'[u] = target[u] /\ target[u] \in Snapshots \ {s}
        BY Zenon, <1>2, <1>4, <1>8, <2>1, <3>2
      <4>2. view[target[u]] = Released
        BY Zenon, <4>1 DEF SnapInv, ReleasedOnce
      <4>3. ASSUME NEW w \in Threads, doing'[w] = "released", target'[w] = target'[u] PROVE w = u
        <5>1. w # t
          BY Zenon, <1>2, <4>1, <4>3
        <5> QED BY Zenon, <1>2, <4>1, <4>3, <5>1 DEF SnapInv, ReleasedOnce
      <4> QED BY Zenon, <1>1, <4>1, <4>2, <4>3
    <3> QED BY <3>1, <3>2
  <2> QED BY Zenon, <2>1 DEF ReleasedOnce
<1>10. GotNothing'
  <2>1. ASSUME NEW u \in Threads, doing'[u] \notin {"reading", "read"} PROVE got'[u] = Nowhere
    <3>1. CASE u = t
      BY Zenon, <1>2, <1>5, <3>1 DEF SnapInv, GotNothing
    <3>2. CASE u # t
      BY Zenon, <1>2, <2>1, <3>2 DEF SnapInv, GotNothing
    <3> QED BY <3>1, <3>2
  <2> QED BY Zenon, <2>1 DEF GotNothing
<1>11. SnapshotsMatch'
  <2>1. ASSUME NEW r \in Snapshots
        PROVE  r \in snapshots' <=> \/ view'[r] # Released
                                    \/ \E u \in Threads : doing'[u] = "released" /\ target'[u] = r
    <3>1. r \in snapshots <=> \/ view[r] # Released
                              \/ \E u \in Threads : doing[u] = "released" /\ target[u] = r
      BY Zenon DEF SnapInv, SnapshotsMatch, SnapshotList
    <3>2. CASE r = s
      BY Zenon, <1>1, <1>2, <3>1, <3>2
    <3>3. CASE r # s
      BY Zenon, <1>1, <1>2, <1>5, <3>1, <3>3
    <3> QED BY <3>2, <3>3
  <2> QED BY Zenon, <2>1 DEF SnapshotsMatch, SnapshotList
<1>12. SnapshotReadsFrozen'
  <2>1. ASSUME NEW u \in Threads, doing'[u] \in {"reading", "read"}, view'[target'[u]] # Released
        PROVE  \A p \in Cells : got'[u][p] \in {None, taken'[target'[u]][p]}
    <3>1. u # t
      BY Zenon, <1>2, <1>5, <2>1
    <3>2. doing[u] \in {"reading", "read"} /\ target'[u] = target[u] /\ target[u] \in Snapshots \ {s}
      BY Zenon, <1>1, <1>2, <1>4, <2>1, <3>1
    <3> QED BY ZenonT(60), <1>1, <1>2, <2>1, <3>2 DEF SnapInv, SnapshotReadsFrozen
  <2> QED BY Zenon, <2>1 DEF SnapshotReadsFrozen
<1>13. TakenBefore'
  BY Zenon, <1>7 DEF TakenBefore
<1> QED BY Zenon, <1>6, <1>9, <1>10, <1>11, <1>12, <1>13 DEF SnapInv

LEMMA SnapErase ==
    ASSUME Typed, SnapInv, NEW t \in Threads, SnapshotErase(t)
    PROVE  SnapInv'
<1>1. /\ view' = view /\ taken' = taken /\ got' = got /\ snapshots' = snapshots \ {target[t]}
  BY Zenon DEF SnapshotErase
<1>2. /\ doing[t] = "released" /\ doing'[t] = "ready"
      /\ \A u \in Threads \ {t} : doing'[u] = doing[u] /\ target'[u] = target[u]
  BY Zenon, GoesOne DEF SnapshotErase, Typed
<1>3. \A u \in Threads \ {t} : doing[u] = "released" => target[u] # target[t]
  BY Zenon, <1>2 DEF SnapInv, ReleasedOnce
<1>4. /\ view[target[t]] = Released
      /\ "ready" \notin {"reading", "read", "released"} /\ "released" \notin {"reading", "read"}
  BY Zenon, <1>2 DEF SnapInv, ReleasedOnce
<1>5. ViewsAsTaken'
  BY Zenon, <1>1 DEF SnapInv, ViewsAsTaken
<1>6. ASSUME NEW u \in Threads, doing'[u] # "ready" PROVE u # t /\ doing'[u] = doing[u] /\ target'[u] = target[u]
  BY Zenon, <1>2, <1>6
<1>7. TakenBefore'
  BY Zenon, <1>1, <1>4, <1>6 DEF SnapInv, TakenBefore
<1>8. ReleasedOnce'
  BY Zenon, <1>1, <1>4, <1>6, OnceKept DEF SnapInv
<1>9. GotNothing'
  <2>1. ASSUME NEW u \in Threads, doing'[u] \notin {"reading", "read"} PROVE got'[u] = Nowhere
    <3>1. CASE u = t
      BY Zenon, <1>1, <1>2, <1>4, <3>1 DEF SnapInv, GotNothing
    <3>2. CASE u # t
      BY Zenon, <1>1, <1>2, <2>1, <3>2 DEF SnapInv, GotNothing
    <3> QED BY <3>1, <3>2
  <2> QED BY Zenon, <2>1 DEF GotNothing
<1>10. SnapshotsMatch'
  <2>1. ASSUME NEW r \in Snapshots
        PROVE  r \in snapshots' <=> \/ view'[r] # Released
                                    \/ \E u \in Threads : doing'[u] = "released" /\ target'[u] = r
    <3>1. r \in snapshots <=> \/ view[r] # Released
                              \/ \E u \in Threads : doing[u] = "released" /\ target[u] = r
      BY Zenon DEF SnapInv, SnapshotsMatch, SnapshotList
    <3>2. CASE r = target[t]
      <4>1. \A u \in Threads : ~(doing'[u] = "released" /\ target'[u] = r)
        BY Zenon, <1>2, <1>3, <1>4, <1>6, <3>2
      <4> QED BY Zenon, <1>1, <1>4, <3>2, <4>1
    <3>3. CASE r # target[t]
      <4>1. (\E u \in Threads : doing'[u] = "released" /\ target'[u] = r)
               <=> (\E u \in Threads : doing[u] = "released" /\ target[u] = r)
        BY Zenon, <1>2, <1>4, <1>6, <3>3
      <4> QED BY Zenon, <1>1, <3>1, <3>3, <4>1
    <3> QED BY <3>2, <3>3
  <2> QED BY Zenon, <2>1 DEF SnapshotsMatch, SnapshotList
<1>11. SnapshotReadsFrozen'
  BY Zenon, <1>1, <1>4, <1>6 DEF SnapInv, SnapshotReadsFrozen
<1> QED BY Zenon, <1>5, <1>7, <1>8, <1>9, <1>10, <1>11 DEF SnapInv

\* A step of a read changes what the thread has got, and where it is.
LEMMA SnapReads ==
    ASSUME SnapInv, NEW t \in Threads, UNCHANGED <<view, taken, snapshots>>,
           \A u \in Threads \ {t} : doing'[u] = doing[u] /\ target'[u] = target[u] /\ got'[u] = got[u],
           doing[t] # "released", doing'[t] # "released",
           doing'[t] \in {"reading", "read"} => taken[target'[t]] # Released,
           doing'[t] \notin {"reading", "read"} => got'[t] = Nowhere,
           doing'[t] \in {"reading", "read"} /\ view[target'[t]] # Released =>
              \A p \in Cells : got'[t][p] \in {None, taken[target'[t]][p]}
    PROVE  SnapInv'
<1>1. view' = view /\ taken' = taken /\ snapshots' = snapshots
  BY Zenon
<1>2. ViewsAsTaken'
  BY ZenonT(60), <1>1 DEF SnapInv, ViewsAsTaken
<1>3. ASSUME NEW u \in Threads, doing'[u] \in {"reading", "read", "released"}
      PROVE  taken'[target'[u]] # Released
  <2>1. CASE u = t
    BY Zenon, <1>1, <1>3, <2>1
  <2>2. CASE u # t
    BY Zenon, <1>1, <1>3, <2>2 DEF SnapInv, TakenBefore
  <2> QED BY <2>1, <2>2
<1>4. TakenBefore'
  BY Zenon, <1>3 DEF TakenBefore
<1>5. ASSUME NEW u \in Threads
      PROVE  /\ doing'[u] = "released" <=> doing[u] = "released"
             /\ doing[u] = "released" => target'[u] = target[u]
  BY Zenon
<1>6. ReleasedOnce'
  BY Zenon, <1>1, <1>5, OnceKept DEF SnapInv
<1>7. ASSUME NEW u \in Threads, doing'[u] \notin {"reading", "read"} PROVE got'[u] = Nowhere
  BY Zenon, <1>7 DEF SnapInv, GotNothing
<1>8. GotNothing'
  BY Zenon, <1>7 DEF GotNothing
<1>9. SnapshotsMatch'
  <2>1. ASSUME NEW s \in Snapshots
        PROVE  (\E u \in Threads : doing'[u] = "released" /\ target'[u] = s)
                  <=> (\E u \in Threads : doing[u] = "released" /\ target[u] = s)
    BY Zenon, <1>5
  <2> QED BY Zenon, <1>1, <2>1, MatchKept DEF SnapInv
<1>10. ASSUME NEW u \in Threads, doing'[u] \in {"reading", "read"}, view'[target'[u]] # Released
       PROVE  \A p \in Cells : got'[u][p] \in {None, taken'[target'[u]][p]}
  <2>1. CASE u = t
    BY Zenon, <1>1, <1>10, <2>1
  <2>2. CASE u # t
    BY Zenon, <1>1, <1>10, <2>2 DEF SnapInv, SnapshotReadsFrozen
  <2> QED BY <2>1, <2>2
<1>11. SnapshotReadsFrozen'
  BY Zenon, <1>10 DEF SnapshotReadsFrozen
<1> QED BY Zenon, <1>2, <1>4, <1>6, <1>8, <1>9, <1>11 DEF SnapInv

\* A thread that moves while the snapshots stay as they are.
LEMMA SnapMoves ==
    ASSUME Typed, SnapInv, NEW t \in Threads, NEW step, NEW x, Turns(t, step, x),
           UNCHANGED <<view, taken, snapshots, got>>,
           doing[t] \notin {"reading", "read", "released"},
           step \notin {"reading", "read", "released"}
    PROVE  SnapInv'
<1>1. /\ doing'[t] = step /\ \A u \in Threads \ {t} : doing'[u] = doing[u] /\ target'[u] = target[u]
  BY Zenon, GoesOne DEF Typed
<1> QED BY Zenon, <1>1, SnapQuiet

LEMMA SnapStep ==
    ASSUME Typed, SnapInv, ConstantsApart, NEW t \in Threads, Step(t)
    PROVE  SnapInv'
<1>0. /\ "ready" \notin {"reading", "read", "released"}
      /\ "checked" \notin {"reading", "read", "released"}
      /\ "clearing" \notin {"reading", "read", "released"}
      /\ "dropping" \notin {"reading", "read", "released"}
      /\ "undefined" \notin {"reading", "read", "released"}
      /\ "reading" # "released" /\ "read" # "released" /\ "ready" # "released"
      /\ "reading" \in {"reading", "read"} /\ "read" \in {"reading", "read"}
      /\ "ready" \notin {"reading", "read"}
      /\ "reading" \in {"reading", "read", "released"} /\ "read" \in {"reading", "read", "released"}
  OBVIOUS
<1>1. ASSUME NEW P \in SUBSET Cells, NEW v \in CellContent, HandlesWrite(t, P, v) PROVE SnapInv'
  BY Zenon, <1>1, SnapQuiet DEF HandlesWrite, calls
<1>2. ASSUME NEW s \in Snapshots, ReadStarts(t, s) PROVE SnapInv'
  <2>1. /\ doing[t] = "ready" /\ doing'[t] = "reading" /\ target'[t] = s /\ got' = got
        /\ \A u \in Threads \ {t} : doing'[u] = doing[u] /\ target'[u] = target[u]
    BY Zenon, <1>2, GoesOne DEF ReadStarts, Typed
  <2>2. got'[t] = Nowhere
    BY Zenon, <1>0, <2>1 DEF SnapInv, GotNothing
  <2>3. \A p \in Cells : got'[t][p] = None
    BY Zenon, <2>2 DEF Nowhere
  <2>4. taken[s] # Released
    BY Zenon, <1>2 DEF ReadStarts, SnapInv, ViewsAsTaken
  <2>5. UNCHANGED <<view, taken, snapshots>>
    BY Zenon, <1>2 DEF ReadStarts
  <2>6. \A u \in Threads \ {t} : doing'[u] = doing[u] /\ target'[u] = target[u] /\ got'[u] = got[u]
    BY Zenon, <2>1
  <2>7. \A p \in Cells : got'[t][p] \in {None, taken[s][p]}
    BY Zenon, <2>3
  <2> QED BY Zenon, <1>0, <2>1, <2>4, <2>5, <2>6, <2>7, SnapReads
<1>3. ASSUME ReadGets(t) PROVE SnapInv'
  <2>1. /\ doing[t] = "reading" /\ doing'[t] = "read" /\ target' = target
        /\ \A u \in Threads \ {t} : doing'[u] = doing[u] /\ got'[u] = got[u]
    BY Zenon, <1>3 DEF ReadGets, Typed, HandlesTypeOK
  <2>2. got'[t] = [p \in Cells |-> IF Exists(p[1]) THEN Seen(target[t])[p] ELSE None]
    BY Zenon, <1>3 DEF ReadGets, Typed, HandlesTypeOK
  <2>3. taken[target[t]] # Released /\ target[t] \in Snapshots
    BY Zenon, <1>0, <2>1 DEF SnapInv, TakenBefore, Typed, Targets
  <2>4. view[target[t]] # Released => Seen(target[t]) = taken[target[t]]
    BY Zenon, <2>3 DEF Seen, SnapInv, ViewsAsTaken
  <2>5. \A p \in Cells : got'[t][p] \in {None, Seen(target[t])[p]}
    BY Zenon, <2>2
  <2>6. UNCHANGED <<view, taken, snapshots>>
    BY Zenon, <1>3 DEF ReadGets
  <2>7. \A u \in Threads \ {t} : doing'[u] = doing[u] /\ target'[u] = target[u] /\ got'[u] = got[u]
    BY Zenon, <2>1
  <2>8. view[target'[t]] # Released => \A p \in Cells : got'[t][p] \in {None, taken[target'[t]][p]}
    BY Zenon, <2>1, <2>4, <2>5
  <2>9. taken[target'[t]] # Released
    BY Zenon, <2>1, <2>3
  <2> QED BY Zenon, <1>0, <2>1, <2>6, <2>7, <2>8, <2>9, SnapReads
<1>4. ASSUME ReadEnds(t) \/ LevelReadEnds(t) PROVE SnapInv'
  <2>1. /\ doing[t] \in {"reading", "read"} /\ Turns(t, "ready", None)
        /\ got' = [got EXCEPT ![t] = Nowhere]
        /\ UNCHANGED <<view, taken, snapshots>>
    BY Zenon, <1>0, <1>4 DEF ReadEnds, LevelReadEnds
  <2>2. /\ doing'[t] = "ready" /\ got'[t] = Nowhere
        /\ \A u \in Threads \ {t} : doing'[u] = doing[u] /\ target'[u] = target[u] /\ got'[u] = got[u]
    BY ZenonT(60), <2>1, GoesOne DEF Typed, HandlesTypeOK
  <2>3. doing[t] # "released"
    BY <2>1
  <2> QED BY Zenon, <1>0, <2>1, <2>2, <2>3, SnapReads
<1>5. ASSUME NEW p \in MainPlaces, LevelReadGets(t, p) PROVE SnapInv'
  <2>1. /\ doing[t] = "reading" /\ doing' = doing /\ target' = target /\ p \in Cells
        /\ UNCHANGED <<view, taken, snapshots>>
    BY Zenon, <1>5 DEF LevelReadGets, MainPlaces
  <2>2. /\ \A u \in Threads \ {t} : got'[u] = got[u]
        /\ got'[t] = [got[t] EXCEPT ![p] = Seen(target[t])[p]]
    BY Zenon, <1>5 DEF LevelReadGets, Enumerated, Typed, HandlesTypeOK
  <2>3. taken[target[t]] # Released /\ target[t] \in Snapshots
    BY Zenon, <1>0, <2>1 DEF SnapInv, TakenBefore, Typed, Targets
  <2>4. view[target[t]] # Released => Seen(target[t]) = taken[target[t]]
    BY Zenon, <2>3 DEF Seen, SnapInv, ViewsAsTaken
  <2>5. ASSUME view[target[t]] # Released, NEW q \in Cells
        PROVE  got'[t][q] \in {None, taken[target[t]][q]}
    <3>1. got[t][q] \in {None, taken[target[t]][q]}
      BY Zenon, <1>0, <2>1, <2>5 DEF SnapInv, SnapshotReadsFrozen
    <3>2. got[t] \in [Cells -> CellContent \cup {None}]
      BY Zenon DEF Typed, HandlesTypeOK
    <3>3. CASE q = p
      BY Zenon, <2>2, <2>4, <2>5, <3>2, <3>3
    <3>4. CASE q # p
      BY Zenon, <2>2, <3>1, <3>2, <3>4
    <3> QED BY <3>3, <3>4
  <2>6. \A u \in Threads \ {t} : doing'[u] = doing[u] /\ target'[u] = target[u] /\ got'[u] = got[u]
    BY Zenon, <2>1, <2>2
  <2>7. view[target'[t]] # Released => \A q \in Cells : got'[t][q] \in {None, taken[target'[t]][q]}
    BY Zenon, <2>1, <2>5
  <2>8. taken[target'[t]] # Released /\ doing'[t] = "reading"
    BY Zenon, <2>1, <2>3
  <2> QED BY Zenon, <1>0, <2>1, <2>6, <2>7, <2>8, SnapReads
<1>6. ASSUME NEW n \in Names, CreateChecks(t, n) PROVE SnapInv'
  BY Zenon, <1>0, <1>6, SnapMoves DEF CreateChecks
<1>7. ASSUME NEW f \in Families, Creates(t, f) PROVE SnapInv'
  BY Zenon, <1>0, <1>7, SnapMoves DEF Creates
<1>8. ASSUME CreateFails(t) PROVE SnapInv'
  BY Zenon, <1>0, <1>8, SnapMoves DEF CreateFails
<1>9. ASSUME NEW f \in Families, DropHandle(t, f) PROVE SnapInv'
  BY Zenon, <1>9, SnapQuiet DEF DropHandle, calls
<1>10. ASSUME NEW f \in Families, NEW v, ClearCollects(t, f, v) PROVE SnapInv'
  BY Zenon, <1>0, <1>10, SnapMoves DEF ClearCollects
<1>11. ASSUME NEW v, LevelClearCollects(t, v) PROVE SnapInv'
  BY Zenon, <1>0, <1>11, SnapMoves DEF LevelClearCollects
<1>12. ASSUME ClearApplies(t) PROVE SnapInv'
  BY Zenon, <1>0, <1>12, SnapMoves DEF ClearApplies
<1>13. ASSUME NEW s \in Snapshots, SnapshotDrops(t, s) PROVE SnapInv'
  BY Zenon, <1>0, <1>13, SnapMoves DEF SnapshotDrops
<1>14. ASSUME SnapshotReleasesTwice(t) PROVE SnapInv'
  <2>1. Turns(t, "undefined", target[t])
    BY Zenon, <1>14, SameTarget DEF SnapshotReleasesTwice, Typed
  <2> QED BY Zenon, <1>0, <1>14, <2>1, SnapMoves DEF SnapshotReleasesTwice
<1> QED BY Zenon, <1>1, <1>2, <1>3, <1>4, <1>5, <1>6, <1>7, <1>8, <1>9, <1>10, <1>11, <1>12, <1>13, <1>14,
           SnapCreate, SnapRelease, SnapErase DEF Step

-----------------------------------------------------------------------------
(* Collections.                                                             *)

\* db.columns has every family with a name once, and no other; the default
\* family has none.
ColInv ==
    /\ named[Main] = None
    /\ \A i \in 1..Len(columns) : named[columns[i]] # None
    /\ \A i, j \in 1..Len(columns) : columns[i] = columns[j] => i = j
    /\ \A f \in Families : named[f] # None => \E i \in 1..Len(columns) : columns[i] = f
    /\ \A f, g \in Families : named[f] = named[g] /\ named[f] # None => f = g

LEMMA ColInit == ASSUME HandlesInit, ConstantsApart PROVE ColInv
<1>1. \A f \in Families : named[f] = None
  BY Zenon DEF HandlesInit
<1>2. \A i \in 1..Len(columns) : FALSE
  BY DEF HandlesInit
<1> QED BY Zenon, <1>1, <1>2 DEF ColInv, ConstantsApart

LEMMA ColCreates ==
    ASSUME Typed, ColInv, ConstantsApart, NEW t \in Threads, NEW f \in Families, Creates(t, f)
    PROVE  ColInv'
<1>1. /\ f # Main /\ named[f] = None /\ target[t] \in Names /\ target[t] # None
      /\ \A g \in Families : named[g] # target[t]
  BY Zenon DEF Creates, Exists, Typed, Targets, ConstantsApart
<1>2. /\ named'[f] = target[t]
      /\ \A g \in Families \ {f} : named'[g] = named[g]
  BY Zenon DEF Creates, Typed, HandlesTypeOK
<1>3. /\ Len(columns) \in Nat /\ Len(columns') = Len(columns) + 1
      /\ columns'[Len(columns) + 1] = f
      /\ \A i \in 1..Len(columns) : columns'[i] = columns[i] /\ columns[i] \in Families
  BY DEF Creates, Typed
<1>4. \A i \in 1..Len(columns') : i \in 1..Len(columns) \/ i = Len(columns) + 1
  BY <1>3
<1>5. \A i \in 1..Len(columns) : columns[i] # f /\ i \in 1..Len(columns')
  <2>1. \A i \in 1..Len(columns) : columns[i] # f
    BY Zenon, <1>1 DEF ColInv
  <2>2. \A i \in 1..Len(columns) : i \in 1..Len(columns')
    BY <1>3
  <2> QED BY Zenon, <2>1, <2>2
<1>6. named'[Main] = None
  BY Zenon, <1>1, <1>2 DEF ColInv, ConstantsApart
<1>7. ASSUME NEW i \in 1..Len(columns') PROVE named'[columns'[i]] # None
  <2>1. CASE i \in 1..Len(columns)
    <3>1. named[columns[i]] # None /\ columns[i] \in Families \ {f} /\ columns'[i] = columns[i]
      BY Zenon, <1>3, <1>5, <2>1 DEF ColInv
    <3> QED BY Zenon, <1>2, <3>1
  <2>2. CASE i = Len(columns) + 1
    BY Zenon, <1>1, <1>2, <1>3, <2>2
  <2> QED BY Zenon, <1>4, <2>1, <2>2
<1>8. ASSUME NEW i \in 1..Len(columns'), NEW j \in 1..Len(columns'), columns'[i] = columns'[j] PROVE i = j
  <2>1. CASE i \in 1..Len(columns) /\ j \in 1..Len(columns)
    BY ZenonT(60), <1>3, <1>8, <2>1 DEF ColInv
  <2>2. CASE i = Len(columns) + 1 /\ j \in 1..Len(columns)
    BY Zenon, <1>3, <1>5, <1>8, <2>2
  <2>3. CASE i \in 1..Len(columns) /\ j = Len(columns) + 1
    BY Zenon, <1>3, <1>5, <1>8, <2>3
  <2> QED BY Zenon, <1>4, <2>1, <2>2, <2>3
<1>9. ASSUME NEW g \in Families, named'[g] # None PROVE \E i \in 1..Len(columns') : columns'[i] = g
  <2>1. CASE g = f
    <3>1. Len(columns) + 1 \in 1..Len(columns')
      BY <1>3
    <3> QED BY Zenon, <1>3, <2>1, <3>1
  <2>2. CASE g # f
    <3>1. PICK i \in 1..Len(columns) : columns[i] = g
      BY Zenon, <1>2, <1>9, <2>2 DEF ColInv
    <3> QED BY Zenon, <1>3, <1>5, <3>1
  <2> QED BY <2>1, <2>2
<1>10. ASSUME NEW g \in Families, NEW h \in Families, named'[g] = named'[h], named'[g] # None
       PROVE  g = h
  <2>1. CASE g = f \/ h = f
    BY Zenon, <1>1, <1>2, <1>10, <2>1
  <2>2. CASE g # f /\ h # f
    <3>1. named[g] = named[h] /\ named[g] # None
      BY Zenon, <1>2, <1>10, <2>2
    <3> QED BY Zenon, <3>1 DEF ColInv
  <2> QED BY Zenon, <2>1, <2>2
<1> QED BY Zenon, <1>6, <1>7, <1>8, <1>9, <1>10 DEF ColInv

LEMMA ColDrops ==
    ASSUME Typed, ColInv, ConstantsApart, NEW t \in Threads, NEW f \in Families, DropHandle(t, f)
    PROVE  ColInv'
<1>1. PICK i \in 1..Len(columns) :
        /\ named' = [named EXCEPT ![columns[i]] = None]
        /\ columns' = Erased(i)
  BY Zenon DEF DropHandle
<1> DEFINE c == columns[i]
<1>2. c \in Families /\ c # Main
  BY DEF Typed
<1>3. Len(columns) \in Nat
  BY DEF Typed
<1>4. /\ Len(columns') = Len(columns) - 1
      /\ \A j \in 1..Len(columns) - 1 :
            columns'[j] = IF j < i THEN columns[j] ELSE columns[j + 1]
  BY Zenon, <1>1, ErasedColumns DEF Typed
<1>5. /\ named'[c] = None
      /\ \A g \in Families \ {c} : named'[g] = named[g]
  BY Zenon, <1>1, <1>2 DEF Typed, HandlesTypeOK
\* Where a column comes from, and where it goes.
<1> DEFINE From(j) == IF j < i THEN j ELSE j + 1
           To(j) == IF j < i THEN j ELSE j - 1
<1>6. \A j \in 1..Len(columns') :
        From(j) \in 1..Len(columns) /\ From(j) # i /\ columns'[j] = columns[From(j)]
  BY <1>3, <1>4
<1>7. \A j \in 1..Len(columns) : j # i => To(j) \in 1..Len(columns') /\ columns'[To(j)] = columns[j]
  BY <1>3, <1>4
<1>8. \A j, k \in 1..Len(columns') : From(j) = From(k) => j = k
  BY <1>3, <1>4
<1>9. \A j \in 1..Len(columns) : columns[j] \in Families
  BY DEF Typed
<1> HIDE DEF From, To
<1>10. \A j \in 1..Len(columns) : j # i => columns[j] # c
  BY Zenon DEF ColInv
<1>11. named'[Main] = None
  BY Zenon, <1>2, <1>5 DEF ColInv, ConstantsApart
<1>12. ASSUME NEW j \in 1..Len(columns') PROVE named'[columns'[j]] # None
  <2>1. named[columns[From(j)]] # None /\ columns[From(j)] \in Families \ {c}
    BY Zenon, <1>6, <1>9, <1>10 DEF ColInv
  <2> QED BY Zenon, <1>5, <1>6, <2>1
<1>13. ASSUME NEW j \in 1..Len(columns'), NEW k \in 1..Len(columns'), columns'[j] = columns'[k]
       PROVE  j = k
  <2>1. From(j) = From(k)
    <3>1. /\ From(j) \in 1..Len(columns) /\ From(k) \in 1..Len(columns)
          /\ columns[From(j)] = columns[From(k)]
      BY Zenon, <1>6, <1>13
    <3> QED BY Zenon, <3>1 DEF ColInv
  <2> QED BY Zenon, <1>8, <2>1
<1>14. ASSUME NEW g \in Families, named'[g] # None PROVE \E j \in 1..Len(columns') : columns'[j] = g
  <2>1. g # c /\ named[g] # None
    BY Zenon, <1>5, <1>14
  <2>2. PICK j \in 1..Len(columns) : columns[j] = g
    BY Zenon, <2>1 DEF ColInv
  <2> QED BY Zenon, <1>7, <2>1, <2>2
<1>15. ASSUME NEW g \in Families, NEW h \in Families, named'[g] = named'[h], named'[g] # None
       PROVE  g = h
  BY ZenonT(60), <1>5, <1>15 DEF ColInv
<1> QED BY Zenon, <1>11, <1>12, <1>13, <1>14, <1>15 DEF ColInv

LEMMA ColStep ==
    ASSUME Typed, ColInv, ConstantsApart, NEW t \in Threads, Step(t)
    PROVE  ColInv'
<1>1. ASSUME UNCHANGED <<named, columns>> PROVE ColInv'
  BY Zenon, <1>1 DEF ColInv
<1>2. \/ UNCHANGED <<named, columns>>
      \/ \E f \in Families : Creates(t, f)
      \/ \E f \in Families : DropHandle(t, f)
  BY Zenon DEF Step, HandlesWrite, SnapshotCreate, SnapshotDrops, SnapshotRelease,
     SnapshotReleasesTwice, SnapshotErase, ReadStarts, ReadGets, ReadEnds, CreateChecks, CreateFails, ClearCollects, ClearApplies, LevelReadGets,
     LevelReadEnds, LevelClearCollects
<1> QED BY Zenon, <1>1, <1>2, ColCreates, ColDrops

\* Every column family once.
LEMMA ColumnsOnce ==
    ASSUME Typed, ColInv, ConstantsApart
    PROVE  ColumnsMatch
<1>1. DOMAIN columns = 1..Len(columns) /\ Len(columns) \in Nat
  BY DEF Typed
<1>2. \A i \in DOMAIN columns : CollectionList[i] = <<named[columns[i]], columns[i]>>
  BY Zenon DEF CollectionList
<1>3. ASSUME NEW f \in Families \ {Main}
      PROVE  Exists(f) <=> \E i \in DOMAIN columns : \A j \in DOMAIN columns :
                              CollectionList[j] = <<named[f], f>> <=> j = i
  <2>1. \A i \in DOMAIN columns : CollectionList[i] = <<named[f], f>> <=> columns[i] = f
    BY <1>2
  <2>2. ASSUME Exists(f)
        PROVE  \E i \in DOMAIN columns : \A j \in DOMAIN columns :
                  CollectionList[j] = <<named[f], f>> <=> j = i
    <3>1. PICK i \in 1..Len(columns) : columns[i] = f
      BY Zenon, <2>2 DEF Exists, ColInv
    <3>2. \A j \in 1..Len(columns) : columns[j] = f <=> j = i
      BY Zenon, <3>1 DEF ColInv
    <3>3. i \in DOMAIN columns /\ \A j \in DOMAIN columns : columns[j] = f <=> j = i
      BY Zenon, <1>1, <3>2
    <3>4. ASSUME NEW j \in DOMAIN columns PROVE CollectionList[j] = <<named[f], f>> <=> j = i
      BY Zenon, <2>1, <3>3
    <3> QED BY Zenon, <3>3, <3>4
  <2>3. ASSUME NEW i \in DOMAIN columns, columns[i] = f PROVE Exists(f)
    BY Zenon, <1>1, <2>3 DEF Exists, ColInv
  <2> QED BY Zenon, <2>1, <2>2, <2>3
<1> QED BY Zenon, <1>3 DEF ColumnsMatch, ColInv

-----------------------------------------------------------------------------
(* Drops that keep the handle.                                              *)

\* What there is in a collection that is being emptied is going to be, or was
\* written since.
ClearInv ==
    \A t \in Threads : doing[t] = "clearing" =>
        \A p \in Cells :
            p[1] = target[t] /\ contents[p] # Missing => p \in collected[t] \cup since[t]

LEMMA ClearInit == ASSUME HandlesInit PROVE ClearInv
<1>1. \A t \in Threads : doing[t] = "ready"
  BY Zenon DEF HandlesInit
<1>2. "ready" # "clearing"
  OBVIOUS
<1> QED BY Zenon, <1>1, <1>2 DEF ClearInv

\* Steps that neither write nor begin to clear.
LEMMA ClearQuiet ==
    ASSUME ClearInv, UNCHANGED <<collected, since>>,
           \A p \in Cells : contents'[p] \in {Missing, contents[p]},
           \A u \in Threads : doing'[u] = "clearing" => doing[u] = "clearing" /\ target'[u] = target[u]
    PROVE  ClearInv'
<1>1. collected' = collected /\ since' = since
  BY Zenon
<1>2. ASSUME NEW u \in Threads, doing'[u] = "clearing", NEW p \in Cells, p[1] = target'[u],
             contents'[p] # Missing
      PROVE  p \in collected'[u] \cup since'[u]
  <2>1. doing[u] = "clearing" /\ target'[u] = target[u] /\ contents'[p] = contents[p]
    BY Zenon, <1>2
  <2> QED BY Zenon, <1>1, <1>2, <2>1 DEF ClearInv
<1> QED BY Zenon, <1>2 DEF ClearInv

\* A thread that goes somewhere else and leaves the pairs alone.
LEMMA ClearMoves ==
    ASSUME Typed, ClearInv, NEW t \in Threads, NEW step, NEW x, Turns(t, step, x), step # "clearing",
           UNCHANGED <<collected, since>>,
           \A p \in Cells : contents'[p] \in {Missing, contents[p]}
    PROVE  ClearInv'
<1>1. /\ doing'[t] = step
      /\ \A u \in Threads \ {t} : doing'[u] = doing[u] /\ target'[u] = target[u]
  BY Zenon, GoesOne DEF Typed
<1>2. \A u \in Threads : doing'[u] = "clearing" => doing[u] = "clearing" /\ target'[u] = target[u]
  BY Zenon, <1>1
<1> QED BY Zenon, <1>2, ClearQuiet

LEMMA ClearBegins ==
    ASSUME Typed, ClearInv, NEW t \in Threads, NEW x, Turns(t, "clearing", x),
           UNCHANGED <<contents, since>>,
           NEW c, collected' = [collected EXCEPT ![t] = c],
           \A p \in Cells : p[1] = x /\ contents[p] # Missing => p \in c
    PROVE  ClearInv'
<1>1. /\ target'[t] = x /\ collected'[t] = c
      /\ contents' = contents /\ since' = since
      /\ \A u \in Threads \ {t} :
            doing'[u] = doing[u] /\ target'[u] = target[u] /\ collected'[u] = collected[u]
  <2>1. /\ target'[t] = x
        /\ \A u \in Threads \ {t} : doing'[u] = doing[u] /\ target'[u] = target[u]
    BY Zenon, GoesOne DEF Typed
  <2>2. collected'[t] = c /\ \A u \in Threads \ {t} : collected'[u] = collected[u]
    BY Zenon DEF Typed, HandlesTypeOK
  <2> QED BY Zenon, <2>1, <2>2
<1>2. ASSUME NEW u \in Threads, doing'[u] = "clearing", NEW p \in Cells, p[1] = target'[u],
             contents'[p] # Missing
      PROVE  p \in collected'[u] \cup since'[u]
  <2>1. CASE u = t
    BY Zenon, <1>1, <1>2, <2>1
  <2>2. CASE u # t
    BY Zenon, <1>1, <1>2, <2>2 DEF ClearInv
  <2> QED BY <2>1, <2>2
<1> QED BY Zenon, <1>2 DEF ClearInv

LEMMA ClearWrites ==
    ASSUME Typed, ClearInv, NEW t \in Threads, NEW P \in SUBSET Cells, NEW v, HandlesWrite(t, P, v)
    PROVE  ClearInv'
<1>1. /\ doing' = doing /\ target' = target /\ collected' = collected
      /\ \A u \in Threads : doing[u] = "clearing" => since'[u] = since[u] \cup P
      /\ \A p \in Cells \ P : contents'[p] = contents[p]
  BY Zenon DEF HandlesWrite, Writes, calls
<1>2. ASSUME NEW u \in Threads, doing[u] = "clearing", NEW p \in Cells, p[1] = target[u],
             contents'[p] # Missing
      PROVE  p \in collected[u] \cup (since[u] \cup P)
  <2>1. CASE p \in P
    BY Zenon, <2>1
  <2>2. CASE p \notin P
    BY Zenon, <1>1, <1>2, <2>2 DEF ClearInv
  <2> QED BY <2>1, <2>2
<1> QED BY Zenon, <1>1, <1>2 DEF ClearInv

LEMMA ClearEnds ==
    ASSUME Typed, ClearInv, NEW t \in Threads, ClearApplies(t)
    PROVE  ClearInv'
<1>1. /\ doing'[t] = "ready"
      /\ \A u \in Threads \ {t} : doing'[u] = doing[u] /\ target'[u] = target[u]
  BY Zenon, GoesOne DEF ClearApplies, Typed
<1>2. /\ \A u \in Threads \ {t} : collected'[u] = collected[u]
      /\ \A u \in Threads \ {t} : doing[u] = "clearing" => since'[u] = since[u] \cup collected[t]
      /\ \A p \in Cells : p \notin collected[t] => contents'[p] = contents[p]
  BY Zenon DEF ClearApplies, Typed, HandlesTypeOK
<1>3. ASSUME NEW u \in Threads, doing'[u] = "clearing", NEW p \in Cells, p[1] = target'[u],
             contents'[p] # Missing
      PROVE  p \in collected'[u] \cup since'[u]
  <2>1. u # t
    BY Zenon, <1>1, <1>3
  <2>2. /\ doing[u] = "clearing" /\ target'[u] = target[u] /\ collected'[u] = collected[u]
        /\ since'[u] = since[u] \cup collected[t]
    BY Zenon, <1>1, <1>2, <1>3, <2>1
  <2>3. CASE p \in collected[t]
    BY Zenon, <2>2, <2>3
  <2>4. CASE p \notin collected[t]
    BY Zenon, <1>2, <1>3, <2>2, <2>4 DEF ClearInv
  <2> QED BY <2>3, <2>4
<1> QED BY Zenon, <1>3 DEF ClearInv

LEMMA ClearStep ==
    ASSUME Typed, ColInv, ClearInv, ConstantsApart, NEW t \in Threads, Step(t)
    PROVE  ClearInv'
<1>0. "ready" # "clearing" /\ "released" # "clearing" /\ "reading" # "clearing"
      /\ "checked" # "clearing" /\ "read" # "clearing"
      /\ "dropping" # "clearing" /\ "undefined" # "clearing"
  OBVIOUS
<1>1. ASSUME NEW s \in Snapshots, SnapshotCreate(t, s) PROVE ClearInv'
  BY Zenon, <1>1, ClearQuiet DEF SnapshotCreate, calls
<1>2. ASSUME SnapshotRelease(t) PROVE ClearInv'
  <2>1. Turns(t, "released", target[t])
    BY Zenon, <1>2, SameTarget DEF SnapshotRelease, Typed
  <2> QED BY Zenon, <1>0, <1>2, <2>1, ClearMoves DEF SnapshotRelease
<1>14. ASSUME NEW s \in Snapshots, SnapshotDrops(t, s) PROVE ClearInv'
  BY Zenon, <1>0, <1>14, ClearMoves DEF SnapshotDrops
<1>15. ASSUME SnapshotReleasesTwice(t) PROVE ClearInv'
  <2>1. Turns(t, "undefined", target[t])
    BY Zenon, <1>15, SameTarget DEF SnapshotReleasesTwice, Typed
  <2> QED BY Zenon, <1>0, <1>15, <2>1, ClearMoves DEF SnapshotReleasesTwice
<1>3. ASSUME SnapshotErase(t) PROVE ClearInv'
  BY Zenon, <1>0, <1>3, ClearMoves DEF SnapshotErase
<1>4. ASSUME NEW s \in Snapshots, ReadStarts(t, s) PROVE ClearInv'
  BY Zenon, <1>0, <1>4, ClearMoves DEF ReadStarts
<1>5. ASSUME ReadGets(t) PROVE ClearInv'
  <2>1. \A u \in Threads : doing'[u] = "clearing" => doing[u] = "clearing" /\ target'[u] = target[u]
    BY Zenon, <1>0, <1>5 DEF ReadGets, Typed, HandlesTypeOK
  <2> QED BY Zenon, <1>5, <2>1, ClearQuiet DEF ReadGets
<1>6. ASSUME ReadEnds(t) \/ LevelReadEnds(t) PROVE ClearInv'
  BY Zenon, <1>0, <1>6, ClearMoves DEF ReadEnds, LevelReadEnds
<1>7. ASSUME NEW n \in Names, CreateChecks(t, n) PROVE ClearInv'
  BY Zenon, <1>0, <1>7, ClearMoves DEF CreateChecks
<1>8. ASSUME NEW f \in Families, Creates(t, f) PROVE ClearInv'
  <2>1. \A p \in Cells : contents'[p] \in {Missing, contents[p]}
    BY Zenon, <1>8 DEF Creates
  <2> QED BY Zenon, <1>0, <1>8, <2>1, ClearMoves DEF Creates
<1>9. ASSUME CreateFails(t) PROVE ClearInv'
  BY Zenon, <1>0, <1>9, ClearMoves DEF CreateFails
<1>10. ASSUME NEW f \in Families, DropHandle(t, f) PROVE ClearInv'
  BY Zenon, <1>10, ClearQuiet DEF DropHandle, calls
<1>11. ASSUME NEW f \in Families, NEW v, ClearCollects(t, f, v) PROVE ClearInv'
  <2> DEFINE c == {p \in Cells : p[1] = ToClear(f) /\ contents[p] # Missing}
  <2>1. PICK g : g = IF Listed(f) THEN f ELSE None
    BY Zenon
  <2>2. /\ collected' = [collected EXCEPT ![t] = c] /\ Turns(t, "clearing", g)
        /\ UNCHANGED <<contents, since>>
    BY Zenon, <1>11, <2>1 DEF ClearCollects
  <2>3. \A p \in Cells : p[1] = g /\ contents[p] # Missing => p \in c
    BY Zenon, <2>1 DEF ToClear, ConstantsApart
  <2> HIDE DEF c
  <2> QED BY Zenon, <2>2, <2>3, ClearBegins
<1>12. ASSUME NEW v, LevelClearCollects(t, v) PROVE ClearInv'
  <2> DEFINE c == {p \in MainPlaces : contents[p] # Missing}
  <2>1. /\ collected' = [collected EXCEPT ![t] = c] /\ Turns(t, "clearing", Main)
        /\ UNCHANGED <<contents, since>>
    BY Zenon, <1>12 DEF LevelClearCollects
  <2>2. \A p \in Cells : p[1] = Main /\ contents[p] # Missing => p \in c
    BY Zenon DEF MainPlaces
  <2> HIDE DEF c
  <2> QED BY Zenon, <2>1, <2>2, ClearBegins
<1>13. ASSUME NEW p \in MainPlaces, LevelReadGets(t, p) PROVE ClearInv'
  BY Zenon, <1>13, ClearQuiet DEF LevelReadGets
<1> QED BY Zenon, <1>1, <1>2, <1>3, <1>4, <1>5, <1>6, <1>7, <1>8, <1>9, <1>10, <1>11, <1>12, <1>13,
           <1>14, <1>15, ClearWrites, ClearEnds DEF Step

\* Nothing is collected for a drop but pairs of the collection it is of, if its
\* handle is that of one.
OwnInv ==
    \A t \in Threads : doing[t] = "clearing" =>
        \A p \in collected[t] : target[t] \in {p[1], None}

LEMMA OwnInit == ASSUME HandlesInit PROVE OwnInv
<1>1. \A t \in Threads : doing[t] = "ready"
  BY Zenon DEF HandlesInit
<1>2. "ready" # "clearing"
  OBVIOUS
<1> QED BY Zenon, <1>1, <1>2 DEF OwnInv

\* Drops that go on as they were.
LEMMA OwnKept ==
    ASSUME OwnInv,
           \A u \in Threads : doing'[u] = "clearing" =>
              doing[u] = "clearing" /\ target'[u] = target[u] /\ collected'[u] = collected[u]
    PROVE  OwnInv'
BY Zenon DEF OwnInv

LEMMA OwnMoves ==
    ASSUME Typed, OwnInv, NEW t \in Threads, NEW step, NEW x, Turns(t, step, x), step # "clearing",
           \A u \in Threads \ {t} : collected'[u] = collected[u]
    PROVE  OwnInv'
<1>1. /\ doing'[t] = step
      /\ \A u \in Threads \ {t} : doing'[u] = doing[u] /\ target'[u] = target[u]
  BY Zenon, GoesOne DEF Typed
<1> QED BY Zenon, <1>1, OwnKept

LEMMA OwnBegins ==
    ASSUME Typed, OwnInv, NEW t \in Threads, NEW x, Turns(t, "clearing", x),
           NEW c, collected' = [collected EXCEPT ![t] = c],
           \A p \in c : x \in {p[1], None}
    PROVE  OwnInv'
<1>1. /\ target'[t] = x
      /\ \A u \in Threads \ {t} : doing'[u] = doing[u] /\ target'[u] = target[u]
  BY Zenon, GoesOne DEF Typed
<1>2. collected'[t] = c /\ \A u \in Threads \ {t} : collected'[u] = collected[u]
  BY Zenon DEF Typed, HandlesTypeOK
<1>3. ASSUME NEW u \in Threads, doing'[u] = "clearing", NEW p \in collected'[u]
      PROVE  target'[u] \in {p[1], None}
  <2>1. CASE u = t
    BY Zenon, <1>1, <1>2, <1>3, <2>1
  <2>2. CASE u # t
    BY Zenon, <1>1, <1>2, <1>3, <2>2 DEF OwnInv
  <2> QED BY <2>1, <2>2
<1> QED BY Zenon, <1>3 DEF OwnInv

LEMMA OwnStep ==
    ASSUME Typed, OwnInv, NEW t \in Threads, Step(t)
    PROVE  OwnInv'
<1>0. /\ "ready" # "clearing" /\ "released" # "clearing" /\ "reading" # "clearing"
      /\ "checked" # "clearing" /\ "read" # "clearing" /\ "dropping" # "clearing"
      /\ "undefined" # "clearing"
  OBVIOUS
<1>1. ASSUME doing' = doing, target' = target, collected' = collected PROVE OwnInv'
  BY Zenon, <1>1, OwnKept
<1>2. ASSUME NEW step, NEW x, step # "clearing", Turns(t, step, x), collected' = collected
      PROVE  OwnInv'
  BY Zenon, <1>2, OwnMoves
<1>3. ASSUME NEW step, step # "clearing", doing' = [doing EXCEPT ![t] = step], target' = target,
             collected' = collected
      PROVE  OwnInv'
  BY Zenon, <1>2, <1>3, SameTarget DEF Typed
<1>4. CASE \/ \E P \in SUBSET Cells, v \in CellContent : HandlesWrite(t, P, v)
           \/ \E s \in Snapshots : SnapshotCreate(t, s)
           \/ \E f \in Families : DropHandle(t, f)
           \/ \E p \in MainPlaces : LevelReadGets(t, p)
  BY Zenon, <1>1, <1>4 DEF HandlesWrite, SnapshotCreate, DropHandle, LevelReadGets, calls
<1>5. CASE \/ \E s \in Snapshots : SnapshotDrops(t, s) \/ ReadStarts(t, s)
           \/ \E n \in Names : CreateChecks(t, n)
           \/ \E f \in Families : Creates(t, f)
           \/ SnapshotErase(t) \/ ReadEnds(t) \/ LevelReadEnds(t) \/ CreateFails(t)
  BY Zenon, <1>0, <1>2, <1>5 DEF SnapshotDrops, ReadStarts, CreateChecks, Creates, SnapshotErase,
     ReadEnds, LevelReadEnds, CreateFails
<1>6. CASE SnapshotRelease(t) \/ SnapshotReleasesTwice(t) \/ ReadGets(t)
  BY Zenon, <1>0, <1>3, <1>6 DEF SnapshotRelease, SnapshotReleasesTwice, ReadGets
<1>7. CASE ClearApplies(t)
  <2>1. Turns(t, "ready", None) /\ \A u \in Threads \ {t} : collected'[u] = collected[u]
    BY Zenon, <1>7 DEF ClearApplies, Typed, HandlesTypeOK
  <2> QED BY Zenon, <1>0, <2>1, OwnMoves
<1>8. ASSUME NEW f \in Families, NEW v, ClearCollects(t, f, v) PROVE OwnInv'
  <2>1. PICK c : c = {p \in Cells : p[1] = ToClear(f) /\ contents[p] # Missing}
    BY Zenon
  <2>2. PICK g : g = IF Listed(f) THEN f ELSE None
    BY Zenon
  <2>3. collected' = [collected EXCEPT ![t] = c] /\ Turns(t, "clearing", g)
    BY Zenon, <1>8, <2>1, <2>2 DEF ClearCollects
  <2>4. \A p \in c : g \in {p[1], None}
    BY Zenon, <2>1, <2>2 DEF ToClear
  <2> QED BY Zenon, <2>3, <2>4, OwnBegins
<1>9. ASSUME NEW v, LevelClearCollects(t, v) PROVE OwnInv'
  <2>1. PICK c : c = {p \in MainPlaces : contents[p] # Missing}
    BY Zenon
  <2>2. collected' = [collected EXCEPT ![t] = c] /\ Turns(t, "clearing", Main)
    BY Zenon, <1>9, <2>1 DEF LevelClearCollects
  <2>3. \A p \in c : Main \in {p[1], None}
    BY Zenon, <2>1 DEF MainPlaces
  <2> QED BY Zenon, <2>2, <2>3, OwnBegins
<1> QED BY Zenon, <1>4, <1>5, <1>6, <1>7, <1>8, <1>9 DEF Step

-----------------------------------------------------------------------------
(* Theorems.                                                                *)

HandlesInv == Typed /\ SnapInv /\ ColInv /\ ClearInv /\ OwnInv

LEMMA HandlesInvInit == ASSUME EnginesInit, ConstantsApart PROVE HandlesInv
BY Zenon, TypedInit, SnapInit, ColInit, ClearInit, OwnInit DEF EnginesInit, HandlesInv

LEMMA HandlesInvStutters == ASSUME HandlesInv, UNCHANGED allVars PROVE HandlesInv'
<1>1. UNCHANGED <<contents, named, columns, snapshots, view, doing, target, collected, left, got,
                  taken, since>>
  BY Zenon DEF allVars, handleVars
<1>2. Typed'
  BY Zenon, <1>1 DEF HandlesInv, Typed, HandlesTypeOK, Targets
<1>3. SnapInv'
  BY Zenon, <1>1, SnapQuiet DEF HandlesInv
<1>4. ColInv'
  BY Zenon, <1>1 DEF HandlesInv, ColInv
<1>5. ClearInv'
  BY Zenon, <1>1 DEF HandlesInv, ClearInv
<1>6. OwnInv'
  BY Zenon, <1>1 DEF HandlesInv, OwnInv
<1> QED BY Zenon, <1>2, <1>3, <1>4, <1>5, <1>6 DEF HandlesInv

LEMMA HandlesInvSteps ==
    ASSUME HandlesInv, ConstantsApart, [EnginesNext]_allVars
    PROVE  HandlesInv'
<1>1. ASSUME EnginesNext PROVE HandlesInv'
  <2>1. PICK t \in Threads : Step(t)
    BY Zenon, <1>1, StepsOfThreads
  <2> QED BY Zenon, <2>1, TypedStep, SnapStep, ColStep, ClearStep, OwnStep DEF HandlesInv
<1> QED BY Zenon, <1>1, HandlesInvStutters

LEMMA HandlesInvariant == ASSUME ConstantsApart PROVE EnginesSpec => []HandlesInv
<1>1. EnginesInit => HandlesInv
  BY HandlesInvInit
<1>2. HandlesInv /\ [EnginesNext]_allVars => HandlesInv'
  BY HandlesInvSteps
<1> QED BY <1>1, <1>2, PTL DEF EnginesSpec

\* Whatever threads create, drop, read and write, db.snapshots and db.columns
\* list exactly the snapshots and column families of the library, each once:
\* ukv_snapshot_create, ukv_snapshot_drop, ukv_collection_create and
\* ukv_collection_drop of engine_rocksdb.cpp, the first two also of
\* engine_leveldb.cpp.
THEOREM HandlesListed == ASSUME ConstantsApart PROVE EnginesSpec => []HandlesMatch
<1>1. HandlesInv => HandlesMatch
  BY Zenon, ColumnsOnce DEF HandlesInv, SnapInv, Typed, HandlesMatch
<1> QED BY <1>1, HandlesInvariant, PTL

\* A read through a snapshot that is not dropped meanwhile returns what was
\* there when it was taken, at once (ukv_read of engine_rocksdb.cpp) or key by
\* key (engine_leveldb.cpp), whatever is written between.
THEOREM SnapshotsFrozen == ASSUME ConstantsApart PROVE EnginesSpec => []SnapshotReadsFrozen
<1>1. HandlesInv => SnapshotReadsFrozen
  BY Zenon DEF HandlesInv, SnapInv
<1> QED BY <1>1, HandlesInvariant, PTL

\* When a drop that keeps the handle returns, the collection holds what the
\* drop leaves or what was written since it began, and no pair of another one
\* was touched, unless the handle was not in db.columns (ukv_collection_drop of
\* both engines).
THEOREM DropsEmpty == ASSUME ConstantsApart PROVE EnginesSpec => DropEmpties
<1> DEFINE Emptied(t) ==
        ClearApplies(t) => \A p \in Cells :
            /\ p[1] = target[t] => contents'[p] \in {Missing, left[t]} \/ p \in since[t]
            /\ contents'[p] # contents[p] => target[t] \in {p[1], None}
<1>1. ASSUME HandlesInv, NEW t \in Threads PROVE Emptied(t)
  <2> SUFFICES ASSUME ClearApplies(t), NEW p \in Cells
               PROVE  /\ p[1] = target[t] => contents'[p] \in {Missing, left[t]} \/ p \in since[t]
                      /\ contents'[p] # contents[p] => target[t] \in {p[1], None}
    BY Zenon
  <2>1. /\ doing[t] = "clearing"
        /\ contents'[p] = IF p \in collected[t] THEN left[t] ELSE contents[p]
    BY Zenon DEF ClearApplies
  <2>2. CASE p \in collected[t]
    BY Zenon, <2>1, <2>2, <1>1 DEF HandlesInv, OwnInv
  <2>3. CASE p \notin collected[t]
    BY Zenon, <2>1, <2>3, <1>1 DEF HandlesInv, ClearInv
  <2> QED BY <2>2, <2>3
<1>2. HandlesInv /\ [EnginesNext]_allVars => [\A t \in Threads : Emptied(t)]_handleVars
  BY Zenon, <1>1
<1>3. EnginesSpec => [][\A t \in Threads : Emptied(t)]_handleVars
  <2> HIDE DEF Emptied
  <2> QED BY <1>2, HandlesInvariant, PTL DEF EnginesSpec
<1> QED BY <1>3 DEF DropEmpties
=============================================================================
