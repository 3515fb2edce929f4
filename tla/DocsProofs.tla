----------------------------- MODULE DocsProofs -----------------------------
(***************************************************************************)
(* What holds of Docs for any number of clients and documents, any batches *)
(* and whatever the documents are: reads are answered in the order of      *)
(* their tasks, batches are written whole, each document to its own place, *)
(* and no transaction commits over an update it has not seen.              *)
(***************************************************************************)
EXTENDS Docs, FiniteSetTheorems, TLAPS

-----------------------------------------------------------------------------
(* Sorting and searching.                                                   *)

\* Sets that hold 0 and, with every number, the next one hold all numbers.
LEMMA NatSetInduction ==
    ASSUME NEW S \in SUBSET Nat, 0 \in S, \A n \in S : n + 1 \in S
    PROVE  S = Nat
<1> DEFINE R == OpToRel(<, Nat)
           T == Nat \ S
<1>1. SUFFICES ASSUME T # {} PROVE FALSE
  OBVIOUS
<1>2. IsWellFoundedOn(R, Nat)
  BY NatLessThanWellFounded
<1>3. PICK x \in T : \A y \in T : <<y, x>> \notin R
  <2> HIDE DEF R
  <2> QED
    BY <1>1, <1>2, WFMin, Zenon
<1>4. x \in Nat /\ x # 0 /\ x - 1 \in Nat /\ x - 1 < x /\ x = (x - 1) + 1
  BY SMT
<1>5. x - 1 \in T
  BY <1>4, SMT
<1>6. <<x - 1, x>> \in R
  BY <1>4, SMT DEF OpToRel
<1> QED
  BY <1>3, <1>5, <1>6

\* A finite set of integers that is not empty has a largest element.
LEMMA LargestExists ==
    ASSUME NEW S \in SUBSET Int, IsFiniteSet(S), S # {}
    PROVE  \E m \in S : \A k \in S : k <= m
<1> DEFINE P(n) == \A T \in SUBSET Int :
                      IsFiniteSet(T) /\ Cardinality(T) = n /\ T # {} =>
                         \E m \in T : \A k \in T : k <= m
           G == {n \in Nat : P(n)}
<1>1. 0 \in G
  <2>1. P(0)
    BY FS_EmptySet, Zenon
  <2> QED
    BY <2>1
<1>2. ASSUME NEW n \in G PROVE n + 1 \in G
  <2>0. n \in Nat /\ P(n)
    BY <1>2, Zenon
  <2>1. ASSUME NEW T \in SUBSET Int, IsFiniteSet(T), Cardinality(T) = n + 1, T # {}
        PROVE  \E m \in T : \A k \in T : k <= m
    <3>1. PICK x \in T : TRUE
      BY <2>1, Zenon
    <3>2. IsFiniteSet(T \ {x}) /\ Cardinality(T \ {x}) = n
      <4>1. IsFiniteSet(T \ {x}) /\ Cardinality(T \ {x}) = Cardinality(T) - 1
        BY <2>1, <3>1, FS_RemoveElement, Zenon
      <4> QED
        BY <2>0, <2>1, <4>1, SMT
    <3>3. CASE T \ {x} = {}
      <4>1. \A k \in T : k = x
        BY <3>3, Zenon
      <4> QED
        BY <2>1, <3>1, <4>1, SMT
    <3>4. CASE T \ {x} # {}
      <4>1. T \ {x} \in SUBSET Int
        BY <2>1, Zenon
      <4>2. PICK m \in T \ {x} : \A k \in T \ {x} : k <= m
        <5> HIDE DEF G
        <5> QED
          BY <2>0, <3>2, <3>4, <4>1, Zenon
      <4>3. x \in Int /\ m \in Int /\ m \in T
        BY <3>1, <4>2, Zenon
      <4>4. CASE x <= m
        BY <4>2, <4>3, <4>4, Zenon
      <4>5. CASE ~(x <= m)
        <5>1. \A k \in T : k <= x
          BY <4>2, <4>3, <4>5, SMT
        <5> QED
          BY <3>1, <5>1, Zenon
      <4> QED
        BY <4>4, <4>5, Zenon
    <3> QED
      BY <3>3, <3>4, Zenon
  <2>2. P(n + 1)
    BY <2>1, Zenon
  <2>3. n + 1 \in Nat
    BY <2>0, SMT
  <2> QED
    BY <2>2, <2>3, Zenon
<1>3. G = Nat
  <2> HIDE DEF P
  <2>1. G \in SUBSET Nat
    OBVIOUS
  <2> HIDE DEF G
  <2> QED
    BY <1>1, <1>2, <2>1, NatSetInduction, Zenon
<1>4. Cardinality(S) \in Nat
  BY FS_CardinalityType, Zenon
<1>5. P(Cardinality(S))
  BY <1>3, <1>4, Zenon
<1> QED
  BY <1>5, Zenon

IsSorted(s, S) ==
    /\ s \in [1..Cardinality(S) -> S]
    /\ \A i, j \in 1..Cardinality(S) : i < j => s[i] < s[j]
    /\ \A k \in S : \E i \in 1..Cardinality(S) : s[i] = k

\* Every finite set of integers can be sorted.
LEMMA SortedExists ==
    ASSUME NEW S \in SUBSET Int, IsFiniteSet(S)
    PROVE  \E s : IsSorted(s, S)
<1> DEFINE P(n) == \A T \in SUBSET Int :
                      IsFiniteSet(T) /\ Cardinality(T) = n => \E s : IsSorted(s, T)
           G == {n \in Nat : P(n)}
<1>1. 0 \in G
  <2>1. ASSUME NEW T \in SUBSET Int, IsFiniteSet(T), Cardinality(T) = 0
        PROVE  \E s : IsSorted(s, T)
    <3>1. T = {}
      BY <2>1, FS_EmptySet, Zenon
    <3>2. 1..Cardinality(T) = {}
      BY <2>1, SMT
    <3>3. IsSorted([i \in 1..Cardinality(T) |-> i], T)
      BY <3>1, <3>2, Zenon DEF IsSorted
    <3> QED
      BY <3>3, Zenon
  <2> QED
    BY <2>1, Zenon
<1>2. ASSUME NEW n \in G PROVE n + 1 \in G
  <2>0. n \in Nat /\ P(n)
    BY <1>2, Zenon
  <2>1. ASSUME NEW T \in SUBSET Int, IsFiniteSet(T), Cardinality(T) = n + 1
        PROVE  \E s : IsSorted(s, T)
    <3>1. T # {}
      BY <2>0, <2>1, FS_EmptySet, SMT
    <3>2. PICK m \in T : \A k \in T : k <= m
      BY <2>1, <3>1, LargestExists, Zenon
    <3>3. IsFiniteSet(T \ {m}) /\ Cardinality(T \ {m}) = n
      <4>1. IsFiniteSet(T \ {m}) /\ Cardinality(T \ {m}) = Cardinality(T) - 1
        BY <2>1, <3>2, FS_RemoveElement, Zenon
      <4> QED
        BY <2>0, <2>1, <4>1, SMT
    <3>4. PICK s : IsSorted(s, T \ {m})
      <4>1. T \ {m} \in SUBSET Int
        BY <2>1, Zenon
      <4> HIDE DEF G
      <4> QED
        BY <2>0, <3>3, <4>1, Zenon
    <3>5. /\ s \in [1..n -> T \ {m}]
          /\ \A i, j \in 1..n : i < j => s[i] < s[j]
          /\ \A k \in T \ {m} : \E i \in 1..n : s[i] = k
      BY <3>3, <3>4, Zenon DEF IsSorted
    <3> DEFINE t == [i \in 1..n + 1 |-> IF i = n + 1 THEN m ELSE s[i]]
    <3>6. /\ \A i \in 1..n : t[i] = s[i] /\ s[i] \in T /\ s[i] < m
          /\ t[n + 1] = m
          /\ \A i \in 1..n + 1 : i \in 1..n \/ i = n + 1
          /\ \A i \in 1..n : i \in 1..n + 1
          /\ n + 1 \in 1..n + 1
      <4>1. \A i \in 1..n : s[i] \in T /\ s[i] \in Int /\ m \in Int /\ s[i] # m /\ s[i] <= m
        BY <2>1, <3>2, <3>5, Zenon
      <4>2. \A i \in 1..n : s[i] < m
        BY <4>1, SMT
      <4> QED
        BY <2>0, <4>1, <4>2, SMT
    <3>7. t \in [1..n + 1 -> T]
      BY <3>2, <3>6, Zenon
    <3>8. \A i, j \in 1..n + 1 : i < j => t[i] < t[j]
      <4> SUFFICES ASSUME NEW i \in 1..n + 1, NEW j \in 1..n + 1, i < j PROVE t[i] < t[j]
        BY Zenon
      <4>1. i \in 1..n
        BY <2>0, SMT
      <4>2. CASE j = n + 1
        BY <3>6, <4>1, <4>2, Zenon
      <4>3. CASE j # n + 1
        <5> HIDE DEF t
        <5> QED
          BY <3>5, <3>6, <4>1, <4>3, Zenon
      <4> QED
        BY <4>2, <4>3, Zenon
    <3>9. \A k \in T : \E i \in 1..n + 1 : t[i] = k
      <4> HIDE DEF t
      <4> SUFFICES ASSUME NEW k \in T PROVE \E i \in 1..n + 1 : t[i] = k
        BY Zenon
      <4>1. CASE k = m
        BY <3>6, <4>1, Zenon
      <4>2. CASE k # m
        <5>1. PICK i \in 1..n : s[i] = k
          BY <3>5, <4>2, Zenon
        <5> QED
          BY <3>6, <5>1, Zenon
      <4> QED
        BY <4>1, <4>2, Zenon
    <3>10. IsSorted(t, T)
      <4> HIDE DEF t
      <4> QED
        BY <2>1, <3>7, <3>8, <3>9, Zenon DEF IsSorted
    <3> QED
      BY <3>10, Zenon
  <2>2. P(n + 1)
    BY <2>1, Zenon
  <2>3. n + 1 \in Nat
    BY <2>0, SMT
  <2> QED
    BY <2>2, <2>3, Zenon
<1>3. G = Nat
  <2> HIDE DEF P
  <2>1. G \in SUBSET Nat
    OBVIOUS
  <2> HIDE DEF G
  <2> QED
    BY <1>1, <1>2, <2>1, NatSetInduction, Zenon
<1>4. Cardinality(S) \in Nat
  BY FS_CardinalityType, Zenon
<1>5. P(Cardinality(S))
  BY <1>3, <1>4, Zenon
<1> QED
  BY <1>5, Zenon

LEMMA SortedIsSorted ==
    ASSUME NEW S \in SUBSET Int, IsFiniteSet(S)
    PROVE  IsSorted(Sorted(S), S)
<1>1. PICK s : IsSorted(s, S)
  BY SortedExists, Zenon
<1> QED
  BY <1>1, Zenon DEF IsSorted, Sorted

\* offset_in_sorted finds the place of a key among the sorted ones.
LEMMA OffsetFinds ==
    ASSUME NEW S \in SUBSET Int, IsFiniteSet(S), NEW k \in S
    PROVE  LET p == OffsetInSorted(Sorted(S), k) + 1
           IN  p \in DOMAIN Sorted(S) /\ Sorted(S)[p] = k
<1> DEFINE s == Sorted(S)
           n == Cardinality(S)
<1>1. IsSorted(s, S)
  BY SortedIsSorted, Zenon
<1>2. n \in Nat
  BY FS_CardinalityType, Zenon
<1> HIDE DEF s, n
<1>3. /\ s \in [1..n -> S] /\ DOMAIN s = 1..n
      /\ \A i, j \in 1..n : i < j => s[i] < s[j]
      /\ \A j \in S : \E i \in 1..n : s[i] = j
  BY <1>1, Zenon DEF IsSorted, n
<1>4. PICK p \in 1..n : s[p] = k
  BY <1>3, Zenon
<1>5. \A i \in 1..n : s[i] \in Int /\ (s[i] < k <=> i < p)
  <2>1. \A i \in 1..n : s[i] \in Int
    BY <1>3, Zenon
  <2>2. \A i \in 1..n : (i < p => s[i] < k) /\ (p < i => k < s[i])
    BY <1>3, <1>4, Zenon
  <2> QED
    BY <1>2, <1>4, <2>1, <2>2, SMT
<1>6. {i \in DOMAIN s : s[i] < k} = 1..p - 1
  BY <1>2, <1>3, <1>4, <1>5, SMT
<1>7. p \in Int /\ p - 1 \in Int /\ ~(1 > p - 1) => Cardinality(1..p - 1) = p - 1
  BY FS_Interval, SMT
<1>8. Cardinality(1..p - 1) = p - 1
  <2>1. CASE p = 1
    <3>1. 1..p - 1 = {}
      BY <2>1, SMT
    <3> QED
      BY <2>1, <3>1, FS_EmptySet, SMT
  <2>2. CASE p # 1
    BY <1>2, <1>4, <1>7, <2>2, SMT
  <2> QED
    BY <2>1, <2>2, Zenon
<1>9. OffsetInSorted(s, k) + 1 = p
  <2>1. OffsetInSorted(s, k) = p - 1
    BY <1>6, <1>8, Zenon DEF OffsetInSorted
  <2> QED
    BY <2>1, SMT
<1> QED
  BY <1>3, <1>4, <1>9, Zenon DEF s

\* The keys of a batch are finitely many known ones.
LEMMA KeysOfBatch ==
    ASSUME NEW w \in Writes \cup Reads
    PROVE  /\ Len(w.tasks) \in Nat
           /\ \A i \in 1..Len(w.tasks) : w.tasks[i].key \in Keys
           /\ KeysOf(w.tasks) \in SUBSET Int
           /\ KeysOf(w.tasks) \subseteq Keys
           /\ IsFiniteSet(KeysOf(w.tasks))
<1> DEFINE n == Len(w.tasks)
           f == [i \in 1..n |-> w.tasks[i].key]
<1>1. n \in Nat /\ \A i \in 1..n : w.tasks[i].key \in Keys
  BY CallsAssumption, Zenon DEF TasksIn
<1> HIDE DEF n
<1>2. KeysOf(w.tasks) \subseteq Keys /\ KeysOf(w.tasks) \in SUBSET Int
  BY <1>1, CallsAssumption, Zenon DEF KeysOf, n
<1>3. f \in Surjection(1..n, KeysOf(w.tasks))
  BY Zenon DEF KeysOf, Surjection, n
<1>4. IsFiniteSet(1..n)
  BY <1>1, FS_Interval, SMT
<1>5. IsFiniteSet(KeysOf(w.tasks))
  BY <1>3, <1>4, FS_Surjection, Zenon
<1> QED
  BY <1>1, <1>2, <1>5, Zenon DEF n

\* As many keys as tasks: no key is repeated.
LEMMA DistinctKeys ==
    ASSUME NEW w \in Writes, Distinct(w.tasks)
    PROVE  \A i, j \in 1..Len(w.tasks) : w.tasks[i].key = w.tasks[j].key => i = j
<1> DEFINE n == Len(w.tasks)
           f == [i \in 1..n |-> w.tasks[i].key]
<1>1. n \in Nat
  BY KeysOfBatch, Zenon
<1> HIDE DEF n
<1>2. f \in Surjection(1..n, KeysOf(w.tasks))
  BY Zenon DEF KeysOf, Surjection, n
<1>3. IsFiniteSet(1..n) /\ Cardinality(1..n) = n
  <2>1. IsFiniteSet(1..n) /\ Cardinality(1..n) = IF 1 > n THEN 0 ELSE n - 1 + 1
    BY <1>1, FS_Interval, SMT
  <2> QED
    BY <1>1, <2>1, SMT
<1>4. f \in Injection(1..n, KeysOf(w.tasks))
  <2>1. Cardinality(KeysOf(w.tasks)) = Cardinality(1..n)
    BY <1>3, Zenon DEF Distinct, n
  <2> QED
    BY <1>2, <1>3, <2>1, FS_Surjection, Zenon
<1>5. \A i, j \in 1..n : f[i] = f[j] => i = j
  BY <1>4, Zenon DEF Injection, IsInjective
<1>6. \A i \in 1..n : f[i] = w.tasks[i].key
  BY Zenon
<1> HIDE DEF f
<1> QED
  BY <1>5, <1>6, Zenon DEF n

-----------------------------------------------------------------------------
(* The engine.                                                              *)

LEMMA UnderFacts ==
    ASSUME NEW f, NEW g
    PROVE  /\ DOMAIN Under(f, g) = DOMAIN f \cup DOMAIN g
           /\ \A k \in DOMAIN f : Under(f, g)[k] = f[k]
           /\ \A k \in DOMAIN g \ DOMAIN f : Under(f, g)[k] = g[k]
  BY Zenon DEF Under

\* A document is changed together with its version, or neither is.
LEMMA StoresFacts ==
    ASSUME Shape, NEW written, DOMAIN written \subseteq Keys, Stores(written)
    PROVE  /\ version' \in [Keys -> 0..MaxVersion] /\ DOMAIN store' = Keys
           /\ \A k \in Keys : version'[k] # 0 \/ store'[k] = Missing
           /\ \A k \in DOMAIN written : store'[k] = written[k]
           /\ \A k \in Keys \ DOMAIN written : store'[k] = store[k] /\ version'[k] = version[k]
           /\ \A k \in Keys : \/ store'[k] = store[k] /\ version'[k] = version[k]
                              \/ version[k] < version'[k]
<1>1. /\ store' = Under(written, store)
      /\ version' = [k \in Keys |-> version[k] + (IF k \in DOMAIN written THEN 1 ELSE 0)]
      /\ \A k \in DOMAIN written : version[k] < MaxVersion
  BY Zenon DEF Stores, Over
<1>2. DOMAIN store = Keys /\ \A k \in Keys : version[k] \in 0..MaxVersion
  BY Zenon DEF Shape
<1>3. /\ DOMAIN store' = Keys
      /\ \A k \in DOMAIN written : store'[k] = written[k]
      /\ \A k \in Keys \ DOMAIN written : store'[k] = store[k]
  <2>1. /\ DOMAIN Under(written, store) = DOMAIN written \cup DOMAIN store
        /\ \A k \in DOMAIN written : Under(written, store)[k] = written[k]
        /\ \A k \in DOMAIN store \ DOMAIN written : Under(written, store)[k] = store[k]
    BY UnderFacts, Zenon
  <2> QED
    BY <1>1, <1>2, <2>1, Zenon
<1>4. MaxVersion \in Nat
  BY CallsAssumption
<1>5. ASSUME NEW k \in Keys
      PROVE  /\ version'[k] = version[k] + (IF k \in DOMAIN written THEN 1 ELSE 0)
             /\ version[k] \in Nat /\ version[k] <= MaxVersion
             /\ k \in DOMAIN written => version[k] < MaxVersion
  BY <1>1, <1>2, <1>4, SMT
<1>6. ASSUME NEW k \in Keys
      PROVE  /\ version'[k] \in 0..MaxVersion
             /\ k \in DOMAIN written => version[k] < version'[k] /\ version'[k] # 0
             /\ k \notin DOMAIN written => version'[k] = version[k]
  BY <1>4, <1>5, SMT
<1>7. version' \in [Keys -> 0..MaxVersion]
  BY <1>1, <1>6, Zenon
<1>8. \A k \in Keys : version'[k] # 0 \/ store'[k] = Missing
  BY <1>3, <1>6, Zenon DEF Shape
<1> QED
  BY <1>3, <1>6, <1>7, <1>8, Zenon

\* What holds of the transaction of a client outlives the steps of the others.
LEMMA BaseStays ==
    ASSUME Shape, Shape', NEW d \in Clients, BaseWatched(d), txn'[d] = txn[d],
           \A k \in Keys : \/ store'[k] = store[k] /\ version'[k] = version[k]
                           \/ version[k] < version'[k]
    PROVE  BaseWatched(d)'
<1> SUFFICES ASSUME txn[d].open
             PROVE  /\ DOMAIN txn[d].changes \subseteq Keys
                    /\ DOMAIN txn[d].watched \subseteq Keys
                    /\ DOMAIN txn[d].base \subseteq DOMAIN txn[d].watched
                    /\ \A k \in DOMAIN txn[d].watched :
                          txn[d].watched[k] \in Nat /\ txn[d].watched[k] <= version'[k]
                    /\ \A k \in DOMAIN txn[d].base :
                          txn[d].watched[k] = version'[k] => store'[k] = txn[d].base[k]
  BY Zenon DEF BaseWatched
<1>1. /\ DOMAIN txn[d].changes \subseteq Keys
      /\ DOMAIN txn[d].watched \subseteq Keys
      /\ DOMAIN txn[d].base \subseteq DOMAIN txn[d].watched
      /\ \A k \in DOMAIN txn[d].watched :
            txn[d].watched[k] \in Nat /\ txn[d].watched[k] <= version[k]
      /\ \A k \in DOMAIN txn[d].base :
            txn[d].watched[k] = version[k] => store[k] = txn[d].base[k]
  BY Zenon DEF BaseWatched
<1>2. \A k \in Keys : version[k] \in Int /\ version'[k] \in Int
  BY SMT DEF Shape
<1>3. ASSUME NEW k \in DOMAIN txn[d].watched
      PROVE  /\ txn[d].watched[k] \in Nat /\ txn[d].watched[k] <= version'[k]
             /\ \/ store'[k] = store[k] /\ version'[k] = version[k]
                \/ txn[d].watched[k] # version'[k]
  <2>1. k \in Keys /\ txn[d].watched[k] \in Nat /\ txn[d].watched[k] <= version[k]
    BY <1>1, Zenon
  <2> QED
    BY <1>2, <2>1, SMT
<1> QED
  BY <1>1, <1>3, Zenon

\* ukv_read in a transaction, of documents to be rewritten or not.
LEMMA WatchKeeps ==
    ASSUME Shape, NEW c \in Clients, BaseWatched(c), NEW ks \in SUBSET Keys,
           NEW dont_watch, NEW rewrite, Watch(c, ks, dont_watch, rewrite),
           rewrite /\ txn[c].open => ~dont_watch, UNCHANGED <<store, version>>
    PROVE  /\ DOMAIN txn' = Clients
           /\ \A d \in Clients \ {c} : txn'[d] = txn[d]
           /\ txn'[c].open = txn[c].open
           /\ txn[c].open => txn'[c].changes = txn[c].changes
           /\ BaseWatched(c)'
<1>0. DOMAIN txn = Clients /\ DOMAIN store = Keys
  BY Zenon DEF Shape
<1>1. CASE ~txn[c].open
  <2>1. txn' = txn
    BY <1>1, Zenon DEF Watch
  <2> QED
    BY <1>0, <1>1, <2>1, Zenon DEF BaseWatched
<1>2. CASE txn[c].open
  <2> DEFINE fresh == ks \ DOMAIN txn[c].changes
             seen == IF dont_watch THEN txn[c].watched
                     ELSE Under(txn[c].watched, [k \in fresh |-> version[k]])
             from == IF rewrite THEN Under(txn[c].base, [k \in fresh |-> store[k]])
                     ELSE txn[c].base
  <2>1. txn' = [txn EXCEPT ![c] = Txn(TRUE, seen, txn[c].changes, from)]
    BY <1>2, Zenon DEF Watch
  <2>2. txn'[c] = Txn(TRUE, seen, txn[c].changes, from)
    BY <1>0, <2>1, Zenon
  <2>3. DOMAIN txn' = Clients /\ \A d \in Clients \ {c} : txn'[d] = txn[d]
    BY <1>0, <2>1, Zenon
  <2>4. /\ txn'[c].open = TRUE /\ txn'[c].watched = seen
        /\ txn'[c].changes = txn[c].changes /\ txn'[c].base = from
    <3> HIDE DEF seen, from
    <3> QED
      BY <2>2 DEF Txn
  <2>5. /\ DOMAIN txn[c].changes \subseteq Keys
        /\ DOMAIN txn[c].watched \subseteq Keys
        /\ DOMAIN txn[c].base \subseteq DOMAIN txn[c].watched
        /\ \A k \in DOMAIN txn[c].watched :
              txn[c].watched[k] \in Nat /\ txn[c].watched[k] <= version[k]
        /\ \A k \in DOMAIN txn[c].base :
              txn[c].watched[k] = version[k] => store[k] = txn[c].base[k]
    BY <1>2, Zenon DEF BaseWatched
  <2>6. \A k \in Keys : version[k] \in Nat /\ version[k] <= version[k]
    BY SMT DEF Shape
  <2>7. /\ DOMAIN txn[c].watched \subseteq DOMAIN seen /\ DOMAIN seen \subseteq Keys
        /\ \A k \in DOMAIN txn[c].watched : seen[k] = txn[c].watched[k]
        /\ \A k \in DOMAIN seen : seen[k] \in Nat /\ seen[k] <= version[k]
        /\ ~dont_watch => fresh \subseteq DOMAIN seen
    <3>1. CASE dont_watch
      BY <2>5, <3>1, Zenon
    <3>2. CASE ~dont_watch
      <4>1. /\ DOMAIN seen = DOMAIN txn[c].watched \cup fresh
            /\ \A k \in DOMAIN txn[c].watched : seen[k] = txn[c].watched[k]
            /\ \A k \in fresh \ DOMAIN txn[c].watched : seen[k] = version[k]
        BY <3>2, Zenon DEF Under
      <4>2. fresh \subseteq Keys
        OBVIOUS
      <4> HIDE DEF seen, fresh
      <4> QED
        BY <2>5, <2>6, <4>1, <4>2, Zenon
    <3> QED
      BY <3>1, <3>2, Zenon
  <2>8. /\ DOMAIN from \subseteq DOMAIN seen
        /\ \A k \in DOMAIN from : seen[k] = version[k] => store[k] = from[k]
    <3>1. CASE ~rewrite
      <4>1. from = txn[c].base
        BY <3>1, Zenon
      <4> HIDE DEF seen, from
      <4> QED
        BY <2>5, <2>7, <4>1, Zenon
    <3>2. CASE rewrite
      <4>1. /\ DOMAIN from = DOMAIN txn[c].base \cup fresh
            /\ \A k \in DOMAIN txn[c].base : from[k] = txn[c].base[k]
            /\ \A k \in fresh \ DOMAIN txn[c].base : from[k] = store[k]
        BY <3>2, Zenon DEF Under
      <4>2. fresh \subseteq DOMAIN seen
        BY <1>2, <2>7, <3>2, Zenon
      <4> HIDE DEF seen, fresh, from
      <4> QED
        BY <2>5, <2>7, <4>1, <4>2, Zenon
    <3> QED
      BY <3>1, <3>2, Zenon
  <2>9. BaseWatched(c)'
    <3> HIDE DEF seen, fresh, from
    <3>1. store' = store /\ version' = version
      BY Zenon
    <3> QED
      BY <2>4, <2>5, <2>7, <2>8, <3>1, Zenon DEF BaseWatched
  <2> QED
    BY <1>2, <2>3, <2>4, <2>9, Zenon
<1> QED
  BY <1>1, <1>2, Zenon

\* ukv_write, in a transaction and outside.
LEMMA EngineKeeps ==
    ASSUME Shape, \A d \in Clients : BaseWatched(d), NEW c \in Clients, NEW written,
           DOMAIN written \subseteq Keys, EngineWrite(c, written), DOMAIN call' = Clients
    PROVE  /\ Shape'
           /\ \A d \in Clients : BaseWatched(d)' /\ txn'[d].open = txn[d].open
           /\ txn[c].open => UNCHANGED <<store, version>>
           /\ ~txn[c].open => Stores(written)
<1>0. DOMAIN txn = Clients
  BY Zenon DEF Shape
<1>1. CASE ~txn[c].open
  <2>1. Stores(written) /\ txn' = txn
    BY <1>1, Zenon DEF EngineWrite
  <2>2. Shape'
    BY <1>0, <2>1, StoresFacts, Zenon DEF Shape
  <2>3. \A d \in Clients : BaseWatched(d)'
    BY <2>1, <2>2, StoresFacts, BaseStays, Zenon
  <2> QED
    BY <1>1, <2>1, <2>2, <2>3, Zenon
<1>2. CASE txn[c].open
  <2>1. /\ txn' = [txn EXCEPT ![c] = Txn(TRUE, txn[c].watched, Over(txn[c].changes, written),
                                         txn[c].base)]
        /\ store' = store /\ version' = version
    BY <1>2, Zenon DEF EngineWrite
  <2>2. DOMAIN txn' = Clients /\ \A d \in Clients \ {c} : txn'[d] = txn[d]
    BY <1>0, <2>1, Zenon
  <2>3. txn'[c] = Txn(TRUE, txn[c].watched, Over(txn[c].changes, written), txn[c].base)
    BY <1>0, <2>1, Zenon
  <2>4. /\ txn'[c].open = TRUE /\ txn'[c].watched = txn[c].watched
        /\ txn'[c].changes = Over(txn[c].changes, written) /\ txn'[c].base = txn[c].base
    BY <2>3 DEF Txn
  <2>5. Shape'
    BY <2>1, <2>2, Zenon DEF Shape
  <2>6. DOMAIN txn'[c].changes \subseteq Keys
    <3>1. DOMAIN txn[c].changes \subseteq Keys
      BY <1>2, Zenon DEF BaseWatched
    <3>2. DOMAIN Over(txn[c].changes, written) = DOMAIN written \cup DOMAIN txn[c].changes
      BY UnderFacts, Zenon DEF Over
    <3> QED
      BY <2>4, <3>1, <3>2, Zenon
  <2>7. BaseWatched(c)'
    <3>1. /\ DOMAIN txn[c].watched \subseteq Keys
          /\ DOMAIN txn[c].base \subseteq DOMAIN txn[c].watched
          /\ \A k \in DOMAIN txn[c].watched :
                txn[c].watched[k] \in Nat /\ txn[c].watched[k] <= version[k]
          /\ \A k \in DOMAIN txn[c].base :
                txn[c].watched[k] = version[k] => store[k] = txn[c].base[k]
      BY <1>2, Zenon DEF BaseWatched
    <3>2. /\ DOMAIN txn'[c].watched \subseteq Keys
          /\ DOMAIN txn'[c].base \subseteq DOMAIN txn'[c].watched
          /\ \A k \in DOMAIN txn'[c].watched :
                txn'[c].watched[k] \in Nat /\ txn'[c].watched[k] <= version'[k]
          /\ \A k \in DOMAIN txn'[c].base :
                txn'[c].watched[k] = version'[k] => store'[k] = txn'[c].base[k]
      BY <2>1, <2>4, <3>1, ZenonT(60)
    <3> QED
      BY <2>6, <3>2, Zenon DEF BaseWatched
  <2>8. \A d \in Clients \ {c} : BaseWatched(d)'
    BY <2>1, <2>2, ZenonT(60) DEF BaseWatched
  <2> QED
    BY <1>2, <2>1, <2>2, <2>4, <2>5, <2>7, <2>8, Zenon
<1> QED
  BY <1>1, <1>2, Zenon

-----------------------------------------------------------------------------
(* Places.                                                                  *)

\* Batches are written to known keys.
LEMMA PlacesKnown ==
    ASSUME NEW w \in Writes, NEW docs
    PROVE  /\ DOMAIN Placed(UniquePlaces(w.tasks), docs) \subseteq Keys
           /\ DOMAIN Placed([i \in 1..Len(w.tasks) |-> w.tasks[i].key], docs) \subseteq Keys
<1>0. /\ \A i \in 1..Len(w.tasks) : w.tasks[i].key \in Keys
      /\ KeysOf(w.tasks) \in SUBSET Int /\ KeysOf(w.tasks) \subseteq Keys
      /\ IsFiniteSet(KeysOf(w.tasks))
  BY KeysOfBatch, Zenon
<1> DEFINE own == [i \in 1..Len(w.tasks) |-> w.tasks[i].key]
<1>1. \A i \in DOMAIN own : own[i] \in Keys
  BY <1>0, Zenon
<1>2. \A i \in DOMAIN UniqueKeys(w.tasks) : UniqueKeys(w.tasks)[i] \in Keys
  <2>1. IsSorted(UniqueKeys(w.tasks), KeysOf(w.tasks))
    BY <1>0, SortedIsSorted, Zenon DEF UniqueKeys
  <2> QED
    BY <1>0, <2>1, Zenon DEF IsSorted
<1>3. UniquePlaces(w.tasks) = own \/ UniquePlaces(w.tasks) = UniqueKeys(w.tasks)
  BY Zenon DEF UniquePlaces
<1> HIDE DEF own
<1>4. \A i \in DOMAIN UniquePlaces(w.tasks) : UniquePlaces(w.tasks)[i] \in Keys
  BY <1>1, <1>2, <1>3, Zenon
<1>5. DOMAIN Placed(UniquePlaces(w.tasks), docs) \subseteq Keys
  BY <1>4 DEF Placed
<1>6. DOMAIN Placed(own, docs) \subseteq Keys
  BY <1>1 DEF Placed
<1> QED
  BY <1>5, <1>6, Zenon DEF own

\* Without repeated keys every document is written to the place of its task.
LEMMA PlacedOwn ==
    ASSUME NEW w \in Writes, Distinct(w.tasks), NEW docs
    PROVE  /\ DOMAIN Placed(UniquePlaces(w.tasks), docs) = KeysOf(w.tasks)
           /\ \A i \in 1..Len(w.tasks) :
                 Placed(UniquePlaces(w.tasks), docs)[w.tasks[i].key] = docs[i]
<1> DEFINE own == [i \in 1..Len(w.tasks) |-> w.tasks[i].key]
<1>1. UniquePlaces(w.tasks) = own
  BY Zenon DEF UniquePlaces
<1>2. DOMAIN own = 1..Len(w.tasks) /\ \A i \in 1..Len(w.tasks) : own[i] = w.tasks[i].key
  BY Zenon
<1>3. \A i, j \in DOMAIN own : own[i] = own[j] => i = j
  <2>1. \A i, j \in 1..Len(w.tasks) : w.tasks[i].key = w.tasks[j].key => i = j
    BY DistinctKeys, Zenon
  <2> HIDE DEF own
  <2> QED
    BY <1>2, <2>1, Zenon
<1>0. \A i, j \in DOMAIN own : i < j => i # j
  BY <1>2, KeysOfBatch, SMT
<1> HIDE DEF own
<1>4. DOMAIN Placed(own, docs) = KeysOf(w.tasks)
  BY <1>2 DEF Placed, KeysOf
<1>5. ASSUME NEW i \in DOMAIN own
      PROVE  Placed(own, docs)[own[i]] = docs[i]
  <2> DEFINE n == CHOOSE n \in DOMAIN own :
                     own[n] = own[i] /\ \A j \in DOMAIN own : n < j => own[j] # own[i]
  <2>1. own[i] = own[i] /\ \A j \in DOMAIN own : i < j => own[j] # own[i]
    BY <1>0, <1>3, Zenon
  <2>2. n \in DOMAIN own /\ own[n] = own[i]
    BY <2>1, Zenon
  <2>3. n = i
    <3> HIDE DEF n
    <3> QED
      BY <1>3, <2>2, Zenon
  <2>4. own[i] \in {own[j] : j \in DOMAIN own}
    BY Zenon
  <2>5. Placed(own, docs)[own[i]] = docs[n]
    BY <2>4, Zenon DEF Placed
  <2> QED
    BY <2>3, <2>5, Zenon
<1>6. \A i \in 1..Len(w.tasks) : Placed(own, docs)[w.tasks[i].key] = docs[i]
  BY <1>2, <1>5, Zenon
<1> QED
  BY <1>1, <1>4, <1>6, Zenon

-----------------------------------------------------------------------------
(* The steps.                                                               *)

\* The other clients' calls stay as they are.
LEMMA OtherCalls ==
    ASSUME DocsInv, NEW c \in Clients, Shape', \A d \in Clients : BaseWatched(d)',
           \A d \in Clients \ {c} : call'[d] = call[d], TapeReady(c)', AnsweredInOrder(c)'
    PROVE  DocsInv'
<1>1. ASSUME NEW d \in Clients \ {c}
      PROVE  TapeReady(d)' /\ AnsweredInOrder(d)'
  <2>1. call'[d] = call[d] /\ TapeReady(d) /\ AnsweredInOrder(d)
    BY Zenon DEF DocsInv
  <2>2. TapeReady(d)'
    BY <2>1, Zenon DEF TapeReady
  <2>3. AnsweredInOrder(d)'
    <3> DEFINE p == call[d]
               q == call'[d]
    <3>1. q = p /\ (p.at = "answered" =>
                       \A i \in 1..Len(p.tasks) :
                          p.answers[i] = GetValue(p.read[p.tasks[i].key], p.tasks[i].field))
      BY <2>1, Zenon DEF AnsweredInOrder
    <3> HIDE DEF p, q
    <3>2. q.at = "answered" =>
            \A i \in 1..Len(q.tasks) :
               q.answers[i] = GetValue(q.read[q.tasks[i].key], q.tasks[i].field)
      BY <3>1, Zenon
    <3> QED
      BY <3>2, Zenon DEF AnsweredInOrder, q, GetValue
  <2> QED
    BY <2>2, <2>3, Zenon
<1> QED
  BY <1>1, Zenon DEF DocsInv

LEMMA BeginKeeps ==
    ASSUME DocsInv, NEW c \in Clients, Begin(c)
    PROVE  DocsInv' /\ store' = store /\ call' = call /\ txn'[c].open = TRUE
           /\ ~txn[c].open /\ \A d \in Clients \ {c} : txn'[d] = txn[d]
<1>1. /\ txn' = [txn EXCEPT ![c] = Opened] /\ ~txn[c].open
      /\ store' = store /\ version' = version /\ call' = call
  BY Zenon DEF Begin
<1>2. Shape /\ DOMAIN txn = Clients
  BY Zenon DEF DocsInv, Shape
<1>3. txn'[c] = Opened /\ DOMAIN txn' = Clients /\ \A d \in Clients \ {c} : txn'[d] = txn[d]
  BY <1>1, <1>2, Zenon
<1>4. Shape'
  BY <1>1, <1>2, <1>3, Zenon DEF Shape
<1>5. /\ Opened.open = TRUE
      /\ DOMAIN Opened.changes = {} /\ DOMAIN Opened.watched = {} /\ DOMAIN Opened.base = {}
  BY SMT DEF Opened, Txn
<1>6. BaseWatched(c)'
  BY <1>3, <1>5, Zenon DEF BaseWatched
<1>7. \A d \in Clients \ {c} : BaseWatched(d)'
  <2>1. \A k \in Keys : store'[k] = store[k] /\ version'[k] = version[k]
    BY <1>1, Zenon
  <2> QED
    BY <1>2, <1>3, <1>4, <2>1, BaseStays, Zenon DEF DocsInv
<1>8. TapeReady(c)' /\ AnsweredInOrder(c)'
  BY <1>1, Zenon DEF DocsInv, TapeReady, AnsweredInOrder
<1>9. DocsInv'
  BY <1>1, <1>4, <1>6, <1>7, <1>8, OtherCalls, Zenon
<1> QED
  BY <1>1, <1>3, <1>5, <1>9, Zenon

LEMMA CommitKeeps ==
    ASSUME DocsInv, NEW c \in Clients, Commit(c)
    PROVE  /\ DocsInv' /\ call' = call
           /\ store' # store => Unchanged(c)
           /\ \A d \in Clients \ {c} : txn'[d] = txn[d]
<1>1. /\ txn' = [txn EXCEPT ![c] = Closed] /\ txn[c].open /\ call' = call
      /\ IF Unchanged(c) THEN Stores(txn[c].changes) ELSE store' = store /\ version' = version
  BY Zenon DEF Commit
<1>2. Shape /\ DOMAIN txn = Clients /\ DOMAIN txn[c].changes \subseteq Keys
  BY <1>1, Zenon DEF DocsInv, Shape, BaseWatched
<1>3. txn'[c] = Closed /\ DOMAIN txn' = Clients /\ \A d \in Clients \ {c} : txn'[d] = txn[d]
  BY <1>1, <1>2, Zenon
<1>4. /\ version' \in [Keys -> 0..MaxVersion] /\ DOMAIN store' = Keys
      /\ \A k \in Keys : version'[k] # 0 \/ store'[k] = Missing
      /\ \A k \in Keys : \/ store'[k] = store[k] /\ version'[k] = version[k]
                         \/ version[k] < version'[k]
  <2>1. CASE Unchanged(c)
    BY <1>1, <1>2, <2>1, StoresFacts, Zenon
  <2>2. CASE ~Unchanged(c)
    BY <1>1, <1>2, <2>2, Zenon DEF Shape
  <2> QED
    BY <2>1, <2>2, Zenon
<1>5. Shape'
  BY <1>1, <1>2, <1>3, <1>4, Zenon DEF Shape
<1>6. Closed.open = FALSE
  BY SMT DEF Closed, Txn
<1>7. BaseWatched(c)'
  BY <1>3, <1>6, Zenon DEF BaseWatched
<1>8. \A d \in Clients \ {c} : BaseWatched(d)'
  BY <1>2, <1>3, <1>4, <1>5, BaseStays, Zenon DEF DocsInv
<1>9. TapeReady(c)' /\ AnsweredInOrder(c)'
  BY <1>1, Zenon DEF DocsInv, TapeReady, AnsweredInOrder
<1>10. DocsInv'
  BY <1>1, <1>5, <1>7, <1>8, <1>9, OtherCalls, Zenon
<1> QED
  BY <1>1, <1>3, <1>10, Zenon

LEMMA IdleCall ==
    ASSUME NEW c \in Clients, NEW ok, call'[c] = Answered(ok)
    PROVE  /\ call'[c].at = "idle" /\ call'[c].ok = ok
           /\ TapeReady(c)' /\ AnsweredInOrder(c)'
<1>1. call'[c].at = "idle" /\ call'[c].ok = ok
  BY DEF Answered
<1>2. call'[c].at # "write" /\ call'[c].at # "answered"
  BY <1>1, SMT
<1> QED
  BY <1>1, <1>2, Zenon DEF TapeReady, AnsweredInOrder

\* What a callback leaves for a task, when the call goes on to write.
LEMMA TapeMade ==
    ASSUME NEW c \in Clients, NEW w \in Writes, Copies(c, w), AllOk(TapeOf(c, w)),
           NEW p, p.write = w, p.read = [k \in KeysOf(w.tasks) |-> Sees(c, k)],
           p.tape = [i \in DOMAIN TapeOf(c, w) |-> TapeOf(c, w)[i].val],
           NEW i \in 1..Len(w.tasks)
    PROVE  Updated(p, i)
<1> DEFINE task == w.tasks[i]
           doc == Sees(c, task.key)
           given == IF ReadsValues(w) THEN doc ELSE Missing
           parsed == Parse(task.content, w.format)
           done == TapeOf(c, w)
<1>1. DOMAIN done = 1..Len(w.tasks)
  BY Zenon DEF TapeOf
<1>2. done[i].ok /\ p.tape[i] = done[i].val
  <2>1. AllOk(done) /\ p.tape = [j \in DOMAIN done |-> done[j].val]
    BY Zenon
  <2> HIDE DEF done
  <2>2. i \in DOMAIN done
    BY <1>1, Zenon
  <2>3. done[i].ok
    BY <2>1, <2>2, Zenon DEF AllOk
  <2>4. p.tape[i] = done[i].val
    BY <2>1, <2>2, Zenon
  <2> QED
    BY <2>3, <2>4, Zenon
<1>3. done[i] = IF ~ReadsValues(w) /\ doc # Missing /\ w.how = "insert" THEN Failed(doc)
                ELSE Rewritten(given, task, w)
  BY Zenon DEF TapeOf
<1>4. Given(p.read, task, w) = given
  <2>1. task.key \in KeysOf(w.tasks)
    BY Zenon DEF KeysOf
  <2>2. p.read[task.key] = doc
    BY <2>1, Zenon
  <2> QED
    BY <2>2, Zenon DEF Given
<1>5. task.content = Missing => doc # Missing /\ ReadsValues(w)
  BY Zenon DEF Copies
<1> HIDE DEF task, doc, parsed, done
<1>6. \A x : ~Failed(x).ok /\ Ok(x).val = x
  BY DEF Failed, Ok
<1>7. done[i] = Rewritten(given, task, w)
  BY <1>2, <1>3, <1>6, Zenon
<1>8. CASE task.content = Missing
  <2>1. done[i] = Ok(doc)
    BY <1>5, <1>7, <1>8, Zenon DEF Rewritten
  <2>2. p.tape[i] = doc /\ doc # Missing /\ ReadsValues(w)
    BY <1>2, <1>5, <1>6, <1>8, <2>1, Zenon
  <2>3. Given(p.read, task, w) # Missing /\ p.tape[i] = Given(p.read, task, w)
    BY <1>4, <2>2, Zenon
  <2> QED
    BY <1>8, <2>3, Zenon DEF Updated, task
<1>9. CASE task.content # Missing
  <2>1. done[i] = IF parsed.ok THEN Modify(given, parsed.val, task.field, w.how)
                  ELSE Failed(given)
    BY <1>7, <1>9, Zenon DEF Rewritten, parsed
  <2>2. done[i] = Modify(given, parsed.val, task.field, w.how) /\ parsed.ok
    BY <1>2, <1>6, <2>1, ZenonT(60)
  <2> DEFINE made == Modify(Given(p.read, task, w), parsed.val, task.field, w.how)
  <2>3. made.ok /\ p.tape[i] = made.val
    BY <1>2, <1>4, <2>2, Zenon
  <2> QED
    BY <1>9, <2>2, <2>3, Zenon DEF Updated, task, parsed
<1> QED
  BY <1>8, <1>9, Zenon

LEMMA ReadModifyKeeps ==
    ASSUME DocsInv, NEW c \in Clients, NEW w \in Writes, ReadModify(c, w)
    PROVE  /\ DocsInv' /\ store' = store /\ call[c].at # "write"
           /\ \A d \in Clients : txn'[d].open = txn[d].open
           /\ \A d \in Clients \ {c} : call'[d] = call[d]
           /\ txn[c].open => txn'[c].changes = txn[c].changes
<1>1. /\ call[c].at # "write" /\ Copies(c, w)
      /\ Watch(c, KeysOf(w.tasks), ReadOptions(c, w), TRUE)
      /\ ReadsInto(c, w, TapeOf(c, w))
      /\ store' = store /\ version' = version
  BY Zenon DEF ReadModify, Calls, Returned
<1>2. /\ Shape /\ \A d \in Clients : BaseWatched(d)
      /\ DOMAIN txn = Clients /\ DOMAIN call = Clients
  BY Zenon DEF DocsInv, Shape
<1>3. /\ DOMAIN txn' = Clients
      /\ \A d \in Clients \ {c} : txn'[d] = txn[d]
      /\ txn'[c].open = txn[c].open
      /\ txn[c].open => txn'[c].changes = txn[c].changes
      /\ BaseWatched(c)'
  <2>1. KeysOf(w.tasks) \in SUBSET Keys
    BY KeysOfBatch, Zenon
  <2>2. txn[c].open => ~ReadOptions(c, w)
    BY Zenon DEF ReadOptions
  <2> QED
    BY <1>1, <1>2, <2>1, <2>2, WatchKeeps, Zenon
<1> DEFINE done == TapeOf(c, w)
           pending == [at |-> "write", write |-> w, ok |-> AllOk(done),
                       read |-> [k \in KeysOf(w.tasks) |-> Sees(c, k)],
                       tape |-> [i \in DOMAIN done |-> done[i].val]]
<1>4. call' = [call EXCEPT ![c] = IF Proceeds(done) THEN pending ELSE Answered(FALSE)]
  BY <1>1, Zenon DEF ReadsInto
<1> HIDE DEF pending, done
<1>5. /\ DOMAIN call' = Clients /\ \A d \in Clients \ {c} : call'[d] = call[d]
      /\ call'[c] = IF Proceeds(done) THEN pending ELSE Answered(FALSE)
  BY <1>2, <1>4, Zenon
<1>6. TapeReady(c)' /\ AnsweredInOrder(c)'
  <2>1. CASE ~Proceeds(done)
    <3>1. call'[c] = Answered(FALSE)
      BY <1>5, <2>1, Zenon
    <3> QED
      BY <3>1, IdleCall, Zenon
  <2>2. CASE Proceeds(done)
    <3>1. call'[c] = pending /\ AllOk(done)
      BY <1>5, <2>2, Zenon DEF Proceeds
    <3>2. /\ pending.at = "write" /\ pending.write = w
          /\ pending.read = [k \in KeysOf(w.tasks) |-> Sees(c, k)]
          /\ pending.tape = [i \in DOMAIN done |-> done[i].val]
      BY Zenon DEF pending
    <3>3. pending.ok = TRUE
      <4>1. AllOk(done) = TRUE
        BY <3>1, Zenon DEF AllOk
      <4> QED
        BY <4>1, Zenon DEF pending
    <3>4. DOMAIN done = 1..Len(w.tasks)
      BY Zenon DEF done, TapeOf
    <3>5. \A i \in 1..Len(w.tasks) : Updated(pending, i)
      BY <1>1, <3>1, <3>2, TapeMade, ZenonT(60) DEF done
    <3>6. DOMAIN pending.tape = 1..Len(w.tasks)
      BY <3>2, <3>4, Zenon
    <3>7. /\ call'[c].at = "write" /\ call'[c].ok = TRUE /\ call'[c].write = w
          /\ DOMAIN call'[c].tape = 1..Len(w.tasks)
          /\ \A i \in 1..Len(w.tasks) : Updated(call'[c], i)
      BY <3>1, <3>2, <3>3, <3>5, <3>6, Zenon
    <3>8. TapeReady(c)'
      BY <3>7, Zenon DEF TapeReady
    <3>9. call'[c].at # "answered"
      BY <3>7, SMT
    <3> QED
      BY <3>8, <3>9, Zenon DEF AnsweredInOrder
  <2> QED
    BY <2>1, <2>2, Zenon
<1>7. Shape'
  BY <1>1, <1>2, <1>3, <1>5, Zenon DEF Shape
<1>8. \A d \in Clients \ {c} : BaseWatched(d)'
  <2>1. \A k \in Keys : store'[k] = store[k] /\ version'[k] = version[k]
    BY <1>1, Zenon
  <2> QED
    BY <1>2, <1>3, <1>7, <2>1, BaseStays, Zenon
<1>9. DocsInv'
  BY <1>3, <1>5, <1>6, <1>7, <1>8, OtherCalls, Zenon
<1> QED
  BY <1>1, <1>3, <1>5, <1>9, Zenon

LEMMA WriteBackKeeps ==
    ASSUME DocsInv, NEW c \in Clients, WriteBack(c)
    PROVE  /\ DocsInv' /\ call[c].at = "write" /\ call'[c].ok = TRUE
           /\ \A d \in Clients : txn'[d].open = txn[d].open
           /\ \A d \in Clients \ {c} : call'[d] = call[d]
           /\ ~txn[c].open =>
                Stores(Placed(UniquePlaces(call[c].write.tasks), call[c].tape))
<1> DEFINE written == Placed(UniquePlaces(call[c].write.tasks), call[c].tape)
<1>1. /\ call[c].at = "write" /\ EngineWrite(c, written)
      /\ call' = [call EXCEPT ![c] = Answered(call[c].ok)]
  BY Zenon DEF WriteBack
<1>2. /\ Shape /\ \A d \in Clients : BaseWatched(d)
      /\ DOMAIN call = Clients
  BY Zenon DEF DocsInv, Shape
<1>3. call[c].ok = TRUE /\ call[c].write \in Writes
  BY <1>1, Zenon DEF DocsInv, TapeReady
<1>4. /\ DOMAIN call' = Clients /\ \A d \in Clients \ {c} : call'[d] = call[d]
      /\ call'[c] = Answered(TRUE)
  BY <1>1, <1>2, <1>3, Zenon
<1>5. DOMAIN written \subseteq Keys
  BY <1>3, PlacesKnown, Zenon
<1> HIDE DEF written
<1>6. /\ Shape'
      /\ \A d \in Clients : BaseWatched(d)' /\ txn'[d].open = txn[d].open
      /\ ~txn[c].open => Stores(written)
  BY <1>1, <1>2, <1>4, <1>5, EngineKeeps, Zenon
<1>7. call'[c].ok = TRUE /\ TapeReady(c)' /\ AnsweredInOrder(c)'
  BY <1>4, IdleCall, Zenon
<1>8. DocsInv'
  BY <1>4, <1>6, <1>7, OtherCalls, Zenon
<1> QED
  BY <1>1, <1>4, <1>6, <1>7, <1>8, Zenon DEF written

LEMMA WriteDirectKeeps ==
    ASSUME DocsInv, NEW c \in Clients, NEW w \in Writes, WriteDirect(c, w)
    PROVE  /\ DocsInv' /\ call[c].at # "write"
           /\ \A d \in Clients : txn'[d].open = txn[d].open
           /\ \A d \in Clients \ {c} : call'[d] = call[d]
           /\ call'[c].ok = TRUE \/ (store' = store /\ txn' = txn)
<1> DEFINE written == Placed([i \in 1..Len(w.tasks) |-> w.tasks[i].key],
                             [i \in 1..Len(w.tasks) |-> w.tasks[i].content])
           whole == \A i \in 1..Len(w.tasks) : w.tasks[i].content # Missing
<1>1. /\ call[c].at # "write"
      /\ IF whole
         THEN EngineWrite(c, written) /\ call' = [call EXCEPT ![c] = Answered(TRUE)]
         ELSE /\ call' = [call EXCEPT ![c] = Answered(FALSE)]
              /\ store' = store /\ version' = version /\ txn' = txn
  BY Zenon DEF WriteDirect, Calls, Returned
<1>2. /\ Shape /\ \A d \in Clients : BaseWatched(d)
      /\ DOMAIN call = Clients /\ DOMAIN txn = Clients
  BY Zenon DEF DocsInv, Shape
<1>3. DOMAIN written \subseteq Keys
  BY PlacesKnown, Zenon
<1> HIDE DEF written, whole
<1>4. /\ DOMAIN call' = Clients /\ \A d \in Clients \ {c} : call'[d] = call[d]
      /\ call'[c] = Answered(TRUE) \/ call'[c] = Answered(FALSE)
  BY <1>1, <1>2, Zenon
<1>5. TapeReady(c)' /\ AnsweredInOrder(c)'
  BY <1>4, IdleCall, Zenon
<1>6. CASE whole
  <2>1. EngineWrite(c, written) /\ call'[c] = Answered(TRUE)
    BY <1>1, <1>2, <1>6, Zenon
  <2>2. /\ Shape'
        /\ \A d \in Clients : BaseWatched(d)' /\ txn'[d].open = txn[d].open
    BY <1>2, <1>3, <1>4, <2>1, EngineKeeps, Zenon
  <2>3. call'[c].ok = TRUE
    BY <2>1, IdleCall, Zenon
  <2>4. DocsInv'
    BY <1>4, <1>5, <2>2, OtherCalls, Zenon
  <2> QED
    BY <1>1, <1>4, <2>2, <2>3, <2>4, Zenon
<1>7. CASE ~whole
  <2>1. store' = store /\ version' = version /\ txn' = txn
    BY <1>1, <1>7, Zenon
  <2>2. Shape'
    BY <1>2, <1>4, <2>1, Zenon DEF Shape
  <2>3. \A d \in Clients : BaseWatched(d)'
    <3>1. \A k \in Keys : store'[k] = store[k] /\ version'[k] = version[k]
      BY <2>1, Zenon
    <3> QED
      BY <1>2, <2>1, <2>2, <3>1, BaseStays, Zenon
  <2>4. DocsInv'
    BY <1>4, <1>5, <2>2, <2>3, OtherCalls, Zenon
  <2> QED
    BY <1>1, <1>4, <2>1, <2>4, Zenon
<1> QED
  BY <1>6, <1>7, Zenon

\* Every task finds its own document, also among the unique ones.
LEMMA FoundOwn ==
    ASSUME NEW c \in Clients, NEW r \in Reads, NEW i \in 1..Len(r.tasks)
    PROVE  FoundFor(c, r.tasks, i) = Sees(c, r.tasks[i].key)
<1> DEFINE S == KeysOf(r.tasks)
           k == r.tasks[i].key
           unique == UniqueKeys(r.tasks)
           found == [j \in DOMAIN unique |-> Sees(c, unique[j])]
           p == OffsetInSorted(unique, k) + 1
<1>1. S \in SUBSET Int /\ IsFiniteSet(S)
  BY KeysOfBatch, Zenon
<1>2. k \in S
  BY Zenon DEF KeysOf
<1>3. unique = Sorted(S)
  BY Zenon DEF UniqueKeys
<1> HIDE DEF S, k, unique
<1>4. p \in DOMAIN unique /\ unique[p] = k
  BY <1>1, <1>2, <1>3, OffsetFinds, Zenon
<1> HIDE DEF p
<1>5. found[p] = Sees(c, k)
  BY <1>4, Zenon
<1>6. FoundFor(c, r.tasks, i) = IF AllAscending(r.tasks) \/ Distinct(r.tasks)
                                THEN Sees(c, k) ELSE found[p]
  BY Zenon DEF FoundFor, p, unique, k
<1> QED
  BY <1>5, <1>6, Zenon DEF k

LEMMA DocsReadKeeps ==
    ASSUME DocsInv, NEW c \in Clients, NEW r \in Reads, DocsRead(c, r)
    PROVE  /\ DocsInv' /\ store' = store /\ call[c].at # "write" /\ call'[c].ok = TRUE
           /\ \A d \in Clients : txn'[d].open = txn[d].open
           /\ \A d \in Clients \ {c} : call'[d] = call[d]
<1> DEFINE answer == [at |-> "answered", ok |-> TRUE, tasks |-> r.tasks,
                      read |-> [k \in KeysOf(r.tasks) |-> Sees(c, k)],
                      answers |-> [i \in 1..Len(r.tasks) |->
                                     GetValue(FoundFor(c, r.tasks, i), r.tasks[i].field)]]
<1>1. /\ call[c].at # "write"
      /\ Watch(c, KeysOf(r.tasks), r.dont_watch, FALSE)
      /\ call' = [call EXCEPT ![c] = answer]
      /\ store' = store /\ version' = version
  BY Zenon DEF DocsRead, Calls, Returned
<1>2. /\ Shape /\ \A d \in Clients : BaseWatched(d)
      /\ DOMAIN txn = Clients /\ DOMAIN call = Clients
  BY Zenon DEF DocsInv, Shape
<1>3. /\ DOMAIN txn' = Clients
      /\ \A d \in Clients \ {c} : txn'[d] = txn[d]
      /\ txn'[c].open = txn[c].open
      /\ BaseWatched(c)'
  <2>1. KeysOf(r.tasks) \in SUBSET Keys
    BY KeysOfBatch, Zenon
  <2> QED
    BY <1>1, <1>2, <2>1, WatchKeeps, Zenon
<1>4. /\ answer.at = "answered" /\ answer.ok = TRUE /\ answer.tasks = r.tasks
      /\ answer.read = [k \in KeysOf(r.tasks) |-> Sees(c, k)]
      /\ answer.answers = [i \in 1..Len(r.tasks) |->
                             GetValue(FoundFor(c, r.tasks, i), r.tasks[i].field)]
  BY Zenon
<1> HIDE DEF answer
<1>5. /\ DOMAIN call' = Clients /\ \A d \in Clients \ {c} : call'[d] = call[d]
      /\ call'[c] = answer
  BY <1>1, <1>2, Zenon
<1>6. ASSUME NEW i \in 1..Len(r.tasks)
      PROVE  answer.answers[i] = GetValue(answer.read[r.tasks[i].key], r.tasks[i].field)
  <2>1. r.tasks[i].key \in KeysOf(r.tasks)
    BY Zenon DEF KeysOf
  <2>2. answer.read[r.tasks[i].key] = Sees(c, r.tasks[i].key)
    <3> DEFINE key == r.tasks[i].key
    <3>1. answer.read = [k \in KeysOf(r.tasks) |-> Sees(c, k)] /\ key \in KeysOf(r.tasks)
      BY <1>4, <2>1, Zenon
    <3> HIDE DEF key
    <3>2. answer.read[key] = Sees(c, key)
      BY <3>1, Zenon
    <3> QED
      BY <3>2, Zenon DEF key
  <2>3. answer.answers[i] = GetValue(FoundFor(c, r.tasks, i), r.tasks[i].field)
    BY <1>4, Zenon
  <2> QED
    BY <2>2, <2>3, FoundOwn, Zenon
<1>7. TapeReady(c)' /\ AnsweredInOrder(c)'
  <2>1. answer.at # "write"
    BY <1>4, SMT
  <2>2. call'[c].at # "write" /\ call'[c].tasks = r.tasks
    BY <1>4, <1>5, <2>1, Zenon
  <2>3. \A i \in 1..Len(r.tasks) :
          call'[c].answers[i] = GetValue(call'[c].read[r.tasks[i].key], r.tasks[i].field)
    BY <1>5, <1>6, Zenon
  <2>4. \A i \in 1..Len(call'[c].tasks) :
          call'[c].answers[i] = GetValue(call'[c].read[call'[c].tasks[i].key],
                                         call'[c].tasks[i].field)
    BY <2>2, <2>3, Zenon
  <2>5. AnsweredInOrder(c)'
    BY <2>4, Zenon DEF AnsweredInOrder, GetValue
  <2> QED
    BY <2>2, <2>5, Zenon DEF TapeReady
<1>8. Shape'
  BY <1>1, <1>2, <1>3, <1>5, Zenon DEF Shape
<1>9. \A d \in Clients \ {c} : BaseWatched(d)'
  <2>1. \A k \in Keys : store'[k] = store[k] /\ version'[k] = version[k]
    BY <1>1, Zenon
  <2> QED
    BY <1>2, <1>3, <1>8, <2>1, BaseStays, Zenon
<1>10. DocsInv'
  BY <1>3, <1>5, <1>7, <1>8, <1>9, OtherCalls, Zenon
<1>11. call'[c].ok = TRUE
  BY <1>4, <1>5, Zenon
<1> QED
  BY <1>1, <1>3, <1>5, <1>10, <1>11, Zenon

-----------------------------------------------------------------------------
(* The invariant and the theorems.                                          *)

LEMMA DocsInvInit == DocsInit => DocsInv
<1> SUFFICES ASSUME DocsInit PROVE DocsInv
  BY Zenon
<1>1. /\ store = [k \in Keys |-> Missing] /\ version = [k \in Keys |-> 0]
      /\ txn = [c \in Clients |-> Closed] /\ call = [c \in Clients |-> Answered(TRUE)]
  BY Zenon DEF DocsInit
<1>2. Shape
  <2>1. 0 \in 0..MaxVersion
    BY CallsAssumption, SMT
  <2> QED
    BY <1>1, <2>1, Zenon DEF Shape
<1>3. Closed.open = FALSE /\ Answered(TRUE).at = "idle"
  BY DEF Closed, Txn, Answered
<1>4. \A c \in Clients : txn[c].open = FALSE /\ call[c].at = "idle"
  BY <1>1, <1>3, Zenon
<1>5. "idle" # "write" /\ "idle" # "answered"
  BY SMT
<1>6. \A c \in Clients : BaseWatched(c) /\ TapeReady(c) /\ AnsweredInOrder(c)
  BY <1>4, <1>5, Zenon DEF BaseWatched, TapeReady, AnsweredInOrder
<1> QED
  BY <1>2, <1>6, Zenon DEF DocsInv

LEMMA DocsInvStutter ==
    ASSUME DocsInv, UNCHANGED docsVars
    PROVE  DocsInv'
<1>1. store' = store /\ version' = version /\ txn' = txn /\ call' = call
  BY Zenon DEF docsVars
<1>2. Shape'
  BY <1>1, Zenon DEF DocsInv, Shape
<1>3. \A c \in Clients : BaseWatched(c)'
  <2>1. \A k \in Keys : store'[k] = store[k] /\ version'[k] = version[k]
    BY <1>1, Zenon
  <2> QED
    BY <1>1, <1>2, <2>1, BaseStays, Zenon DEF DocsInv
<1>4. CASE Clients = {}
  BY <1>2, <1>4, Zenon DEF DocsInv
<1>5. CASE Clients # {}
  <2>1. PICK c \in Clients : TRUE
    BY <1>5, Zenon
  <2>2. TapeReady(c)' /\ AnsweredInOrder(c)'
    BY <1>1, Zenon DEF DocsInv, TapeReady, AnsweredInOrder
  <2> QED
    BY <1>1, <1>2, <1>3, <2>2, OtherCalls, Zenon
<1> QED
  BY <1>4, <1>5, Zenon

LEMMA DocsInvNext == DocsInv /\ [DocsNext]_docsVars => DocsInv'
<1>1. ASSUME DocsInv, DocsNext
      PROVE  DocsInv'
  <2>1. PICK c \in Clients : \/ Begin(c) \/ Commit(c) \/ WriteBack(c)
                             \/ \E w \in Writes : ReadModify(c, w) \/ WriteDirect(c, w)
                             \/ \E r \in Reads : DocsRead(c, r)
    BY <1>1, Zenon DEF DocsNext
  <2> QED
    BY <1>1, <2>1, BeginKeeps, CommitKeeps, WriteBackKeeps, ReadModifyKeeps,
       WriteDirectKeeps, DocsReadKeeps, Zenon
<1> QED
  BY <1>1, DocsInvStutter, Zenon

LEMMA DocsInvariance == DocsSpec => []DocsInv
<1> QED
  BY DocsInvInit, DocsInvNext, PTL DEF DocsSpec

\* Every task of a read is answered from its own document, in the order of
\* the tasks, however the keys repeat and whatever their order: the join of
\* read_modify_docs with the sorted unique keys finds the right one.
THEOREM ReadsAnsweredInOrder == DocsSpec => []ReadsInOrder
<1>1. DocsInv => ReadsInOrder
  BY Zenon DEF DocsInv, ReadsInOrder
<1> QED
  BY <1>1, DocsInvariance, PTL

-----------------------------------------------------------------------------
(* What is stored are documents.                                            *)

\* The store, the open transactions and the pending writes hold members of D.
Documents(D) ==
    /\ \A k \in Keys : store[k] \in D
    /\ \A c \in Clients :
         /\ txn[c].open => \A k \in DOMAIN txn[c].changes : txn[c].changes[k] \in D
         /\ call[c].at = "write" =>
              \A k \in KeysOf(call[c].write.tasks) : call[c].read[k] \in D

\* The place of a document is one that was asked for.
LEMMA PlacedFrom ==
    ASSUME NEW n \in Nat, NEW places, DOMAIN places = 1..n, NEW docs, NEW D,
           \A i \in 1..n : docs[i] \in D
    PROVE  \A k \in DOMAIN Placed(places, docs) : Placed(places, docs)[k] \in D
<1> SUFFICES ASSUME NEW k \in DOMAIN Placed(places, docs)
             PROVE  Placed(places, docs)[k] \in D
  BY Zenon
<1> DEFINE S == {i \in 1..n : places[i] = k}
           Last(i) == places[i] = k /\ \A j \in DOMAIN places : i < j => places[j] # k
<1>1. k \in {places[i] : i \in DOMAIN places}
  BY Zenon DEF Placed
<1>2. S # {} /\ S \in SUBSET Int /\ S \subseteq 1..n
  BY <1>1, SMT
<1>3. IsFiniteSet(1..n)
  BY FS_Interval, SMT
<1>4. IsFiniteSet(S)
  BY <1>2, <1>3, FS_Subset, Zenon
<1>5. PICK m \in S : \A i \in S : i <= m
  <2> HIDE DEF S
  <2> QED
    BY <1>2, <1>4, LargestExists, Zenon
<1>6. m \in DOMAIN places /\ Last(m)
  BY <1>5, SMT
<1>7. Placed(places, docs)[k] = docs[CHOOSE i \in DOMAIN places : Last(i)]
  BY <1>1, Zenon DEF Placed
<1> HIDE DEF Last
<1>8. (CHOOSE i \in DOMAIN places : Last(i)) \in DOMAIN places
  BY <1>6, Zenon
<1> QED
  BY <1>7, <1>8, Zenon

\* There are no more unique places than tasks.
LEMMA PlacesWithin ==
    ASSUME NEW w \in Writes
    PROVE  \E n \in Nat : n <= Len(w.tasks) /\ DOMAIN UniquePlaces(w.tasks) = 1..n
<1> DEFINE n == Len(w.tasks)
           f == [i \in 1..n |-> w.tasks[i].key]
           keys == KeysOf(w.tasks)
<1>1. n \in Nat /\ keys \in SUBSET Int /\ IsFiniteSet(keys)
  BY KeysOfBatch, Zenon
<1>2. CASE AllAscending(w.tasks) \/ Distinct(w.tasks)
  <2>1. DOMAIN UniquePlaces(w.tasks) = 1..n
    BY <1>2, Zenon DEF UniquePlaces
  <2>2. n <= n
    BY <1>1, SMT
  <2> QED
    BY <1>1, <2>1, <2>2, Zenon
<1>3. CASE ~(AllAscending(w.tasks) \/ Distinct(w.tasks))
  <2>1. f \in Surjection(1..n, keys)
    BY Zenon DEF KeysOf, Surjection
  <2>2. IsFiniteSet(1..n) /\ Cardinality(1..n) = n
    <3> HIDE DEF n
    <3>1. 1 \in Int /\ n \in Int
      BY <1>1, SMT
    <3>2. IsFiniteSet(1..n) /\ Cardinality(1..n) = IF 1 > n THEN 0 ELSE n - 1 + 1
      BY <3>1, FS_Interval, Zenon
    <3> QED
      BY <1>1, <3>2, SMT
  <2>3. Cardinality(keys) <= Cardinality(1..n)
    <3> HIDE DEF f, keys, n
    <3> QED
      BY <2>1, <2>2, FS_Surjection, Zenon
  <2>4. Cardinality(keys) \in Nat /\ Cardinality(keys) <= n
    BY <1>1, <2>2, <2>3, FS_CardinalityType, Zenon
  <2>5. IsSorted(Sorted(keys), keys)
    <3> HIDE DEF keys
    <3> QED
      BY <1>1, SortedIsSorted, Zenon
  <2>6. UniquePlaces(w.tasks) = Sorted(keys)
    BY <1>3, Zenon DEF UniquePlaces, UniqueKeys
  <2>7. DOMAIN Sorted(keys) = 1..Cardinality(keys)
    BY <2>5, Zenon DEF IsSorted
  <2> QED
    BY <2>4, <2>6, <2>7, Zenon
<1> QED
  BY <1>2, <1>3, Zenon

\* A client sees documents.
LEMMA SeesDocuments ==
    ASSUME NEW D, Documents(D), NEW c \in Clients, NEW k \in Keys
    PROVE  Sees(c, k) \in D
BY Zenon DEF Documents, Sees

\* The tape of a pending write has a document for every task.
LEMMA TapeHasDocuments ==
    ASSUME NEW D, MakesDocuments(D), DocsInv, Documents(D), NEW c \in Clients,
           call[c].at = "write"
    PROVE  \A i \in 1..Len(call[c].write.tasks) : call[c].tape[i] \in D \ {Missing}
<1> DEFINE p == call[c]
           w == call[c].write
<1> SUFFICES ASSUME NEW i \in 1..Len(w.tasks) PROVE p.tape[i] \in D \ {Missing}
  BY Zenon
<1> DEFINE task == w.tasks[i]
           parsed == Parse(task.content, w.format)
           given == Given(p.read, task, w)
           made == Modify(given, parsed.val, task.field, w.how)
<1>1. w \in Writes /\ DOMAIN p.tape = 1..Len(w.tasks)
      /\ \A j \in DOMAIN p.tape : Updated(p, j)
  BY Zenon DEF DocsInv, TapeReady
<1>2. IF task.content = Missing THEN given # Missing /\ p.tape[i] = given
      ELSE parsed.ok /\ made.ok /\ p.tape[i] = made.val
  BY <1>1, Zenon DEF Updated
<1>3. given \in D
  <2>1. task.key \in KeysOf(w.tasks)
    BY Zenon DEF KeysOf
  <2>2. p.read[task.key] \in D
    BY <2>1, Zenon DEF Documents
  <2> QED
    BY <2>2, Zenon DEF Given, MakesDocuments
<1>4. task.content # Missing /\ parsed.ok =>
         \A d \in D : Modify(d, parsed.val, task.field, w.how).ok =>
                         Modify(d, parsed.val, task.field, w.how).val \in D \ {Missing}
  BY <1>1, Zenon DEF MakesDocuments
<1> HIDE DEF given, task, parsed
<1> QED
  BY <1>2, <1>3, <1>4, Zenon

\* ukv_write of documents.
LEMMA WritesDocuments ==
    ASSUME NEW D, Shape, \A d \in Clients : BaseWatched(d), Documents(D),
           NEW c \in Clients, NEW written, DOMAIN written \subseteq Keys,
           \A k \in DOMAIN written : written[k] \in D, EngineWrite(c, written),
           \A d \in Clients \ {c} : call'[d] = call[d], call'[c].at = "idle"
    PROVE  Documents(D)'
<1>1. "idle" # "write"
  BY SMT
<1>2. \A d \in Clients : call'[d].at = "write" => d # c /\ call'[d] = call[d]
  BY <1>1, Zenon
<1>3. \A d \in Clients : call'[d].at = "write" =>
         \A k \in KeysOf(call'[d].write.tasks) : call'[d].read[k] \in D
  BY <1>2, Zenon DEF Documents
<1>4. CASE ~txn[c].open
  <2>1. Stores(written) /\ txn' = txn
    BY <1>4, Zenon DEF EngineWrite
  <2>2. \A k \in Keys : store'[k] \in D
    <3>1. /\ \A k \in DOMAIN written : store'[k] = written[k]
          /\ \A k \in Keys \ DOMAIN written : store'[k] = store[k]
      BY <2>1, StoresFacts, Zenon
    <3> QED
      BY <3>1, Zenon DEF Documents
  <2> QED
    BY <1>3, <2>1, <2>2, Zenon DEF Documents
<1>5. CASE txn[c].open
  <2>1. /\ txn' = [txn EXCEPT ![c] = Txn(TRUE, txn[c].watched, Over(txn[c].changes, written),
                                         txn[c].base)]
        /\ store' = store /\ DOMAIN txn = Clients
    BY <1>5, Zenon DEF EngineWrite, Shape
  <2>2. \A d \in Clients \ {c} : txn'[d] = txn[d]
    BY <2>1, Zenon
  <2>3. txn'[c] = Txn(TRUE, txn[c].watched, Over(txn[c].changes, written), txn[c].base)
    BY <2>1, Zenon
  <2>4. txn'[c].changes = Under(written, txn[c].changes)
    BY <2>3 DEF Txn, Over
  <2>5. \A k \in DOMAIN txn[c].changes : txn[c].changes[k] \in D
    BY <1>5, Zenon DEF Documents
  <2>6. \A k \in DOMAIN Under(written, txn[c].changes) :
           Under(written, txn[c].changes)[k] \in D
    <3> DEFINE old == txn[c].changes
    <3>1. /\ DOMAIN Under(written, old) = DOMAIN written \cup DOMAIN old
          /\ \A k \in DOMAIN written : Under(written, old)[k] = written[k]
          /\ \A k \in DOMAIN old \ DOMAIN written : Under(written, old)[k] = old[k]
      BY UnderFacts, ZenonT(60)
    <3> QED
      BY <2>5, <3>1, Zenon
  <2>7. \A d \in Clients : txn'[d].open =>
           \A k \in DOMAIN txn'[d].changes : txn'[d].changes[k] \in D
    <3>1. \A k \in DOMAIN txn'[c].changes : txn'[c].changes[k] \in D
      BY <2>4, <2>6, Zenon
    <3> QED
      BY <2>2, <3>1, Zenon DEF Documents
  <2>8. \A k \in Keys : store'[k] \in D
    BY <2>1, Zenon DEF Documents
  <2> QED
    BY <1>3, <2>7, <2>8, Zenon DEF Documents
<1> QED
  BY <1>4, <1>5, Zenon

\* A step that only reads, or begins a transaction.
LEMMA ReadsDocuments ==
    ASSUME NEW D, Documents(D), NEW c \in Clients, store' = store,
           \A d \in Clients \ {c} : call'[d] = call[d] /\ txn'[d] = txn[d],
           txn'[c].open => \A k \in DOMAIN txn'[c].changes : txn'[c].changes[k] \in D,
           call'[c].at = "write" =>
              \A k \in KeysOf(call'[c].write.tasks) : call'[c].read[k] \in D
    PROVE  Documents(D)'
<1>1. \A k \in Keys : store'[k] \in D
  BY Zenon DEF Documents
<1>2. \A d \in Clients : txn'[d].open =>
         \A k \in DOMAIN txn'[d].changes : txn'[d].changes[k] \in D
  BY Zenon DEF Documents
<1>3. \A d \in Clients : call'[d].at = "write" =>
         \A k \in KeysOf(call'[d].write.tasks) : call'[d].read[k] \in D
  BY Zenon DEF Documents
<1> QED
  BY <1>1, <1>2, <1>3, Zenon DEF Documents

\* ukv_read leaves the changes of transactions.
LEMMA WatchChanges ==
    ASSUME Shape, NEW c \in Clients, NEW ks, NEW dont_watch, NEW rewrite,
           Watch(c, ks, dont_watch, rewrite)
    PROVE  /\ \A d \in Clients \ {c} : txn'[d] = txn[d]
           /\ txn'[c].open = txn[c].open
           /\ txn[c].open => txn'[c].changes = txn[c].changes
<1>0. DOMAIN txn = Clients
  BY Zenon DEF Shape
<1>1. CASE ~txn[c].open
  BY <1>1, Zenon DEF Watch
<1>2. CASE txn[c].open
  <2>1. PICK seen, base :
           txn' = [txn EXCEPT ![c] = Txn(TRUE, seen, txn[c].changes, base)]
    BY <1>2, Zenon DEF Watch
  <2>2. txn'[c] = Txn(TRUE, seen, txn[c].changes, base)
        /\ \A d \in Clients \ {c} : txn'[d] = txn[d]
    BY <1>0, <2>1, Zenon
  <2>3. txn'[c].open = TRUE /\ txn'[c].changes = txn[c].changes
    BY <2>2 DEF Txn
  <2> QED
    BY <1>2, <2>2, <2>3, Zenon
<1> QED
  BY <1>1, <1>2, Zenon

LEMMA DocumentsNext ==
    ASSUME NEW D, MakesDocuments(D), DocsInv, Documents(D), DocsNext
    PROVE  Documents(D)'
<1>0. Shape /\ DOMAIN txn = Clients /\ DOMAIN call = Clients /\ \A d \in Clients : BaseWatched(d)
  BY Zenon DEF DocsInv, Shape
<1>1. ASSUME NEW c \in Clients, Begin(c) PROVE Documents(D)'
  <2>1. /\ txn'[c] = Opened /\ store' = store /\ call' = call
        /\ \A d \in Clients \ {c} : txn'[d] = txn[d]
    BY <1>0, <1>1, Zenon DEF Begin
  <2>2. DOMAIN Opened.changes = {}
    BY SMT DEF Opened, Txn
  <2>3. \A k \in DOMAIN txn'[c].changes : txn'[c].changes[k] \in D
    BY <2>1, <2>2, Zenon
  <2>4. call'[c].at = "write" =>
           \A k \in KeysOf(call'[c].write.tasks) : call'[c].read[k] \in D
    BY <2>1, Zenon DEF Documents
  <2>5. \A d \in Clients \ {c} : call'[d] = call[d] /\ txn'[d] = txn[d]
    BY <2>1, Zenon
  <2> QED
    BY <2>1, <2>3, <2>4, <2>5, ReadsDocuments, Zenon
<1>2. ASSUME NEW c \in Clients, Commit(c) PROVE Documents(D)'
  <2>1. /\ txn[c].open /\ txn'[c] = Closed /\ call' = call
        /\ \A d \in Clients \ {c} : txn'[d] = txn[d]
        /\ IF Unchanged(c) THEN Stores(txn[c].changes) ELSE store' = store /\ version' = version
    BY <1>0, <1>2, Zenon DEF Commit
  <2>2. /\ DOMAIN txn[c].changes \subseteq Keys
        /\ \A k \in DOMAIN txn[c].changes : txn[c].changes[k] \in D
    BY <1>0, <2>1, Zenon DEF BaseWatched, Documents
  <2>3. \A k \in Keys : store'[k] \in D
    <3>1. CASE Unchanged(c)
      <4>1. /\ \A k \in DOMAIN txn[c].changes : store'[k] = txn[c].changes[k]
            /\ \A k \in Keys \ DOMAIN txn[c].changes : store'[k] = store[k]
        BY <1>0, <2>1, <2>2, <3>1, StoresFacts, Zenon
      <4> QED
        BY <2>2, <4>1, Zenon DEF Documents
    <3>2. CASE ~Unchanged(c)
      BY <2>1, <3>2, Zenon DEF Documents
    <3> QED
      BY <3>1, <3>2, Zenon
  <2>4. Closed.open = FALSE
    BY SMT DEF Closed, Txn
  <2>5. \A d \in Clients : txn'[d].open => d # c /\ txn'[d] = txn[d]
    BY <2>1, <2>4, Zenon
  <2>6. \A d \in Clients : txn'[d].open =>
           \A k \in DOMAIN txn'[d].changes : txn'[d].changes[k] \in D
    BY <2>5, Zenon DEF Documents
  <2>7. \A d \in Clients : call'[d].at = "write" =>
           \A k \in KeysOf(call'[d].write.tasks) : call'[d].read[k] \in D
    BY <2>1, Zenon DEF Documents
  <2> QED
    BY <2>3, <2>6, <2>7, Zenon DEF Documents
<1>3. ASSUME NEW c \in Clients, WriteBack(c) PROVE Documents(D)'
  <2> DEFINE w == call[c].write
             written == Placed(UniquePlaces(w.tasks), call[c].tape)
  <2>1. /\ call[c].at = "write" /\ EngineWrite(c, written)
        /\ call' = [call EXCEPT ![c] = Answered(call[c].ok)]
    BY <1>3, Zenon DEF WriteBack
  <2>2. w \in Writes
    BY <2>1, Zenon DEF DocsInv, TapeReady
  <2>3. PICK n \in Nat : n <= Len(w.tasks) /\ DOMAIN UniquePlaces(w.tasks) = 1..n
    BY <2>2, PlacesWithin, Zenon
  <2>4. Len(w.tasks) \in Nat
    BY <2>2, KeysOfBatch, Zenon
  <2>5. \A i \in 1..Len(w.tasks) : call[c].tape[i] \in D
    BY <2>1, TapeHasDocuments, Zenon
  <2>6. \A i \in 1..n : i \in 1..Len(w.tasks)
    BY <2>3, <2>4, SMT
  <2>7. \A i \in 1..n : call[c].tape[i] \in D
    BY <2>5, <2>6, Zenon
  <2>8. \A k \in DOMAIN written : written[k] \in D
    BY <2>3, <2>7, PlacedFrom, Zenon
  <2>9. DOMAIN written \subseteq Keys
    BY <2>2, PlacesKnown, Zenon
  <2>10. call'[c] = Answered(call[c].ok) /\ \A d \in Clients \ {c} : call'[d] = call[d]
    BY <1>0, <2>1, Zenon
  <2>11. call'[c].at = "idle"
    BY <2>10, IdleCall, Zenon
  <2> HIDE DEF written
  <2> QED
    BY <1>0, <2>1, <2>8, <2>9, <2>10, <2>11, WritesDocuments, Zenon
<1>4. ASSUME NEW c \in Clients, NEW w \in Writes, ReadModify(c, w) PROVE Documents(D)'
  <2>1. /\ Watch(c, KeysOf(w.tasks), ReadOptions(c, w), TRUE)
        /\ ReadsInto(c, w, TapeOf(c, w)) /\ store' = store
    BY <1>4, Zenon DEF ReadModify
  <2>2. /\ \A d \in Clients \ {c} : txn'[d] = txn[d]
        /\ txn'[c].open = txn[c].open
        /\ txn[c].open => txn'[c].changes = txn[c].changes
    BY <1>0, <2>1, WatchChanges, Zenon
  <2>3. txn'[c].open => \A k \in DOMAIN txn'[c].changes : txn'[c].changes[k] \in D
    BY <2>2, Zenon DEF Documents
  <2> DEFINE done == TapeOf(c, w)
             pending == [at |-> "write", write |-> w, ok |-> AllOk(done),
                         read |-> [k \in KeysOf(w.tasks) |-> Sees(c, k)],
                         tape |-> [i \in DOMAIN done |-> done[i].val]]
  <2>4. call' = [call EXCEPT ![c] = IF Proceeds(done) THEN pending ELSE Answered(FALSE)]
    BY <2>1, Zenon DEF ReadsInto
  <2>5. pending.write = w /\ pending.read = [k \in KeysOf(w.tasks) |-> Sees(c, k)]
    BY Zenon
  <2> HIDE DEF pending, done
  <2>6. /\ \A d \in Clients \ {c} : call'[d] = call[d]
        /\ call'[c] = pending \/ call'[c] = Answered(FALSE)
    BY <1>0, <2>4, Zenon
  <2>7. call'[c].at = "write" => call'[c] = pending
    <3>1. Answered(FALSE).at = "idle" /\ "idle" # "write"
      BY SMT DEF Answered
    <3> QED
      BY <2>6, <3>1, Zenon
  <2>8. \A k \in KeysOf(w.tasks) : pending.read[k] \in D
    <3>1. KeysOf(w.tasks) \subseteq Keys
      BY KeysOfBatch, Zenon
    <3> QED
      BY <2>5, <3>1, SeesDocuments, Zenon
  <2>9. call'[c].at = "write" =>
           \A k \in KeysOf(call'[c].write.tasks) : call'[c].read[k] \in D
    BY <2>5, <2>7, <2>8, Zenon
  <2>10. \A d \in Clients \ {c} : call'[d] = call[d] /\ txn'[d] = txn[d]
    BY <2>2, <2>6, Zenon
  <2> QED
    BY <2>1, <2>3, <2>9, <2>10, ReadsDocuments, Zenon
<1>5. ASSUME NEW c \in Clients, NEW w \in Writes, WriteDirect(c, w) PROVE Documents(D)'
  <2> DEFINE places == [i \in 1..Len(w.tasks) |-> w.tasks[i].key]
             docs == [i \in 1..Len(w.tasks) |-> w.tasks[i].content]
             written == Placed(places, docs)
  <2>1. /\ IsDirect(w)
        /\ \/ EngineWrite(c, written) /\ call' = [call EXCEPT ![c] = Answered(TRUE)]
           \/ store' = store /\ txn' = txn /\ call' = [call EXCEPT ![c] = Answered(FALSE)]
    BY <1>5, Zenon DEF WriteDirect
  <2>2. PICK ok : call'[c] = Answered(ok)
    BY <1>0, <2>1, Zenon
  <2>3. call'[c].at = "idle" /\ \A d \in Clients \ {c} : call'[d] = call[d]
    BY <1>0, <2>1, <2>2, IdleCall, Zenon
  <2>4. Len(w.tasks) \in Nat /\ DOMAIN written \subseteq Keys
    BY KeysOfBatch, PlacesKnown, Zenon
  <2>5. \A i \in 1..Len(w.tasks) : w.tasks[i].content \in D
    BY <2>1, Zenon DEF MakesDocuments
  <2>6. \A k \in DOMAIN written : written[k] \in D
    <3>1. DOMAIN places = 1..Len(w.tasks) /\ \A i \in 1..Len(w.tasks) : docs[i] \in D
      BY <2>5, Zenon
    <3> HIDE DEF places, docs
    <3> QED
      BY <2>4, <3>1, PlacedFrom, Zenon
  <2> HIDE DEF written
  <2>7. CASE EngineWrite(c, written)
    BY <1>0, <2>3, <2>4, <2>6, <2>7, WritesDocuments, Zenon
  <2>8. CASE store' = store /\ txn' = txn
    <3>1. "idle" # "write"
      BY SMT
    <3>2. txn'[c].open => \A k \in DOMAIN txn'[c].changes : txn'[c].changes[k] \in D
      BY <2>8, Zenon DEF Documents
    <3>3. \A d \in Clients \ {c} : call'[d] = call[d] /\ txn'[d] = txn[d]
      BY <2>3, <2>8, Zenon
    <3>4. call'[c].at # "write"
      BY <2>3, <3>1, Zenon
    <3> QED
      BY <2>8, <3>2, <3>3, <3>4, ReadsDocuments, Zenon
  <2> QED
    BY <2>1, <2>7, <2>8, Zenon
<1>6. ASSUME NEW c \in Clients, NEW r \in Reads, DocsRead(c, r) PROVE Documents(D)'
  <2> DEFINE answer == [at |-> "answered", ok |-> TRUE, tasks |-> r.tasks,
                        read |-> [k \in KeysOf(r.tasks) |-> Sees(c, k)],
                        answers |-> [i \in 1..Len(r.tasks) |->
                                       GetValue(FoundFor(c, r.tasks, i), r.tasks[i].field)]]
  <2>1. /\ Watch(c, KeysOf(r.tasks), r.dont_watch, FALSE)
        /\ call' = [call EXCEPT ![c] = answer] /\ store' = store
    BY <1>6, Zenon DEF DocsRead
  <2>2. answer.at = "answered" /\ "answered" # "write"
    BY SMT
  <2> HIDE DEF answer
  <2>3. call'[c] = answer /\ \A d \in Clients \ {c} : call'[d] = call[d]
    BY <1>0, <2>1, Zenon
  <2>4. /\ \A d \in Clients \ {c} : txn'[d] = txn[d]
        /\ txn'[c].open = txn[c].open
        /\ txn[c].open => txn'[c].changes = txn[c].changes
    BY <1>0, <2>1, WatchChanges, Zenon
  <2>5. txn'[c].open => \A k \in DOMAIN txn'[c].changes : txn'[c].changes[k] \in D
    BY <2>4, Zenon DEF Documents
  <2>6. call'[c].at # "write"
    BY <2>2, <2>3, Zenon
  <2>7. \A d \in Clients \ {c} : call'[d] = call[d] /\ txn'[d] = txn[d]
    BY <2>3, <2>4, Zenon
  <2> QED
    BY <2>1, <2>5, <2>6, <2>7, ReadsDocuments, Zenon
<1> QED
  BY <1>1, <1>2, <1>3, <1>4, <1>5, <1>6, Zenon DEF DocsNext

\* The calls keep their shape and reads are answered in order.  In particular
\* the tape of a pending ukv_write has a document for every task, if modify
\* makes documents of documents.
THEOREM ReadsAreRight ==
    ASSUME NEW D, MakesDocuments(D)
    PROVE  DocsSpec => []ReadsRight
<1> DEFINE Inv == DocsInv /\ Documents(D)
<1>1. DocsInit => Inv
  <2> SUFFICES ASSUME DocsInit PROVE Documents(D)
    BY DocsInvInit, Zenon
  <2>1. Closed.open = FALSE /\ Answered(TRUE).at = "idle" /\ "idle" # "write"
    BY SMT DEF Closed, Txn, Answered
  <2>2. \A c \in Clients : txn[c].open = FALSE /\ call[c].at # "write"
    BY <2>1, Zenon DEF DocsInit
  <2>3. \A k \in Keys : store[k] \in D
    BY Zenon DEF DocsInit, MakesDocuments
  <2> QED
    BY <2>2, <2>3, Zenon DEF Documents
<1>2. Inv /\ [DocsNext]_docsVars => Inv'
  <2>1. ASSUME Inv, UNCHANGED docsVars PROVE Documents(D)'
    BY <2>1, Zenon DEF docsVars, Documents
  <2> QED
    BY <2>1, DocsInvNext, DocumentsNext, Zenon
<1>3. Inv => ReadsRight
  <2> SUFFICES ASSUME Inv PROVE ReadsRight
    BY Zenon
  <2>1. /\ Shape
        /\ \A c \in Clients : BaseWatched(c) /\ TapeReady(c) /\ AnsweredInOrder(c)
    BY Zenon DEF DocsInv
  <2>2. ASSUME NEW c \in Clients, call[c].at = "write"
        PROVE  /\ DOMAIN call[c].tape = 1..Len(call[c].write.tasks)
               /\ \A i \in DOMAIN call[c].tape : call[c].tape[i] # Missing
    <3>1. DOMAIN call[c].tape = 1..Len(call[c].write.tasks)
      BY <2>1, <2>2, Zenon DEF TapeReady
    <3>2. \A i \in 1..Len(call[c].write.tasks) : call[c].tape[i] \in D \ {Missing}
      BY <2>2, TapeHasDocuments, Zenon
    <3> QED
      BY <3>1, <3>2, Zenon
  <2>3. ASSUME NEW c \in Clients, txn[c].open
        PROVE  DOMAIN txn[c].changes \cup DOMAIN txn[c].watched \subseteq Keys
    BY <2>1, <2>3, Zenon DEF BaseWatched
  <2>4. TypeOK
    BY <2>1, <2>2, <2>3, Zenon DEF Shape, TypeOK
  <2> QED
    BY <2>1, <2>4, Zenon DEF ReadsRight, ReadsInOrder
<1> QED
  BY <1>1, <1>2, <1>3, PTL DEF DocsSpec

-----------------------------------------------------------------------------
(* Rewrites and batches.                                                    *)

\* A transaction that rewrote documents commits only while they are the ones
\* it started from: the watched version of read_modify_write stands for the
\* document, whatever the other clients write in between.
THEOREM RewritesStayFresh == DocsSpec => RewritesFresh
<1>1. ASSUME DocsInv, DocsNext, NEW c \in Clients, txn[c].open, ~txn'[c].open, store' # store,
             NEW k \in DOMAIN txn[c].base
      PROVE  store[k] = txn[c].base[k]
  <2>1. PICK d \in Clients : \/ Begin(d) \/ Commit(d) \/ WriteBack(d)
                             \/ \E w \in Writes : ReadModify(d, w) \/ WriteDirect(d, w)
                             \/ \E r \in Reads : DocsRead(d, r)
    BY <1>1, Zenon DEF DocsNext
  <2>2. ~(txn'[c].open = txn[c].open) /\ txn'[c] # txn[c]
    BY <1>1, Zenon
  <2>3. Commit(d)
    BY <1>1, <2>1, <2>2, BeginKeeps, WriteBackKeeps, ReadModifyKeeps, WriteDirectKeeps,
       DocsReadKeeps, Zenon
  <2>4. d = c /\ Unchanged(c)
    BY <1>1, <2>2, <2>3, CommitKeeps, Zenon
  <2>5. k \in DOMAIN txn[c].watched /\ (txn[c].watched[k] = version[k] => store[k] = txn[c].base[k])
    BY <1>1, Zenon DEF DocsInv, BaseWatched
  <2> QED
    BY <2>4, <2>5, Zenon DEF Unchanged
<1> DEFINE A == \A c \in Clients : txn[c].open /\ ~txn'[c].open /\ store' # store =>
                   \A k \in DOMAIN txn[c].base : store[k] = txn[c].base[k]
<1>2. DocsInv /\ [DocsNext]_docsVars => [A]_docsVars
  BY <1>1, Zenon
<1> QED
  BY <1>2, DocsInvariance, PTL DEF DocsSpec, RewritesFresh

\* The document a task without repeated keys starts from is the one that was
\* read, or none when only presences were.
LEMMA GivenOld ==
    ASSUME NEW w \in Writes, Distinct(w.tasks), NEW i \in 1..Len(w.tasks), NEW read
    PROVE  LET task == w.tasks[i]
               whole == task.field = NoField /\ w.how \notin {"patch", "merge"}
           IN  Given(read, task, w) =
                 IF whole /\ ~HasFields(w.tasks) THEN Missing ELSE read[task.key]
<1>1. ReadsValues(w) <=> HasFields(w.tasks) \/ w.how \in {"patch", "merge"}
  BY Zenon DEF ReadsValues, NeedValues
<1>2. ~HasFields(w.tasks) => w.tasks[i].field = NoField
  BY Zenon DEF HasFields
<1> QED
  BY <1>1, <1>2, Zenon DEF Given

LEMMA OwnWritten ==
    ASSUME DocsInv, NEW c \in Clients, WriteBack(c), ~txn[c].open, Distinct(call[c].write.tasks)
    PROVE  LET w == call[c].write
           IN  /\ \A k \in Keys \ KeysOf(w.tasks) : store'[k] = store[k]
               /\ \A i \in 1..Len(w.tasks) :
                    LET task == w.tasks[i]
                        whole == task.field = NoField /\ w.how \notin {"patch", "merge"}
                        old == IF whole /\ ~HasFields(w.tasks) THEN Missing
                               ELSE call[c].read[task.key]
                    IN  task.content # Missing =>
                          store'[task.key] =
                            Modify(old, Parse(task.content, w.format).val,
                                   task.field, w.how).val
<1> DEFINE p == call[c]
           w == call[c].write
           written == Placed(UniquePlaces(w.tasks), p.tape)
<1>1. Shape /\ Stores(written) /\ p.at = "write"
  BY WriteBackKeeps, Zenon DEF DocsInv
<1>2. /\ w \in Writes /\ DOMAIN p.tape = 1..Len(w.tasks)
      /\ \A i \in 1..Len(w.tasks) : Updated(p, i)
  BY <1>1, Zenon DEF DocsInv, TapeReady
<1>3. /\ DOMAIN written = KeysOf(w.tasks) /\ KeysOf(w.tasks) \subseteq Keys
      /\ \A i \in 1..Len(w.tasks) : written[w.tasks[i].key] = p.tape[i]
  <2>1. KeysOf(w.tasks) \subseteq Keys
    BY <1>2, KeysOfBatch, Zenon
  <2>2. /\ DOMAIN written = KeysOf(w.tasks)
        /\ \A i \in 1..Len(w.tasks) : written[w.tasks[i].key] = p.tape[i]
    <3> DEFINE tape == p.tape
    <3>1. Distinct(w.tasks) /\ w \in Writes
      BY <1>2, Zenon
    <3> HIDE DEF w, tape
    <3>2. DOMAIN Placed(UniquePlaces(w.tasks), tape) = KeysOf(w.tasks)
      BY <3>1, PlacedOwn, Zenon
    <3>3. \A i \in 1..Len(w.tasks) :
             Placed(UniquePlaces(w.tasks), tape)[w.tasks[i].key] = tape[i]
      BY <3>1, PlacedOwn, ZenonT(60)
    <3> QED
      BY <3>2, <3>3, Zenon DEF tape
  <2> QED
    BY <2>1, <2>2, Zenon
<1> HIDE DEF written
<1>4. /\ \A k \in Keys \ KeysOf(w.tasks) : store'[k] = store[k]
      /\ \A k \in KeysOf(w.tasks) : store'[k] = written[k]
  BY <1>1, <1>3, StoresFacts, Zenon
<1>5. ASSUME NEW i \in 1..Len(w.tasks), w.tasks[i].content # Missing
      PROVE  store'[w.tasks[i].key] =
               Modify(IF /\ w.tasks[i].field = NoField /\ w.how \notin {"patch", "merge"}
                         /\ ~HasFields(w.tasks)
                      THEN Missing ELSE p.read[w.tasks[i].key],
                      Parse(w.tasks[i].content, w.format).val,
                      w.tasks[i].field, w.how).val
  <2> DEFINE task == w.tasks[i]
             given == Given(p.read, task, w)
  <2>1. task.key \in KeysOf(w.tasks)
    BY Zenon DEF KeysOf
  <2>2. store'[task.key] = p.tape[i]
    BY <1>3, <1>4, <2>1, Zenon
  <2>3. p.tape[i] = Modify(given, Parse(task.content, w.format).val, task.field, w.how).val
    BY <1>2, <1>5, Zenon DEF Updated
  <2>4. given = IF /\ task.field = NoField /\ w.how \notin {"patch", "merge"}
                   /\ ~HasFields(w.tasks)
                THEN Missing ELSE p.read[task.key]
    BY <1>2, GivenOld, Zenon
  <2> HIDE DEF given
  <2> QED
    BY <2>2, <2>3, <2>4, Zenon
<1> QED
  BY <1>4, <1>5, Zenon

\* A batch of ukv_docs_write ends with every document the update of its own
\* earlier text by its own task and no other one changed, whatever the order
\* of the keys, or with an error and nothing written.
THEOREM BatchesAreWhole == DocsSpec => BatchesWhole
<1>1. ASSUME DocsInv, DocsNext
      PROVE  OwnDocuments /\ FailedWritesNothing
  <2>1. PICK d \in Clients : \/ Begin(d) \/ Commit(d) \/ WriteBack(d)
                             \/ \E w \in Writes : ReadModify(d, w) \/ WriteDirect(d, w)
                             \/ \E r \in Reads : DocsRead(d, r)
    BY <1>1, Zenon DEF DocsNext
  <2>2. ASSUME NEW c \in Clients, call[c].at = "write", call'[c].at = "idle"
        PROVE  WriteBack(c)
    <3>1. call'[c].at # "write"
      BY <2>2, SMT
    <3>2. call'[c] # call[c]
      BY <2>2, <3>1, Zenon
    <3> QED
      BY <1>1, <2>1, <2>2, <3>2, BeginKeeps, CommitKeeps, WriteBackKeeps, ReadModifyKeeps,
         WriteDirectKeeps, DocsReadKeeps, Zenon
  <2>3. OwnDocuments
    BY <1>1, <2>2, OwnWritten, Zenon DEF OwnDocuments
  <2>4. ASSUME NEW c \in Clients, call'[c] # call[c], ~call'[c].ok
        PROVE  store' = store /\ (txn[c].open => txn'[c].changes = txn[c].changes)
    <3>1. ~(call'[c].ok = TRUE)
      BY <2>4, Zenon
    <3> QED
      BY <1>1, <2>1, <2>4, <3>1, BeginKeeps, CommitKeeps, WriteBackKeeps, ReadModifyKeeps,
         WriteDirectKeeps, DocsReadKeeps, Zenon
  <2>5. FailedWritesNothing
    BY <2>4, Zenon DEF FailedWritesNothing
  <2> QED
    BY <2>3, <2>5, Zenon
<1>2. DocsInv /\ [DocsNext]_docsVars => [OwnDocuments /\ FailedWritesNothing]_docsVars
  BY <1>1, Zenon
<1> QED
  BY <1>2, DocsInvariance, PTL DEF DocsSpec, BatchesWhole
=============================================================================
