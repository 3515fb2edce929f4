------------------------------- MODULE Vectors ------------------------------
(***************************************************************************)
(* The vector modality, src/modality_vectors.cpp, and the bounded queue of *)
(* src/helpers/limited_priority_queue.hpp.  A vector is written twice: as  *)
(* it is, and quantized under the negated key.  ukv_vectors_search scans   *)
(* the quantized ones from the smallest key on, page by page, and keeps    *)
(* the best in a queue; other clients write in between.  The engine is     *)
(* external: it writes a batch at once.                                    *)
(*                                                                         *)
(* A vector is a sequence of integers, in thousandths.  The constant       *)
(* factors of the metrics are left out, and the roots of numbers that have *)
(* one: they keep the order.                                               *)
(***************************************************************************)
EXTENDS Integers, Sequences, FiniteSets, SequencesExt

CONSTANTS
    VectorWrites,   \* calls of ukv_vectors_write: sequences of [key, vector], keys >= 0
    Searches,       \* calls of ukv_vectors_search: [query, limit, metric, threshold]
    Junk,           \* what the memory of the queue may hold before
    MaxVectorCalls  \* bound: calls of ukv_vectors_write

VARIABLES
    entries,    \* the collection: key -> vector
    writes,     \* how many writes there were
    search,     \* the search in progress
    visited,    \* history: the copies it looked at, in order
    present     \* history: keys of vectors that were there when it began

vectorsVars == <<entries, writes, search, visited, present>>

-----------------------------------------------------------------------------
Abs(n) == IF n < 0 THEN -n ELSE n

(* static_cast to quant_t of hundredths: truncation towards zero. *)
QuantizeScalar(x) == IF x < 0 THEN -(Abs(x) \div 10) ELSE x \div 10
Quantize(vector) == [i \in 1..Len(vector) |-> QuantizeScalar(vector[i])]

SumOf(f, n) == FoldLeft(LAMBDA sum, i : sum + f[i], 0, [i \in 1..n |-> i])

(* quant_product_t has 16 bits. *)
Int16(n) == ((n + 2^15) % 2^16) - 2^15

(* Metrics are compared as floats: the root of a negative number is above  *)
(* and below none.                                                         *)
NaN == 10^9
Above(x, y) == x # NaN /\ y # NaN /\ x > y

MetricDot(a, b) == SumOf([i \in 1..Len(a) |-> a[i] * b[i]], Len(a))
MetricL2(a, b) ==
    LET sum == SumOf([i \in 1..Len(a) |-> Int16((a[i] - b[i]) * (a[i] - b[i]))], Len(a))
    IN  IF sum < 0 THEN NaN ELSE sum
Metric(kind, a, b) == IF kind = "dot" THEN MetricDot(a, b) ELSE MetricL2(a, b)

-----------------------------------------------------------------------------
(* limited_priority_queue_gt: [slots, length]; the capacity is the length  *)
(* of `slots`, which are uninitialized at first.                           *)

(* std::lower_bound between two places, by halving. *)
RECURSIVE LowerBound(_, _, _, _)
LowerBound(slots, match, first, count) ==
    LET half == count \div 2
        mid == first + half
    IN  IF count = 0 THEN first
        ELSE IF Above(slots[mid + 1].metric, match.metric)
        THEN LowerBound(slots, match, mid + 1, count - half - 1)
        ELSE LowerBound(slots, match, first, half)

(* The shift runs forward, so that everything behind the place becomes a   *)
(* copy of what was there; the slot that is added stays as it was.         *)
Push(pq, match) ==
    LET at == LowerBound(pq.slots, match, 0, pq.length)
        capacity == Len(pq.slots)
    IN  IF at = pq.length
        THEN IF pq.length < capacity
             THEN [slots |-> [pq.slots EXCEPT ![at + 1] = match], length |-> pq.length + 1]
             ELSE pq
        ELSE [slots |-> [i \in 1..capacity |->
                           IF i = at + 1 THEN match
                           ELSE IF i > at + 1 /\ i <= pq.length THEN pq.slots[at + 1]
                           ELSE pq.slots[i]],
              length |-> IF pq.length < capacity THEN pq.length + 1 ELSE pq.length]

-----------------------------------------------------------------------------
NoSearch == [at |-> "none"]

(* Mutant: the quantized copies follow the first key of the batch. *)
MirrorKeyFirst(tasks, i) == -tasks[1].key

(* The quantized copy of a vector is under the negated key. *)
MirrorKey(tasks, i) == -tasks[i].key

(* The entries of a batch: all vectors, then all quantized copies; of two  *)
(* entries with one key the later one stays.                               *)
EntriesOf(tasks) ==
    LET n == Len(tasks)
        key(i) == IF i <= n THEN tasks[i].key ELSE MirrorKey(tasks, i - n)
        value(i) == IF i <= n THEN tasks[i].vector ELSE Quantize(tasks[i - n].vector)
        keys == {key(i) : i \in 1..2 * n}
    IN  [k \in keys |-> value(CHOOSE i \in 1..2 * n :
                                key(i) = k /\ \A j \in i + 1..2 * n : key(j) # k)]

VectorsWrite(tasks) ==
    /\ writes < MaxVectorCalls /\ writes' = writes + 1
    /\ LET new == EntriesOf(tasks)
       IN  entries' = [k \in DOMAIN entries \cup DOMAIN new |->
                         IF k \in DOMAIN new THEN new[k] ELSE entries[k]]
    /\ UNCHANGED <<search, visited, present>>

(* ukv_vectors_read answers with the vectors, not with their copies. *)
VectorsRead(k) == IF k \in DOMAIN entries THEN entries[k] ELSE <<>>

SmallestKey == -100

SearchBegins(s, slots) ==
    /\ search.at = "none"
    /\ search' = [at |-> "scan", call |-> s, start |-> SmallestKey, page |-> <<>>,
                  pq |-> [slots |-> slots, length |-> 0]]
    /\ visited' = <<>>
    /\ present' = {k \in DOMAIN entries : k > 0}
    /\ UNCHANGED <<entries, writes>>

(* full_scan_collection takes one key or none for the end. *)
Ends(page) == Len(page) <= 1

InOrder(S) ==
    [i \in 1..Cardinality(S) |-> CHOOSE k \in S : Cardinality({j \in S : j < k}) = i - 1]

SearchScans ==
    LET keys == InOrder({k \in DOMAIN entries : k >= search.start})
        ahead == IF search.call.limit < 2 THEN 2 ELSE search.call.limit
        page == SubSeq(keys, 1, IF Len(keys) < ahead THEN Len(keys) ELSE ahead)
    IN  /\ search.at = "scan"
        /\ search' = IF Ends(page) THEN [search EXCEPT !.at = "done"]
                     ELSE [search EXCEPT !.at = "read", !.page = page]
        /\ UNCHANGED <<entries, writes, visited, present>>

MatchOf(s, k) ==
    [key |-> k, metric |-> Metric(s.call.metric, Quantize(s.call.query), entries[k])]

Pushed(matches, s) == SelectSeq(matches, LAMBDA m : ~Above(s.call.threshold, m.metric))

(* ukv_read of the page and the callbacks: up to the first key that is not *)
(* negative, those below the threshold left out.                           *)
SearchReads ==
    LET page == search.page
        mirrors == SelectSeq(page, LAMBDA k : k < 0)
        all == [i \in 1..Len(mirrors) |-> MatchOf(search, mirrors[i])]
        pushed == Pushed(all, search)
        after == [search EXCEPT !.pq = FoldLeft(Push, @, pushed), !.page = <<>>]
    IN  /\ search.at = "read"
        /\ search' = IF mirrors # page THEN [after EXCEPT !.at = "done"]
                     ELSE [after EXCEPT !.at = "scan", !.start = Last(page) + 1]
        /\ visited' = visited \o all
        /\ UNCHANGED <<entries, writes, present>>

(* The exported keys and metrics. *)
Found(s) == [i \in 1..s.pq.length |->
               [key |-> Abs(s.pq.slots[i].key), metric |-> s.pq.slots[i].metric]]

-----------------------------------------------------------------------------
VectorsInit ==
    /\ entries = <<>> /\ writes = 0
    /\ search = NoSearch /\ visited = <<>> /\ present = {}

VectorsNext ==
    \/ \E w \in VectorWrites : VectorsWrite(w)
    \/ \E s \in Searches : \E slots \in [1..s.limit -> Junk] : SearchBegins(s, slots)
    \/ SearchScans \/ SearchReads

-----------------------------------------------------------------------------
(* Every vector has its quantized copy, and every copy is that of the      *)
(* vector that reads return, also when a batch repeats keys; key zero has  *)
(* one entry for both (ukv_vectors_write).                                 *)
CopiesFollow ==
    \A k \in DOMAIN entries :
        /\ -k \in DOMAIN entries
        /\ k > 0 => entries[-k] = Quantize(VectorsRead(k))

(* A search looks at the copy of every vector that was there when it began *)
(* exactly once: stopping at a page of one key loses none, because behind  *)
(* the last copy there is always a vector (full_scan_collection).          *)
SearchCoversAll ==
    search.at = "done" =>
        LET keys == {-visited[i].key : i \in DOMAIN visited}
        IN  Cardinality(keys) = Len(visited) /\ present \subseteq keys

(* A search reports as many matches as it pushed, up to its limit.  With a *)
(* limit of one it reports the best of them, or, where a distance wrapped  *)
(* and has no root, forgets what came before and reports the best of those *)
(* behind the last such match (the queue's push).                          *)
ReportsBest ==
    search.at = "done" =>
        LET found == Found(search)
            pushed == Pushed(visited, search)
            limit == search.call.limit
            rootless == {i \in DOMAIN pushed : pushed[i].metric = NaN}
            behind == {i \in DOMAIN pushed : \A j \in rootless : j < i}
        IN  /\ Len(found) = IF Len(pushed) < limit THEN Len(pushed) ELSE limit
            /\ limit = 1 /\ pushed # <<>> =>
                 /\ found[1].metric = NaN <=> behind = {}
                 /\ \A i \in behind : pushed[i].metric <= found[1].metric

(* A search compares the query with every vector, by a copy that is        *)
(* current, and reports as many of them as it should.                      *)
SearchesRight == CopiesFollow /\ SearchCoversAll /\ ReportsBest
=============================================================================
