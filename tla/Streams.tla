------------------------------- MODULE Streams ------------------------------
(***************************************************************************)
(* Iterating over a collection page by page while others write to it: the  *)
(* streams of include/ukv/cpp/blobs_range.hpp and graph_stream.hpp,        *)
(* full_scan_collection of src/helpers/full_scan.hpp, and the loops that   *)
(* the Python module builds from them.  A page is one ukv_scan; values and *)
(* edges are fetched by a second call, after it.                           *)
(*   range   for (it = begin(); it != end(); ++it) over pairs_stream_t     *)
(*   python  __next__ of py_stream_with_ending_gt<pairs_stream_t>          *)
(*   docs    the same over docs_pairs_stream_t                             *)
(*   batch   keys_batch and seek_to_next_batch: scan_rows, louvain         *)
(*   nodes   nodes_stream_t::next and degrees_stream_t::next               *)
(*   edges   the loop over graph_stream_t                                  *)
(*   full    full_scan_collection                                          *)
(* Past the last element the code reads outside of its array: undefined    *)
(* behaviour, the state "overrun".                                         *)
(***************************************************************************)
EXTENDS Integers, Sequences

CONSTANTS
    Unknown,       \* ukv_key_unknown_k: keys are smaller
    Aheads,        \* values of read_ahead
    Starts,        \* values of min_key_
    Bounds,        \* values of max_key_, Unknown for none
    MaxWrites,     \* bound: writes while the loop runs
    MaxFailures    \* bound: scans that fail

ASSUME BoundsAssumption ==
    /\ Unknown \in Nat \ {0}
    /\ Aheads \subseteq Nat \ {0}
    /\ Starts \subseteq 0..Unknown
    /\ Bounds \subseteq 0..Unknown
    /\ MaxWrites \in Nat
    /\ MaxFailures \in Nat

Keys == 0..Unknown - 1
Missing == -1
Contents == {Missing, 0, 1}    \* no pair, an empty one, one with a value or edge

Kinds == {"range", "python", "docs", "batch", "nodes", "edges", "full"}

VARIABLES
    contents,    \* the collection
    writes, failures,
    kind,        \* the loop
    lo, hi,      \* its first key and its bound
    ahead,       \* read_ahead_
    next,        \* next_min_key_
    items,       \* fetched_keys_, or the edges of the page by their vertices
    vals,        \* the values of the page
    offset,      \* fetched_offset_
    stop,        \* where the end stands: its key, or Unknown
    pc,
    visited,     \* history: the keys visited
    held         \* history: what each key has held since the loop began

store == <<contents, writes, held>>
loop == <<kind, lo, hi, ahead>>
page == <<next, items, vals, offset>>
vars == <<contents, writes, failures, kind, lo, hi, ahead, next, items, vals,
          offset, stop, pc, visited, held>>

-----------------------------------------------------------------------------

Init ==
    /\ contents \in [Keys -> Contents]
    /\ writes = 0 /\ failures = 0
    /\ kind \in Kinds
    /\ lo \in Starts
    /\ hi \in {k \in Bounds : lo <= k}
    /\ ahead \in Aheads
    /\ next = lo
    /\ items = << >> /\ vals = << >> /\ offset = 0
    /\ stop = Unknown
    /\ pc = "fetch"
    /\ visited = << >>
    /\ held = [k \in Keys |-> {contents[k]}]

\* Another thread writes or removes a pair.
Put(k, v) ==
    /\ pc \notin {"done", "overrun"}
    /\ writes < MaxWrites
    /\ v # contents[k]
    /\ writes' = writes + 1
    /\ contents' = [contents EXCEPT ![k] = v]
    /\ held' = [held EXCEPT ![k] = @ \cup {v}]
    /\ UNCHANGED <<failures, loop, page, stop, pc, visited>>

-----------------------------------------------------------------------------
(* Pages.                                                                   *)

\* The arrays of keys that a scan may return: keys of an ordered collection.
Pages ==
    {s \in UNION {[1..n -> Keys] : n \in 0..Unknown} :
        \A i, j \in DOMAIN s : i < j => s[i] < s[j]}

Shows(s, k) == \E i \in DOMAIN s : s[i] = k

\* Mutant of IsScan: the last keys are kept, not the first.
IsLastScan(found, min, limit) ==
    /\ Len(found) <= limit
    /\ \A i \in DOMAIN found : found[i] >= min /\ contents[found[i]] # Missing
    /\ \A k \in min..Unknown - 1 :
          contents[k] # Missing =>
              Shows(found, k) \/ (Len(found) = limit /\ k < found[1])

\* ukv_scan: Seek and Next up to the limit.
IsScan(found, min, limit) ==
    /\ Len(found) <= limit
    /\ \A i \in DOMAIN found : found[i] >= min /\ contents[found[i]] # Missing
    /\ \A k \in min..Unknown - 1 :
          contents[k] # Missing =>
              Shows(found, k) \/ (Len(found) = limit /\ k > found[limit])

\* Where the next page begins.  docs_pairs_stream_t compares with <= and stops
\* after the first page.
NextMin(found) ==
    IF Len(found) < ahead \/ kind = "docs" THEN Unknown ELSE found[Len(found)] + 1

\* full_scan_collection reads at least two keys ahead.
Limit == IF kind = "full" /\ ahead < 2 THEN 2 ELSE ahead

\* What follows a page: the other streams fetch values or edges.
Reads == kind \in {"range", "python", "docs", "edges", "full"}
Resumes ==
    CASE kind = "range" /\ visited = << >> /\ stop = Unknown -> "ending"
      [] kind = "nodes" /\ visited # << >> -> "item"
      [] OTHER -> "loop"

\* keys_stream_t::prefetch and the first half of pairs_stream_t::prefetch, at
\* the end of the collection and before it.
FetchNothing ==
    /\ pc = "fetch"
    /\ next = Unknown /\ kind # "full"
    /\ items' = IF kind \in {"batch", "nodes", "edges"} THEN << >> ELSE items
    /\ offset' = IF kind \in {"batch", "nodes", "edges"} THEN 0 ELSE offset + 1
    /\ pc' = Resumes
    /\ UNCHANGED <<store, failures, loop, next, vals, stop, visited>>

FetchPage ==
    /\ pc = "fetch"
    /\ next # Unknown /\ kind # "full"
    /\ \E found \in Pages :
          /\ IsScan(found, next, Limit)
          /\ items' = found
          /\ vals' = << >>
          /\ next' = NextMin(found)
    /\ offset' = 0
    /\ pc' = IF Reads THEN "read" ELSE Resumes
    /\ UNCHANGED <<store, failures, loop, stop, visited>>

\* Mutant of FetchForFullScan: it waits for a second key.
FetchUntilTwo ==
    /\ pc = "fetch"
    /\ kind = "full"
    /\ \E found \in Pages :
          /\ IsScan(found, next, Limit)
          /\ items' = found
          /\ pc' = IF Len(found) <= 1 THEN "fetch" ELSE "read"
    /\ UNCHANGED <<store, failures, loop, next, vals, offset, stop, visited>>

\* full_scan_collection gives up when it finds one key or none.
FetchForFullScan ==
    /\ pc = "fetch"
    /\ kind = "full"
    /\ \E found \in Pages :
          /\ IsScan(found, next, Limit)
          /\ items' = found
          /\ pc' = IF Len(found) <= 1 THEN "done" ELSE "read"
    /\ UNCHANGED <<store, failures, loop, next, vals, offset, stop, visited>>

\* Mutant of ReadValues: the iterator over the values stays at the first one.
ReadValueOfFirst ==
    /\ pc = "read"
    /\ kind # "edges"
    /\ vals' = [i \in DOMAIN items |->
                    IF contents[items[1]] = Missing THEN 0 ELSE contents[items[1]]]
    /\ pc' = Resumes
    /\ UNCHANGED <<store, failures, loop, next, items, offset, stop, visited>>

\* The second half of pairs_stream_t::prefetch, ukv_docs_read and the read of
\* full_scan_collection: the value of a key that is gone by then is empty.
ReadValues ==
    /\ pc = "read"
    /\ kind # "edges"
    /\ vals' = [i \in DOMAIN items |->
                    IF contents[items[i]] = Missing THEN 0 ELSE contents[items[i]]]
    /\ pc' = Resumes
    /\ UNCHANGED <<store, failures, loop, next, items, offset, stop, visited>>

\* graph_stream_t::prefetch_gather: one edge for a vertex that has any.
ReadEdges ==
    /\ pc = "read"
    /\ kind = "edges"
    /\ \E found \in Pages :
          /\ \A k \in Keys : Shows(found, k) <=> (Shows(items, k) /\ contents[k] = 1)
          /\ items' = found
    /\ pc' = Resumes
    /\ UNCHANGED <<store, failures, loop, next, vals, offset, stop, visited>>

\* A scan fails.  begin() throws; operator++ makes the stream an end; scan_rows
\* and the Python streams do not look at the status of seek_to_next_batch.
FetchFails ==
    /\ pc = "fetch"
    /\ next # Unknown \/ kind = "full"
    /\ failures < MaxFailures
    /\ failures' = failures + 1
    /\ items' = << >> /\ vals' = << >> /\ offset' = 0
    /\ IF visited = << >> \/ kind = "full"
       THEN pc' = "done" /\ UNCHANGED next
       ELSE IF kind \in {"batch", "nodes", "edges"}
       THEN pc' = Resumes /\ UNCHANGED next
       ELSE pc' = "loop" /\ next' = Unknown
    /\ UNCHANGED <<store, loop, stop, visited>>

\* blobs_range_t::pairs_end: the first key that is not below the bound.
MakeEnd ==
    /\ pc = "ending"
    /\ \E found \in Pages :
          /\ IsScan(found, hi, 1)
          /\ stop' = IF found = << >> THEN Unknown ELSE found[1]
    /\ pc' = "loop"
    /\ UNCHANGED <<store, failures, loop, page, visited>>

-----------------------------------------------------------------------------
(* Loops.                                                                   *)

\* Mutant of IsEnd: off by one.
IsEndPast == next = Unknown /\ offset > Len(items)

IsEnd == next = Unknown /\ offset >= Len(items)

\* operator!= of the streams.
Differs ==
    IF IsEnd \/ stop = Unknown
    THEN IsEnd # (stop = Unknown)
    ELSE items[offset + 1] # stop

\* advance: at the last element of a page the next one is fetched.
\* docs_pairs_stream_t steps behind it first.
Advance ==
    IF kind # "docs" /\ offset >= Len(items) - 1
    THEN pc' = "fetch" /\ UNCHANGED offset
    ELSE pc' = "loop" /\ offset' = offset + 1

Visit == visited' = Append(visited, items[offset + 1])

\* One round of the loop, on an element or behind the last one.
Turn ==
    /\ IF offset < Len(items)
       THEN Visit /\ Advance
       ELSE pc' = "overrun" /\ UNCHANGED <<visited, offset>>
    /\ UNCHANGED <<store, failures, loop, next, items, vals>>

LoopRange ==
    /\ pc = "loop" /\ kind = "range"
    /\ IF Differs
       THEN Turn /\ UNCHANGED stop
       ELSE pc' = "done" /\ UNCHANGED <<store, failures, loop, page, stop, visited>>

\* The stream of Python stops after the key of the bound, if it meets it.  The
\* key it reads before it looks for the end is not used there.
LoopPython ==
    /\ pc = "loop" /\ kind \in {"python", "docs"}
    /\ IF IsEnd \/ (visited # << >> /\ visited[Len(visited)] = hi)
       THEN pc' = "done" /\ UNCHANGED <<store, failures, loop, page, stop, visited>>
       ELSE Turn /\ UNCHANGED stop

LoopEdges ==
    /\ pc = "loop" /\ kind = "edges"
    /\ IF IsEnd
       THEN pc' = "done" /\ UNCHANGED <<store, failures, loop, page, stop, visited>>
       ELSE Turn /\ UNCHANGED stop

LoopBatch ==
    /\ pc = "loop" /\ kind \in {"batch", "full"}
    /\ visited' = visited \o items
    /\ pc' = IF kind = "batch" /\ IsEnd THEN "done" ELSE "fetch"
    /\ next' = IF kind = "full" THEN items[Len(items)] + 1 ELSE next
    /\ UNCHANGED <<store, failures, loop, items, vals, offset, stop>>

\* nodes_stream_t::next asks for another page without looking whether it has
\* any keys.
LoopNodes ==
    /\ pc = "loop" /\ kind = "nodes"
    /\ IF offset < Len(items)
       THEN Visit /\ offset' = offset + 1 /\ UNCHANGED pc
       ELSE /\ pc' = IF next = Unknown THEN "done" ELSE "fetch"
            /\ UNCHANGED <<visited, offset>>
    /\ UNCHANGED <<store, failures, loop, next, items, vals, stop>>

NextNode ==
    /\ pc = "item"
    /\ pc' = IF items = << >> THEN "overrun" ELSE "loop"
    /\ UNCHANGED <<store, failures, loop, page, stop, visited>>

Step ==
    \/ FetchNothing \/ FetchPage \/ FetchForFullScan \/ ReadValues \/ ReadEdges
    \/ MakeEnd
    \/ LoopRange \/ LoopPython \/ LoopEdges \/ LoopBatch \/ LoopNodes \/ NextNode

Next ==
    \/ Step
    \/ FetchFails
    \/ \E k \in Keys, v \in Contents : Put(k, v)

Spec == Init /\ [][Next]_vars /\ WF_vars(Step)

-----------------------------------------------------------------------------
(* Properties.                                                              *)

TypeOK ==
    /\ contents \in [Keys -> Contents]
    /\ writes \in 0..MaxWrites /\ failures \in 0..MaxFailures
    /\ kind \in Kinds /\ ahead \in Aheads
    /\ lo \in 0..Unknown /\ hi \in lo..Unknown
    /\ next \in 0..Unknown /\ stop \in 0..Unknown
    /\ items \in Seq(Keys) /\ visited \in Seq(Keys)
    /\ vals \in Seq({0, 1})
    /\ offset \in Nat
    /\ pc \in {"fetch", "read", "ending", "loop", "item", "done", "overrun"}
    /\ held \in [Keys -> SUBSET Contents]

Visits(k) == Shows(visited, k)
Kept(k) == Missing \notin held[k]
KeptEdge(k) == held[k] = {1}
Stays(k) == IF kind = "edges" THEN KeptEdge(k) ELSE Kept(k)

\* Keys are visited in ascending order, none twice, and none that was never
\* there while the loop ran, whatever is written between the pages.
VisitsAscend ==
    /\ \A i \in 1..Len(visited) - 1 : visited[i] < visited[i + 1]
    /\ \A i \in DOMAIN visited : held[visited[i]] # {Missing}

\* No loop leaves out a key below the last one it visited that was there all
\* the time (with an edge all the time, for the loop over edges).
NoGaps ==
    \A k \in lo..Unknown - 1 :
        /\ Stays(k)
        /\ \E i \in DOMAIN visited : visited[i] > k
        => Visits(k)

\* A loop that ends without a failed scan has visited every key of its range
\* that was there all the time; full_scan_collection may leave out the last
\* one, and docs_pairs_stream_t what is behind its first page.
VisitsAll ==
    pc = "done" /\ failures = 0 /\ kind # "docs" =>
        LET missed == {k \in lo..Unknown - 1 :
                          /\ Stays(k)
                          /\ kind \in {"range", "python"} => k < hi
                          /\ ~Visits(k)}
        IN  IF kind = "full" THEN \A j, k \in missed : j = k ELSE missed = {}

\* A range with a bound visits a key at or above it only if the key was put
\* there after end() was made, or the key that the end stands at was removed;
\* the Python streams go past their bound only if the key of the bound was
\* absent for a while.
StaysInRange ==
    \A i \in DOMAIN visited :
        /\ kind = "range" /\ visited[i] >= hi =>
               \/ Missing \in held[visited[i]]
               \/ stop < visited[i] /\ Missing \in held[stop]
        /\ kind \in {"python", "docs"} /\ visited[i] > hi => Missing \in held[hi]

\* The loops read behind the last element only after a failed scan, when the
\* key that the end stands at was put or removed while the loop ran, when a
\* page of vertices has no edges, and when the vertices fill their pages
\* exactly.
OverrunCauses ==
    pc = "overrun" =>
        \/ failures > 0
        \/ kind = "range" /\ stop # Unknown /\ Missing \in held[stop]
        \/ kind = "edges" /\ items = << >>
        \/ kind = "nodes" /\ \E n \in 0..Len(visited) : Len(visited) = n * ahead

\* A pair is shown with a value that its key has held since the loop began, or
\* as empty if it was removed between the scan and the read.
PairsHeld ==
    pc = "loop" /\ vals # << >> /\ offset < Len(items) =>
        LET k == items[offset + 1] v == vals[offset + 1]
        IN  v \in held[k] \/ (v = 0 /\ Missing \in held[k])

\* Every loop comes to an end although others keep writing: it finishes, or
\* leaves its array.
LoopEnds == <>(pc \in {"done", "overrun"})

\* A loop visits what was there all the time once and in order, and ends when
\* nothing of its range is left; the variables keep their types.
VisitsEachOnce == TypeOK /\ VisitsAscend /\ NoGaps /\ VisitsAll

\* A loop leaves its range, or its array, for the known reasons only.
OverrunsExplained == StaysInRange /\ OverrunCauses
=============================================================================
