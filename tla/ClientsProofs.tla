---------------------------- MODULE ClientsProofs ---------------------------
(***************************************************************************)
(* What clients of a database see.                                         *)
(*                                                                         *)
(* Streams: the loops visit what stays in the collection once and in       *)
(* order, leave their range and their array for the listed reasons only,   *)
(* and show values that were there: for every size of the key space, every *)
(* read_ahead, every range and any number of writes and failed scans.      *)
(*                                                                         *)
(* Rpc: transactions apply wholly and read their own writes, for any       *)
(* number of clients, keys, transaction ids and calls: RpcInv is           *)
(* inductive.                                                              *)
(***************************************************************************)
EXTENDS Rpc, Streams, TLAPS

-----------------------------------------------------------------------------
(* The loops.                                                               *)

\* The elements of the page that the loop has not visited yet.
Busy == pc \in {"read", "ending", "loop", "item"}
Rest == {i \in DOMAIN items : Busy /\ i > offset}

\* Whether next says how far the pages have come: not where docs_pairs_stream_t
\* stops early, and not where a failed scan made the stream an end.
Trusted ==
    \/ next # Unknown
    \/ kind # "docs" /\ (failures = 0 \/ kind \in {"batch", "nodes", "edges"})

\* Where each loop can be, and where it stands in its page.
Control ==
    /\ pc = "read" => Reads
    /\ pc = "ending" => kind = "range" /\ visited = << >>
    /\ pc = "item" => kind = "nodes"
    /\ visited = << >> /\ pc \in {"fetch", "read", "ending"} => stop = Unknown
    /\ pc \in {"read", "item"} \/ kind \in {"batch", "full"} => offset = 0
    /\ pc = "fetch" /\ kind \in {"range", "python", "docs"} =>
           offset + 1 >= Len(items)
    /\ pc \in {"read", "ending", "loop"} /\ kind \in {"range", "python", "docs"} =>
           offset < Len(items) \/ next = Unknown
    /\ pc \in {"read", "loop"} /\ kind = "docs" => next = Unknown
    /\ pc = "loop" /\ kind = "edges" => offset < Len(items) \/ items = << >>
    /\ pc \in {"read", "loop"} /\ kind = "full" => items # << >>
    /\ kind \in {"batch", "nodes", "edges"} => vals = << >>

\* Keys come in ascending order, visited ones before those of the page, and
\* each was there at some time.
Ordered ==
    /\ \A i, j \in DOMAIN visited : i < j => visited[i] < visited[j]
    /\ \A i, j \in DOMAIN items : i < j => items[i] < items[j]
    /\ \A j \in DOMAIN visited, i \in Rest : visited[j] < items[i]
    /\ \A j \in DOMAIN visited : visited[j] < next
    /\ kind # "full" => \A i \in DOMAIN items : items[i] < next

Present ==
    /\ \A k \in Keys : contents[k] \in held[k]
    /\ \A i \in DOMAIN items : held[items[i]] # {Missing}
    /\ \A j \in DOMAIN visited : held[visited[j]] # {Missing}

\* What has stayed, below what the pages have reached, was visited or is yet
\* to be visited in this page.
Reached(k) ==
    \/ pc # "done" /\ k < next /\ Trusted
    \/ \E j \in DOMAIN visited : visited[j] > k
    \/ \E i \in Rest : items[i] > k

Covered ==
    \A k \in lo..Unknown - 1 :
        Stays(k) /\ Reached(k) => Visits(k) \/ \E i \in Rest : items[i] = k

\* The end of a range stands at the first key from its bound on, and no loop
\* visits it; a Python stream stops at the key of its bound.
Ends ==
    /\ stop # Unknown => kind = "range" /\ stop >= hi
    /\ \A j \in DOMAIN visited : visited[j] # stop
    /\ kind = "range" /\ (pc = "loop" \/ visited # << >>) =>
           \A k \in hi..Unknown - 1 : k < stop => Missing \in held[k]
    /\ kind \in {"python", "docs"} =>
           \A j \in 1..Len(visited) - 1 : visited[j] # hi

\* The stream of vertices visits whole pages.
WholePages ==
    kind = "nodes" /\ failures = 0 =>
        /\ pc \in {"fetch", "item"} => \E n \in Nat : Len(visited) = n * ahead
        /\ pc = "loop" => \E n \in Nat : Len(visited) = n * ahead + offset
        /\ pc \in {"item", "loop"} => /\ offset <= Len(items)
                                      /\ next = Unknown \/ Len(items) = ahead

\* The values of the page are those of its keys.
ValsHeld ==
    pc \notin {"read", "done"} /\ vals # << >> =>
        /\ Len(vals) = Len(items)
        /\ \A i \in DOMAIN items :
              \/ vals[i] \in held[items[i]]
              \/ vals[i] = 0 /\ Missing \in held[items[i]]

LoopInv ==
    /\ TypeOK /\ Control /\ Ordered /\ Present /\ Covered /\ Ends
    /\ WholePages /\ ValsHeld /\ VisitsAll /\ OverrunCauses

-----------------------------------------------------------------------------
(* Operators.                                                               *)

\* What the provers need to know of an array of keys.
LEMMA PageFacts ==
    ASSUME NEW s \in Pages
    PROVE  /\ s \in Seq(Keys) /\ Len(s) \in Nat /\ DOMAIN s = 1..Len(s)
           /\ \A i, j \in DOMAIN s : i < j => s[i] < s[j]
           /\ \A i \in DOMAIN s : s[i] \in Keys
<1>1. PICK n \in 0..Unknown : s \in [1..n -> Keys]
  BY Zenon DEF Pages
<1>2. n \in Nat
  BY <1>1, BoundsAssumption
<1>3. s \in Seq(Keys) /\ Len(s) = n
  BY <1>1, <1>2, SMT
<1> QED BY Zenon, <1>1, <1>2, <1>3 DEF Pages

LEMMA SeqFacts ==
    ASSUME NEW S, NEW s \in Seq(S)
    PROVE  /\ Len(s) \in Nat /\ DOMAIN s = 1..Len(s)
           /\ \A i \in DOMAIN s : s[i] \in S
           /\ s = << >> <=> Len(s) = 0
BY SMT

LEMMA AppendFacts ==
    ASSUME NEW S, NEW s \in Seq(S), NEW e \in S
    PROVE  /\ Append(s, e) \in Seq(S) /\ Len(Append(s, e)) = Len(s) + 1
           /\ \A i \in DOMAIN s : Append(s, e)[i] = s[i]
           /\ Append(s, e)[Len(s) + 1] = e
BY SMT

LEMMA ConcatFacts ==
    ASSUME NEW S, NEW s \in Seq(S), NEW t \in Seq(S)
    PROVE  /\ s \o t \in Seq(S) /\ Len(s \o t) = Len(s) + Len(t)
           /\ \A i \in DOMAIN s : (s \o t)[i] = s[i]
           /\ \A i \in DOMAIN t : (s \o t)[Len(s) + i] = t[i]
BY SMT

-----------------------------------------------------------------------------
(* Each step keeps the invariant.                                           *)

LEMMA FetchNothingKeeps ==
    ASSUME LoopInv, FetchNothing
    PROVE  LoopInv'
<1>i. TypeOK /\ Control /\ Ordered /\ Present /\ Covered /\ Ends /\ WholePages
      /\ ValsHeld
  BY Zenon DEF LoopInv
<1>a. /\ pc = "fetch" /\ next = Unknown /\ kind # "full"
      /\ UNCHANGED <<contents, writes, held, failures, kind, lo, hi, ahead, next, vals,
                     stop, visited>>
  BY Zenon DEF FetchNothing, store, loop
<1>b. /\ pc' \in {"ending", "loop", "item"}
      /\ pc' = "ending" => kind = "range" /\ visited = << >>
      /\ pc' = "item" => kind = "nodes"
      /\ kind = "range" /\ visited = << >> => pc' = "ending"
  BY Zenon, <1>i, <1>a DEF FetchNothing, Resumes, Control
<1>c. \/ /\ kind \in {"batch", "nodes", "edges"}
         /\ items' = << >> /\ offset' = 0
      \/ /\ kind \in {"range", "python", "docs"}
         /\ items' = items /\ offset' = offset + 1
  BY Zenon, <1>i, <1>a DEF FetchNothing, TypeOK, Kinds
<1>d. Rest = {} /\ Rest' = {}
  BY <1>i, <1>a, <1>c, SMT DEF Rest, Busy, Control, TypeOK
<1>1. TypeOK'
  <2>1. items' \in Seq(Keys) /\ offset' \in Nat
    <3>1. items \in Seq(Keys) /\ offset \in Nat
      BY Zenon, <1>i DEF TypeOK
    <3>2. CASE kind \in {"batch", "nodes", "edges"}
      <4>1. items' = << >> /\ offset' = 0
        BY Zenon, <3>2, <1>c
      <4> QED BY <4>1
    <3>3. CASE kind \in {"range", "python", "docs"}
      <4>1. items' = items /\ offset' = offset + 1
        BY Zenon, <3>3, <1>c
      <4> QED BY <3>1, <4>1
    <3> QED BY Zenon, <1>c, <3>2, <3>3
  <2> QED BY Zenon, <1>i, <1>a, <1>b, <2>1 DEF TypeOK
<1>2. Control'
  <2>1. CASE kind \in {"batch", "nodes", "edges"}
    BY Zenon, <2>1, <1>i, <1>a, <1>b, <1>c DEF Control, Reads
  <2>2. CASE kind \in {"range", "python", "docs"}
    BY Zenon, <2>2, <1>i, <1>a, <1>b, <1>c DEF Control, Reads, TypeOK
  <2> QED BY Zenon, <1>c, <2>1, <2>2
<1>3. Ordered'
  BY <1>i, <1>a, <1>c, <1>d, SMT DEF Ordered, TypeOK
<1>4. Present'
  BY <1>i, <1>a, <1>c, SMT DEF Present, TypeOK
<1>5. Covered'
  BY Zenon, <1>i, <1>a, <1>b, <1>d
     DEF Covered, Reached, Trusted, Stays, Kept, KeptEdge, Visits, Shows
<1>6. Ends'
  BY Zenon, <1>i, <1>a, <1>b DEF Ends
<1>7. WholePages'
  BY <1>i, <1>a, <1>b, <1>c, SMT DEF WholePages, TypeOK
<1>8. ValsHeld'
  BY Zenon, <1>i, <1>a, <1>b, <1>c DEF ValsHeld, Control
<1>9. VisitsAll' /\ OverrunCauses'
  BY Zenon, <1>b DEF VisitsAll, OverrunCauses
<1> QED BY Zenon, <1>1, <1>2, <1>3, <1>4, <1>5, <1>6, <1>7, <1>8, <1>9 DEF LoopInv

\* keys_stream_t::prefetch: the next page takes up where the last one ended.
LEMMA FetchPageKeeps ==
    ASSUME LoopInv, FetchPage
    PROVE  LoopInv'
<1>i. TypeOK /\ Control /\ Ordered /\ Present /\ Covered /\ Ends /\ WholePages
      /\ ValsHeld
  BY Zenon DEF LoopInv
<1>a. /\ pc = "fetch" /\ next # Unknown /\ kind # "full"
      /\ UNCHANGED <<contents, writes, held, failures, kind, lo, hi, ahead,
                     stop, visited>>
      /\ vals' = << >> /\ offset' = 0
  BY Zenon DEF FetchPage, store, loop
<1>b. PICK found \in Pages :
          IsScan(found, next, Limit) /\ items' = found /\ next' = NextMin(found)
  BY Zenon DEF FetchPage
<1>c. /\ pc' \in {"read", "loop", "item"}
      /\ pc' = "read" <=> kind \in {"range", "python", "docs", "edges", "full"}
      /\ pc' = "item" => kind = "nodes"
      /\ pc' = "loop" => kind \in {"batch", "nodes"}
  BY Zenon, <1>a, <1>i DEF FetchPage, Resumes, Reads, TypeOK, Kinds
<1>d. /\ found \in Seq(Keys) /\ Len(found) \in Nat /\ DOMAIN found = 1..Len(found)
      /\ \A i, j \in DOMAIN found : i < j => found[i] < found[j]
      /\ \A i \in DOMAIN found : found[i] \in Keys
  BY Zenon, PageFacts
<1>e. /\ Unknown \in Nat \ {0} /\ ahead \in Nat \ {0}
      /\ next \in 0..Unknown - 1 /\ Keys = 0..Unknown - 1
      /\ lo \in 0..Unknown
  BY <1>i, <1>a, BoundsAssumption DEF TypeOK, Keys
<1>f. /\ Len(found) <= ahead
      /\ \A i \in DOMAIN found : found[i] >= next /\ contents[found[i]] # Missing
      /\ \A k \in next..Unknown - 1 :
            contents[k] # Missing =>
                Shows(found, k) \/ (Len(found) = ahead /\ k > found[ahead])
  BY Zenon, <1>a, <1>b DEF IsScan, Limit
<1>g. \/ next' = Unknown /\ (Len(found) < ahead \/ kind = "docs")
      \/ Len(found) = ahead /\ next' = found[Len(found)] + 1
  <2>1. Len(found) \in Nat /\ Len(found) <= ahead /\ ahead \in Nat
    BY Zenon, <1>d, <1>e, <1>f
  <2>2. ~(Len(found) < ahead) => Len(found) = ahead
    BY <2>1, SMT
  <2> QED BY Zenon, <1>b, <2>2 DEF NextMin
<1>h. /\ next' \in 0..Unknown /\ next <= next'
      /\ \A i \in DOMAIN found : found[i] < next'
  <2>1. \A i \in DOMAIN found : found[i] \in 0..Unknown - 1 /\ found[i] >= next
    BY Zenon, <1>d, <1>e, <1>f
  <2>2. CASE next' = Unknown
    BY <2>1, <2>2, <1>e, SMT
  <2>3. CASE Len(found) = ahead /\ next' = found[Len(found)] + 1
    <3>1. ahead \in DOMAIN found
      BY <2>3, <1>d, <1>e, SMT
    <3>2. \A i \in DOMAIN found : i = ahead \/ i < ahead
      BY <2>3, <1>d, <1>e, SMT
    <3>3. \A i \in DOMAIN found : found[i] = found[ahead] \/ found[i] < found[ahead]
      BY Zenon, <3>1, <3>2, <1>d
    <3>4. next' = found[ahead] + 1 /\ found[ahead] \in 0..Unknown - 1 /\ found[ahead] >= next
      BY Zenon, <2>1, <2>3, <3>1
    <3>5. next' \in 0..Unknown /\ next <= next' /\ found[ahead] < next'
      BY <3>4, <1>e, SMT
    <3>6. ASSUME NEW i \in DOMAIN found PROVE found[i] < next'
      <4>1. found[i] \in Int /\ found[ahead] \in Int /\ next' \in Int
        BY <2>1, <3>1, <3>5, <1>e, SMT
      <4> QED BY <4>1, <3>3, <3>5, SMT
    <3> QED BY Zenon, <3>5, <3>6
  <2> QED BY Zenon, <1>g, <2>2, <2>3
<1>r. Rest = {} /\ Rest' = DOMAIN found
  BY <1>a, <1>b, <1>c, <1>d, SMT DEF Rest, Busy
<1>v. visited \in Seq(Keys) /\ DOMAIN visited = 1..Len(visited) /\ Len(visited) \in Nat
      /\ \A j \in DOMAIN visited : visited[j] \in Keys
  BY Zenon, <1>i, SeqFacts DEF TypeOK
<1>1. TypeOK'
  <2>1. vals' \in Seq({0, 1})
    BY <1>a
  <2> QED BY Zenon, <1>i, <1>a, <1>b, <1>c, <1>d, <1>h, <2>1 DEF TypeOK
<1>2. Control'
  <2>1. kind \in {"range", "python", "docs"} => 0 < Len(found) \/ next' = Unknown
    BY <1>e, <1>g, SMT
  <2>2. kind = "docs" => next' = Unknown
    BY Zenon, <1>b DEF NextMin
  <2> QED BY Zenon, <1>i, <1>a, <1>b, <1>c, <2>1, <2>2 DEF Control, Reads
<1>3. Ordered'
  <2>1. \A j \in DOMAIN visited : visited[j] < next
    BY Zenon, <1>i DEF Ordered
  <2>2. \A j \in DOMAIN visited : visited[j] < next'
    BY <2>1, <1>h, <1>e, <1>v, SMT
  <2>3. \A j \in DOMAIN visited, i \in DOMAIN found : visited[j] < found[i]
    <3> SUFFICES ASSUME NEW j \in DOMAIN visited, NEW i \in DOMAIN found
                 PROVE  visited[j] < found[i]
      BY Zenon
    <3>1. visited[j] \in Int /\ found[i] \in Int /\ next \in Int
      BY <1>d, <1>e, <1>v, SMT
    <3> QED BY <3>1, <2>1, <1>f, SMT
  <2> QED BY Zenon, <1>i, <1>a, <1>b, <1>d, <1>h, <1>r, <2>2, <2>3 DEF Ordered
<1>4. Present'
  <2>1. \A i \in DOMAIN found : held[found[i]] # {Missing}
    BY <1>i, <1>d, <1>f, Zenon DEF Present
  <2> QED BY Zenon, <1>i, <1>a, <1>b, <2>1 DEF Present
<1>5. Covered'
  <2> SUFFICES ASSUME NEW k \in lo..Unknown - 1, Stays(k), Reached(k)'
               PROVE  Visits(k) \/ \E i \in DOMAIN found : found[i] = k
    BY Zenon, <1>a, <1>b, <1>r DEF Covered, Stays, Kept, KeptEdge, Visits, Shows
  <2>1. k \in Keys /\ k \in Int /\ contents[k] # Missing
    <3>1. k \in Keys
      BY <1>e, SMT
    <3> QED BY <3>1, <1>e, <1>i, SMT DEF Stays, Kept, KeptEdge, Present, Missing
  <2>2. CASE k < next
    <3>1. Reached(k)
      BY Zenon, <2>2, <1>a DEF Reached, Trusted
    <3> QED BY Zenon, <3>1, <1>i, <1>r DEF Covered
  <2>3. CASE k >= next
    <3>1. Shows(found, k) \/ (Len(found) = ahead /\ k > found[ahead])
      BY <2>1, <2>3, <1>e, <1>f, SMT
    <3>2. ~(\E j \in DOMAIN visited : visited[j] > k)
      BY <2>3, <2>1, <1>i, <1>e, <1>v, SMT DEF Ordered
    <3>3. ASSUME Len(found) = ahead, k > found[ahead] PROVE FALSE
      <4>1. ~(\E i \in DOMAIN found : found[i] > k)
        BY SMTT(60), <3>3, <2>1, <1>d, <1>e, SMTT(30)
      <4>2. k < next' /\ Trusted'
        BY Zenon, <3>2, <4>1, <1>a, <1>b, <1>r DEF Reached
      <4>3. next' = found[ahead] + 1
        BY <4>2, <1>a, <1>g, <1>e, <3>3, SMT DEF Trusted
      <4> QED BY <3>3, <4>2, <4>3, <2>1, <1>d, <1>e, SMT
    <3> QED BY Zenon, <3>1, <3>3 DEF Shows
  <2> QED BY <2>1, <2>2, <2>3, <1>e, SMT
<1>6. Ends'
  BY Zenon, <1>i, <1>a, <1>c DEF Ends
<1>7. WholePages'
  <2> SUFFICES ASSUME kind = "nodes", failures = 0
               PROVE  /\ \E n \in Nat : Len(visited) = n * ahead
                      /\ \E n \in Nat : Len(visited) = n * ahead + 0
                      /\ 0 <= Len(found)
                      /\ next' = Unknown \/ Len(found) = ahead
    BY Zenon, <1>a, <1>b DEF WholePages
  <2>1. PICK n \in Nat : Len(visited) = n * ahead
    BY Zenon, <1>i, <1>a DEF WholePages
  <2>2. n * ahead \in Nat
    BY <1>e, SMT
  <2>3. Len(visited) = n * ahead + 0
    BY <2>1, <2>2, SMT
  <2>4. next' = Unknown \/ Len(found) = ahead
    BY Zenon, <1>g
  <2>5. 0 <= Len(found)
    BY <1>d, SMT
  <2> QED BY Zenon, <2>1, <2>3, <2>4, <2>5
<1>8. ValsHeld'
  BY Zenon, <1>a DEF ValsHeld
<1>9. VisitsAll' /\ OverrunCauses'
  BY Zenon, <1>c DEF VisitsAll, OverrunCauses
<1> QED BY Zenon, <1>1, <1>2, <1>3, <1>4, <1>5, <1>6, <1>7, <1>8, <1>9 DEF LoopInv

\* full_scan_collection: it gives up at a page of one key or none.
LEMMA FetchForFullScanKeeps ==
    ASSUME LoopInv, FetchForFullScan
    PROVE  LoopInv'
<1>i. TypeOK /\ Control /\ Ordered /\ Present /\ Covered /\ Ends
  BY Zenon DEF LoopInv
<1>a. /\ pc = "fetch" /\ kind = "full"
      /\ UNCHANGED <<contents, writes, held, failures, kind, lo, hi, ahead, next,
                     vals, offset, stop, visited>>
  BY Zenon DEF FetchForFullScan, store, loop
<1>b. PICK found \in Pages :
          /\ IsScan(found, next, Limit) /\ items' = found
          /\ pc' = IF Len(found) <= 1 THEN "done" ELSE "read"
  BY Zenon DEF FetchForFullScan
<1>d. /\ found \in Seq(Keys) /\ Len(found) \in Nat /\ DOMAIN found = 1..Len(found)
      /\ \A i, j \in DOMAIN found : i < j => found[i] < found[j]
      /\ \A i \in DOMAIN found : found[i] \in Keys
      /\ found = << >> <=> Len(found) = 0
  BY Zenon, PageFacts, SeqFacts
<1>e. /\ Unknown \in Nat \ {0} /\ Limit \in Nat /\ Limit >= 2
      /\ next \in 0..Unknown /\ Keys = 0..Unknown - 1
      /\ lo \in 0..Unknown /\ offset = 0
  <2>1. ahead \in Nat \ {0}
    BY Zenon, <1>i, BoundsAssumption DEF TypeOK
  <2>2. Limit \in Nat /\ Limit >= 2
    BY <2>1, <1>a, SMT DEF Limit
  <2> QED BY Zenon, <2>2, <1>i, <1>a, BoundsAssumption DEF TypeOK, Keys, Control
<1>f. /\ Len(found) <= Limit
      /\ \A i \in DOMAIN found : found[i] >= next /\ contents[found[i]] # Missing
      /\ \A k \in next..Unknown - 1 :
            contents[k] # Missing =>
                Shows(found, k) \/ (Len(found) = Limit /\ k > found[Limit])
  BY Zenon, <1>b DEF IsScan
<1>r. Rest = {} /\ Rest' = IF pc' = "read" THEN DOMAIN found ELSE {}
  BY <1>a, <1>b, <1>d, <1>e, SMT DEF Rest, Busy
<1>v. visited \in Seq(Keys) /\ DOMAIN visited = 1..Len(visited) /\ Len(visited) \in Nat
      /\ \A j \in DOMAIN visited : visited[j] \in Keys
  BY Zenon, <1>i, SeqFacts DEF TypeOK
<1>p. pc' \in {"read", "done"}
  BY Zenon, <1>b
<1>1. TypeOK'
  BY Zenon, <1>i, <1>a, <1>b, <1>d, <1>p DEF TypeOK
<1>2. Control'
  <2>1. pc' = "read" => found # << >>
    BY <1>b, <1>d, SMT
  <2> QED BY Zenon, <2>1, <1>i, <1>a, <1>b, <1>p DEF Control, Reads
<1>3. Ordered'
  <2>1. \A j \in DOMAIN visited : visited[j] < next
    BY Zenon, <1>i DEF Ordered
  <2>2. \A j \in DOMAIN visited, i \in DOMAIN found : visited[j] < found[i]
    <3> SUFFICES ASSUME NEW j \in DOMAIN visited, NEW i \in DOMAIN found
                 PROVE  visited[j] < found[i]
      BY Zenon
    <3>1. visited[j] \in Int /\ found[i] \in Int /\ next \in Int
      BY <1>d, <1>e, <1>v, SMT
    <3> QED BY <3>1, <2>1, <1>f, SMT
  <2> QED BY Zenon, <1>i, <1>a, <1>b, <1>d, <1>r, <2>2 DEF Ordered
<1>4. Present'
  <2>1. \A i \in DOMAIN found : held[found[i]] # {Missing}
    BY <1>i, <1>d, <1>f, Zenon DEF Present
  <2> QED BY Zenon, <1>i, <1>a, <1>b, <2>1 DEF Present
<1>k. ASSUME NEW k \in lo..Unknown - 1, Stays(k)
      PROVE  k \in Keys /\ k \in Int /\ contents[k] # Missing
  <2>1. k \in Keys
    BY <1>e, SMT
  <2> QED BY <2>1, <1>k, <1>e, <1>i, SMT DEF Stays, Kept, KeptEdge, Present, Missing
<1>m. ASSUME NEW k \in lo..Unknown - 1, Stays(k)
      PROVE  k >= next => Shows(found, k) \/ (Len(found) = Limit /\ k > found[Limit])
  BY <1>m, <1>k, <1>e, <1>f, SMT
<1>5. Covered'
  <2> SUFFICES ASSUME NEW k \in lo..Unknown - 1, Stays(k), Reached(k)'
               PROVE  Visits(k) \/ \E i \in Rest' : found[i] = k
    BY Zenon, <1>a, <1>b DEF Covered, Stays, Kept, KeptEdge, Visits, Shows
  <2>1. CASE k < next /\ Trusted
    <3>1. Reached(k)
      BY Zenon, <2>1, <1>a DEF Reached
    <3> QED BY Zenon, <3>1, <1>i, <1>r DEF Covered
  <2>2. CASE \E j \in DOMAIN visited : visited[j] > k
    <3>1. Reached(k)
      BY Zenon, <2>2, <1>a DEF Reached
    <3> QED BY Zenon, <3>1, <1>i, <1>r DEF Covered
  <2>3. CASE (\E i \in Rest' : found[i] > k) /\ k >= next
    <3>1. pc' = "read" /\ Rest' = DOMAIN found
      BY Zenon, <2>3, <1>r
    <3>2. ~(Len(found) = Limit /\ k > found[Limit])
      <4>1. SUFFICES ASSUME Len(found) = Limit, k > found[Limit] PROVE FALSE
        BY Zenon
      <4>2. PICK i \in DOMAIN found : found[i] > k
        BY Zenon, <2>3, <3>1
      <4>3. Limit \in DOMAIN found /\ (i = Limit \/ i < Limit)
        BY <4>1, <1>d, <1>e, SMT
      <4>4. found[i] = found[Limit] \/ found[i] < found[Limit]
        BY Zenon, <4>3, <1>d
      <4>5. found[i] \in Int /\ found[Limit] \in Int /\ k \in Int
        BY <4>3, <1>d, <1>e, <1>k, SMT
      <4> QED BY <4>1, <4>2, <4>4, <4>5, SMT
    <3> QED BY Zenon, <3>1, <3>2, <2>3, <1>m DEF Shows
  <2>4. Trusted' = Trusted
    BY Zenon, <1>a DEF Trusted
  <2>5. (\E i \in Rest' : found[i] > k) => Trusted
    <3>1. SUFFICES ASSUME NEW i \in DOMAIN found PROVE next # Unknown
      BY Zenon, <1>r DEF Trusted
    <3>2. found[i] \in 0..Unknown - 1 /\ found[i] >= next
      BY Zenon, <1>d, <1>e, <1>f
    <3> QED BY <3>2, <1>e, SMT
  <2>6. k < next \/ k >= next
    BY <1>k, <1>e, SMT
  <2> QED BY Zenon, <2>1, <2>2, <2>3, <2>4, <2>5, <2>6, <1>a, <1>b DEF Reached
<1>6. Ends'
  BY Zenon, <1>i, <1>a DEF Ends
<1>7. WholePages' /\ ValsHeld' /\ OverrunCauses'
  BY Zenon, <1>a, <1>p DEF WholePages, ValsHeld, OverrunCauses
<1>8. VisitsAll'
  <2> SUFFICES ASSUME pc' = "done", failures = 0,
                      NEW j \in lo..Unknown - 1, NEW k \in lo..Unknown - 1,
                      Stays(j), ~Visits(j), Stays(k), ~Visits(k)
               PROVE  j = k
    BY Zenon, <1>a DEF VisitsAll, Stays, Kept, KeptEdge, Visits, Shows
  <2>1. Len(found) <= 1
    BY Zenon, <1>b
  <2>2. ASSUME NEW x \in lo..Unknown - 1, Stays(x), ~Visits(x)
        PROVE  Shows(found, x)
    <3>1. ~(x < next)
      <4>1. SUFFICES ASSUME x < next PROVE FALSE
        BY Zenon
      <4>2. Trusted
        BY Zenon, <1>a DEF Trusted
      <4>3. Reached(x)
        BY Zenon, <4>1, <4>2, <1>a DEF Reached
      <4> QED BY Zenon, <4>3, <2>2, <1>i, <1>r DEF Covered
    <3>2. x >= next
      BY <3>1, <2>2, <1>k, <1>e, SMT
    <3>3. Len(found) # Limit
      <4>1. Len(found) \in Nat /\ Limit \in Nat /\ Limit >= 2
        BY Zenon, <1>d, <1>e
      <4> QED BY <2>1, <4>1, SMT
    <3> QED BY Zenon, <3>2, <3>3, <2>2, <1>m
  <2>3. PICK a \in DOMAIN found : found[a] = j
    BY Zenon, <2>2 DEF Shows
  <2>4. PICK b \in DOMAIN found : found[b] = k
    BY Zenon, <2>2 DEF Shows
  <2>5. a = b
    BY <2>1, <1>d, SMT
  <2> QED BY Zenon, <2>3, <2>4, <2>5
<1> QED BY Zenon, <1>1, <1>2, <1>3, <1>4, <1>5, <1>6, <1>7, <1>8 DEF LoopInv

\* pairs_stream_t::prefetch and ukv_docs_read: the values of the page.
LEMMA ReadValuesKeeps ==
    ASSUME LoopInv, ReadValues
    PROVE  LoopInv'
<1>i. TypeOK /\ Control /\ Ordered /\ Present /\ Covered /\ Ends
  BY Zenon DEF LoopInv
<1>a. /\ pc = "read" /\ kind # "edges"
      /\ UNCHANGED <<contents, writes, held, failures, kind, lo, hi, ahead, next,
                     items, offset, stop, visited>>
      /\ vals' = [i \in DOMAIN items |->
                    IF contents[items[i]] = Missing THEN 0 ELSE contents[items[i]]]
  BY Zenon DEF ReadValues, store, loop
<1>b. kind \in {"range", "python", "docs", "full"}
  BY Zenon, <1>i, <1>a DEF Control, Reads
<1>c. /\ pc' \in {"ending", "loop"}
      /\ pc' = "ending" <=> (kind = "range" /\ visited = << >>)
  BY Zenon, <1>i, <1>a, <1>b DEF ReadValues, Resumes, Control
<1>d. items \in Seq(Keys) /\ Len(items) \in Nat /\ DOMAIN items = 1..Len(items)
      /\ \A i \in DOMAIN items : items[i] \in Keys
  BY Zenon, <1>i, SeqFacts DEF TypeOK
<1>r. Rest' = Rest
  BY Zenon, <1>a, <1>c DEF Rest, Busy
<1>e. \A k \in Keys : contents[k] \in held[k] /\ contents[k] \in Contents
  BY Zenon, <1>i DEF Present, TypeOK
<1>1. TypeOK'
  <2>1. \A i \in DOMAIN items :
          (IF contents[items[i]] = Missing THEN 0 ELSE contents[items[i]]) \in {0, 1}
    BY Zenon, <1>d, <1>e DEF Contents
  <2>2. vals' \in [1..Len(items) -> {0, 1}]
    BY Zenon, <1>a, <1>d, <2>1
  <2>3. vals' \in Seq({0, 1})
    BY <2>2, <1>d, SMT
  <2> QED BY Zenon, <1>i, <1>a, <1>c, <2>3 DEF TypeOK
<1>2. Control'
  <2>1. pc' = "loop" /\ kind = "full" => items # << >>
    BY Zenon, <1>i, <1>a DEF Control
  <2>2. kind \in {"range", "python", "docs"} => offset < Len(items) \/ next = Unknown
    BY Zenon, <1>i, <1>a DEF Control
  <2> QED BY Zenon, <1>i, <1>a, <1>b, <1>c, <2>1, <2>2 DEF Control
<1>3. Ordered' /\ Present'
  BY Zenon, <1>i, <1>a, <1>r DEF Ordered, Present
<1>4. Covered'
  BY Zenon, <1>i, <1>a, <1>c, <1>r
     DEF Covered, Reached, Trusted, Stays, Kept, KeptEdge, Visits, Shows
<1>5. Ends'
  BY Zenon, <1>i, <1>a, <1>c DEF Ends
<1>6. WholePages' /\ VisitsAll' /\ OverrunCauses'
  BY Zenon, <1>a, <1>b, <1>c DEF WholePages, VisitsAll, OverrunCauses
<1>7. ValsHeld'
  <2>1. Len(vals') = Len(items)
    BY <1>a, <1>d, SMT
  <2>2. ASSUME NEW i \in DOMAIN items
        PROVE  vals'[i] \in held[items[i]] \/ (vals'[i] = 0 /\ Missing \in held[items[i]])
    BY Zenon, <1>a, <1>d, <1>e
  <2> QED BY Zenon, <2>1, <2>2, <1>a DEF ValsHeld
<1> QED BY Zenon, <1>1, <1>2, <1>3, <1>4, <1>5, <1>6, <1>7 DEF LoopInv

\* graph_stream_t::prefetch_gather: what is left of the page are its edges.
LEMMA ReadEdgesKeeps ==
    ASSUME LoopInv, ReadEdges
    PROVE  LoopInv'
<1>i. TypeOK /\ Control /\ Ordered /\ Present /\ Covered /\ Ends
  BY Zenon DEF LoopInv
<1>a. /\ pc = "read" /\ kind = "edges"
      /\ UNCHANGED <<contents, writes, held, failures, kind, lo, hi, ahead, next,
                     vals, offset, stop, visited>>
  BY Zenon DEF ReadEdges, store, loop
<1>b. PICK found \in Pages :
          /\ \A k \in Keys : Shows(found, k) <=> (Shows(items, k) /\ contents[k] = 1)
          /\ items' = found
  BY Zenon DEF ReadEdges
<1>c. pc' = "loop"
  BY Zenon, <1>a DEF ReadEdges, Resumes
<1>d. /\ found \in Seq(Keys) /\ Len(found) \in Nat /\ DOMAIN found = 1..Len(found)
      /\ \A i, j \in DOMAIN found : i < j => found[i] < found[j]
      /\ \A i \in DOMAIN found : found[i] \in Keys
      /\ found = << >> <=> Len(found) = 0
  BY Zenon, PageFacts, SeqFacts
<1>e. /\ items \in Seq(Keys) /\ Len(items) \in Nat /\ DOMAIN items = 1..Len(items)
      /\ offset = 0
  BY Zenon, <1>i, <1>a, SeqFacts DEF TypeOK, Control
<1>f. \A i \in DOMAIN found : \E j \in DOMAIN items : items[j] = found[i]
  BY Zenon, <1>b, <1>d DEF Shows
<1>r. Rest = DOMAIN items /\ Rest' = DOMAIN found
  BY <1>a, <1>b, <1>c, <1>d, <1>e, SMT DEF Rest, Busy
<1>1. TypeOK'
  BY Zenon, <1>i, <1>a, <1>b, <1>c, <1>d DEF TypeOK
<1>2. Control'
  <2>1. offset < Len(found) \/ found = << >>
    BY <1>d, <1>e, SMT
  <2> QED BY Zenon, <2>1, <1>i, <1>a, <1>b, <1>c DEF Control
<1>3. Ordered'
  BY <1>i, <1>a, <1>b, <1>d, <1>f, <1>r DEF Ordered
<1>4. Present'
  BY <1>i, <1>a, <1>b, <1>f DEF Present
<1>5. Covered'
  <2> SUFFICES ASSUME NEW k \in lo..Unknown - 1, Stays(k), Reached(k)'
               PROVE  Visits(k) \/ \E i \in DOMAIN found : found[i] = k
    BY Zenon, <1>a, <1>b, <1>r DEF Covered, Stays, Kept, KeptEdge, Visits, Shows
  <2>1. Reached(k)
    BY Zenon, <1>a, <1>b, <1>f, <1>r DEF Reached, Trusted
  <2>2. Visits(k) \/ Shows(items, k)
    BY Zenon, <2>1, <1>i, <1>r DEF Covered, Shows
  <2>3. k \in Keys
    <3>1. lo \in Nat
      BY <1>i, BoundsAssumption, SMT DEF TypeOK
    <3> QED BY <3>1, BoundsAssumption, SMT DEF Keys
  <2>4. contents[k] = 1
    BY Zenon, <2>3, <1>a, <1>i DEF Stays, KeptEdge, Present
  <2> QED BY Zenon, <2>2, <2>3, <2>4, <1>b DEF Shows
<1>6. Ends' /\ WholePages' /\ VisitsAll' /\ OverrunCauses'
  BY Zenon, <1>i, <1>a, <1>c DEF Ends, WholePages, VisitsAll, OverrunCauses
<1>7. ValsHeld'
  BY Zenon, <1>i, <1>a DEF ValsHeld, Control
<1> QED BY Zenon, <1>1, <1>2, <1>3, <1>4, <1>5, <1>6, <1>7 DEF LoopInv

\* A scan that fails leaves the stream without a page.
LEMMA FetchFailsKeeps ==
    ASSUME LoopInv, FetchFails
    PROVE  LoopInv'
<1>i. TypeOK /\ Control /\ Ordered /\ Present /\ Covered /\ Ends
  BY Zenon DEF LoopInv
<1>a. /\ pc = "fetch" /\ (next # Unknown \/ kind = "full")
      /\ UNCHANGED <<contents, writes, held, kind, lo, hi, ahead, stop, visited>>
      /\ items' = << >> /\ vals' = << >> /\ offset' = 0
      /\ failures < MaxFailures /\ failures' = failures + 1
  BY Zenon DEF FetchFails, store, loop
<1>b. pc = "fetch" /\ failures \in Nat /\ failures' \in 0..MaxFailures /\ failures' > 0
  BY <1>i, <1>a, BoundsAssumption, SMT DEF TypeOK, FetchFails
<1>c. /\ pc' \in {"done", "loop", "item"}
      /\ pc' = "item" => kind = "nodes"
      /\ pc' = "loop" => kind # "full" /\ visited # << >>
      /\ next' \in {next, Unknown}
      /\ pc' = "loop" => kind \in {"batch", "nodes", "edges"} \/ next' = Unknown
      /\ next' # next => kind \in {"range", "python", "docs"}
  BY Zenon, <1>i DEF FetchFails, Resumes, TypeOK, Kinds
<1>d. DOMAIN items' = {}
  BY <1>a, SMT
<1>r. Rest = {} /\ Rest' = {}
  BY Zenon, <1>b, <1>d DEF Rest, Busy
<1>e. Unknown \in Nat /\ next \in 0..Unknown /\ Keys = 0..Unknown - 1
  BY Zenon, <1>i, BoundsAssumption DEF TypeOK, Keys
<1>v. visited \in Seq(Keys) /\ DOMAIN visited = 1..Len(visited) /\ Len(visited) \in Nat
      /\ \A j \in DOMAIN visited : visited[j] \in Keys
  BY Zenon, <1>i, SeqFacts DEF TypeOK
<1>1. TypeOK'
  <2>1. items' \in Seq(Keys) /\ vals' \in Seq({0, 1}) /\ offset' \in Nat
    BY <1>a
  <2>2. next' \in 0..Unknown
    BY <1>c, <1>e, SMT
  <2> QED BY Zenon, <1>i, <1>a, <1>b, <1>c, <2>1, <2>2 DEF TypeOK
<1>2. Control'
  BY Zenon, <1>i, <1>a, <1>c DEF Control
<1>3. Ordered'
  <2>1. \A j \in DOMAIN visited : visited[j] < next'
    BY <1>i, <1>c, <1>e, <1>v, SMT DEF Ordered
  <2> QED BY Zenon, <2>1, <1>i, <1>a, <1>d, <1>r DEF Ordered
<1>4. Present'
  BY Zenon, <1>i, <1>a, <1>d DEF Present
<1>5. Covered'
  <2> SUFFICES ASSUME NEW k \in lo..Unknown - 1, Stays(k), Reached(k)'
               PROVE  Visits(k)
    BY Zenon, <1>a DEF Covered, Stays, Kept, KeptEdge, Visits, Shows
  <2>1. pc' # "done" /\ k < next' /\ Trusted' => next' = next /\ next # Unknown
    <3>1. pc' # "done" => kind # "full"
      BY Zenon, <1>c
    <3>2. next' = Unknown /\ next # Unknown => kind \in {"range", "python", "docs"}
      BY Zenon, <1>c
    <3>3. next' = Unknown /\ next # Unknown => ~Trusted'
      BY <3>2, <1>a, <1>b, SMT DEF Trusted
    <3> QED BY Zenon, <3>1, <3>3, <1>a, <1>c
  <2>2. Reached(k)
    BY Zenon, <2>1, <1>a, <1>b, <1>r DEF Reached, Trusted
  <2> QED BY Zenon, <2>2, <1>i, <1>r DEF Covered
<1>6. Ends'
  BY Zenon, <1>i, <1>a, <1>c DEF Ends
<1>7. WholePages' /\ VisitsAll' /\ OverrunCauses'
  <2>1. failures' # 0
    BY <1>b, SMT
  <2> QED BY Zenon, <2>1, <1>b DEF WholePages, VisitsAll, OverrunCauses
<1>8. ValsHeld'
  BY Zenon, <1>a DEF ValsHeld
<1> QED BY Zenon, <1>1, <1>2, <1>3, <1>4, <1>5, <1>6, <1>7, <1>8 DEF LoopInv

\* pairs_end: the end stands at the first key that is not below the bound.
LEMMA MakeEndKeeps ==
    ASSUME LoopInv, MakeEnd
    PROVE  LoopInv'
<1>i. TypeOK /\ Control /\ Ordered /\ Present /\ Covered /\ Ends /\ ValsHeld
  BY Zenon DEF LoopInv
<1>a. /\ pc = "ending" /\ pc' = "loop" /\ kind = "range" /\ visited = << >>
      /\ UNCHANGED <<contents, writes, held, failures, kind, lo, hi, ahead, next,
                     items, vals, offset, visited>>
  BY Zenon, <1>i DEF MakeEnd, store, loop, page, Control
<1>b. PICK found \in Pages :
          /\ IsScan(found, hi, 1)
          /\ stop' = IF found = << >> THEN Unknown ELSE found[1]
  BY Zenon DEF MakeEnd
<1>d. /\ found \in Seq(Keys) /\ Len(found) \in Nat /\ DOMAIN found = 1..Len(found)
      /\ \A i \in DOMAIN found : found[i] \in Keys
      /\ found = << >> <=> Len(found) = 0
  BY Zenon, PageFacts, SeqFacts
<1>e. Unknown \in Nat /\ hi \in 0..Unknown /\ Keys = 0..Unknown - 1
  BY <1>i, BoundsAssumption, SMT DEF TypeOK, Keys
<1>f. /\ Len(found) <= 1
      /\ \A i \in DOMAIN found : found[i] >= hi
      /\ \A k \in hi..Unknown - 1 :
            contents[k] # Missing =>
                Shows(found, k) \/ (Len(found) = 1 /\ k > found[1])
  BY Zenon, <1>b DEF IsScan
<1>g. \/ found = << >> /\ stop' = Unknown /\ DOMAIN found = {}
      \/ /\ DOMAIN found = {1} /\ stop' = found[1]
         /\ found[1] \in 0..Unknown - 1 /\ found[1] >= hi
  <2>1. CASE found = << >>
    BY <2>1, <1>b, SMT
  <2>2. CASE found # << >>
    <3>1. Len(found) = 1 /\ DOMAIN found = {1}
      BY <2>2, <1>d, <1>f, SMT
    <3> QED BY Zenon, <2>2, <3>1, <1>b, <1>d, <1>e, <1>f
  <2> QED BY Zenon, <2>1, <2>2
<1>h. stop' \in 0..Unknown /\ (stop' # Unknown => stop' >= hi)
  BY <1>e, <1>g, SMT
<1>r. Rest' = Rest
  BY Zenon, <1>a DEF Rest, Busy
<1>1. TypeOK'
  BY Zenon, <1>i, <1>a, <1>h DEF TypeOK
<1>2. Control'
  <2>1. offset < Len(items) \/ next = Unknown
    BY Zenon, <1>i, <1>a DEF Control
  <2> QED BY Zenon, <2>1, <1>i, <1>a DEF Control
<1>3. Ordered' /\ Present'
  BY Zenon, <1>i, <1>a, <1>r DEF Ordered, Present
<1>4. Covered'
  BY Zenon, <1>i, <1>a, <1>r
     DEF Covered, Reached, Trusted, Stays, Kept, KeptEdge, Visits, Shows
<1>5. Ends'
  <2>1. ASSUME NEW k \in hi..Unknown - 1, k < stop', Missing \notin held[k] PROVE FALSE
    <3>1. k \in Keys /\ k \in Int
      BY <1>e, SMT
    <3>2. contents[k] # Missing
      BY Zenon, <3>1, <2>1, <1>i DEF Present
    <3>3. Shows(found, k) \/ (Len(found) = 1 /\ k > found[1])
      BY Zenon, <3>2, <1>f
    <3>4. CASE found = << >> /\ DOMAIN found = {}
      BY <3>3, <3>4, SMT DEF Shows
    <3>5. CASE DOMAIN found = {1} /\ stop' = found[1]
      BY <3>1, <3>3, <3>5, <2>1, <1>e, <1>g, SMT DEF Shows
    <3> QED BY Zenon, <3>4, <3>5, <1>g
  <2>2. visited' = << >> /\ DOMAIN visited' = {} /\ Len(visited') = 0
    BY <1>a, SMT
  <2> QED BY Zenon, <2>1, <2>2, <1>a, <1>h DEF Ends
<1>6. WholePages' /\ VisitsAll' /\ OverrunCauses'
  BY Zenon, <1>a DEF WholePages, VisitsAll, OverrunCauses
<1>7. ValsHeld'
  BY Zenon, <1>i, <1>a DEF ValsHeld
<1> QED BY Zenon, <1>1, <1>2, <1>3, <1>4, <1>5, <1>6, <1>7 DEF LoopInv

\* The loop comes to its end.
LEMMA DoneKeeps ==
    ASSUME LoopInv, pc = "loop", pc' = "done", VisitsAll',
           UNCHANGED <<store, failures, loop, page, stop, visited>>
    PROVE  LoopInv'
<1>i. TypeOK /\ Control /\ Ordered /\ Present /\ Covered /\ Ends
  BY Zenon DEF LoopInv
<1>a. UNCHANGED <<contents, writes, held, failures, kind, lo, hi, ahead, next,
                  items, vals, offset, stop, visited>>
  BY Zenon DEF store, loop, page
<1>r. Rest' = {} /\ Rest \subseteq DOMAIN items
  BY Zenon DEF Rest, Busy
<1>v. /\ \A j \in DOMAIN visited : visited[j] \in Int
      /\ \A i \in DOMAIN items : items[i] \in Int
  BY <1>i, SeqFacts, BoundsAssumption, SMT DEF TypeOK, Keys
<1>1. TypeOK' /\ Control' /\ Present'
  BY Zenon, <1>i, <1>a DEF TypeOK, Control, Present
<1>2. Ordered'
  BY Zenon, <1>i, <1>a, <1>r DEF Ordered
<1>3. Covered'
  <2> SUFFICES ASSUME NEW k \in lo..Unknown - 1, Stays(k),
                      NEW j \in DOMAIN visited, visited[j] > k
               PROVE  Visits(k)
    BY <1>a, <1>r DEF Covered, Reached, Stays, Kept, KeptEdge, Visits, Shows
  <2>1. Visits(k) \/ \E i \in Rest : items[i] = k
    BY Zenon, <1>i DEF Covered, Reached
  <2>2. ASSUME NEW i \in Rest, items[i] = k PROVE FALSE
    <3>1. visited[j] < items[i]
      BY Zenon, <1>i DEF Ordered
    <3> QED BY <3>1, <2>2, <1>r, <1>v, SMT
  <2> QED BY Zenon, <2>1, <2>2
<1>4. Ends'
  BY Zenon, <1>i, <1>a DEF Ends
<1>5. WholePages' /\ ValsHeld' /\ OverrunCauses'
  BY Zenon DEF WholePages, ValsHeld, OverrunCauses
<1> QED BY Zenon, <1>1, <1>2, <1>3, <1>4, <1>5 DEF LoopInv

\* A visited element moves from the page to what was visited.
LEMMA VisitMoves ==
    ASSUME LoopInv, pc = "loop", kind # "full", offset < Len(items), Visit,
           UNCHANGED <<store, failures, loop, next, items, vals, stop>>,
           \/ pc' = "loop" /\ offset' = offset + 1
           \/ pc' = "fetch" /\ offset' = offset /\ offset >= Len(items) - 1
    PROVE  /\ offset + 1 \in DOMAIN items
           /\ visited' \in Seq(Keys) /\ visited' # << >>
           /\ Len(visited') = Len(visited) + 1
           /\ DOMAIN visited' = 1..Len(visited) + 1
           /\ \A j \in DOMAIN visited : visited'[j] = visited[j]
           /\ visited'[Len(visited) + 1] = items[offset + 1]
           /\ Ordered' /\ Present' /\ Covered'
<1>i. TypeOK /\ Control /\ Ordered /\ Present /\ Covered
  BY Zenon DEF LoopInv
<1>a. UNCHANGED <<contents, writes, held, failures, kind, lo, hi, ahead, next,
                  items, vals, stop>>
  BY Zenon DEF store, loop
<1> DEFINE x == items[offset + 1]
           n == Len(visited)
<1>b. /\ items \in Seq(Keys) /\ Len(items) \in Nat /\ DOMAIN items = 1..Len(items)
      /\ \A i \in DOMAIN items : items[i] \in Keys
  BY Zenon, <1>i, SeqFacts DEF TypeOK
<1>c. /\ visited \in Seq(Keys) /\ n \in Nat /\ DOMAIN visited = 1..n
      /\ \A j \in DOMAIN visited : visited[j] \in Keys
  BY Zenon, <1>i, SeqFacts DEF TypeOK
<1>d. offset \in Nat /\ offset + 1 \in DOMAIN items
  BY <1>i, <1>b, SMT DEF TypeOK
<1>e. x \in Keys
  BY Zenon, <1>b, <1>d
<1>f. visited' = Append(visited, x)
  BY Zenon DEF Visit
<1> HIDE DEF x
<1>g. /\ visited' \in Seq(Keys) /\ Len(visited') = n + 1
      /\ \A j \in DOMAIN visited : visited'[j] = visited[j]
      /\ visited'[n + 1] = x
  BY <1>c, <1>e, <1>f, AppendFacts
<1>h. DOMAIN visited' = 1..n + 1 /\ visited' # << >>
  <2>1. DOMAIN visited' = 1..Len(visited') /\ (visited' = << >> <=> Len(visited') = 0)
    BY Zenon, <1>g, SeqFacts
  <2> QED BY <2>1, <1>g, <1>c, SMT
<1>j. \A j \in DOMAIN visited' : j \in DOMAIN visited \/ j = n + 1
  BY <1>h, <1>c, SMT
<1>k. \A k \in Keys : k \in Int
  BY BoundsAssumption, SMT DEF Keys
<1>r. /\ offset + 1 \in Rest
      /\ Rest' \subseteq Rest
      /\ \A i \in Rest : i = offset + 1 \/ i \in Rest'
      /\ \A i \in Rest' : i > offset + 1 /\ i \in DOMAIN items
  BY <1>a, <1>b, <1>d, SMT DEF Rest, Busy
<1>s. \A i \in Rest' : x < items[i]
  <2> SUFFICES ASSUME NEW i \in Rest' PROVE x < items[i]
    BY Zenon
  <2>1. i \in DOMAIN items /\ offset + 1 < i
    BY Zenon, <1>r, <1>b, <1>d
  <2> QED BY Zenon, <2>1, <1>d, <1>i DEF Ordered, x
<1>t. \A j \in DOMAIN visited : visited[j] < x
  BY Zenon, <1>r, <1>i DEF Ordered, x
<1>1. Ordered'
  <2>1. ASSUME NEW i \in DOMAIN visited', NEW j \in DOMAIN visited', i < j
        PROVE  visited'[i] < visited'[j]
    <3>1. i \in DOMAIN visited
      BY <2>1, <1>h, <1>c, SMT
    <3>2. CASE j \in DOMAIN visited
      BY Zenon, <2>1, <3>1, <3>2, <1>g, <1>i DEF Ordered
    <3>3. CASE j = n + 1
      BY Zenon, <3>1, <3>3, <1>g, <1>t
    <3> QED BY Zenon, <3>2, <3>3, <1>j
  <2>2. ASSUME NEW j \in DOMAIN visited', NEW i \in Rest'
        PROVE  visited'[j] < items[i]
    <3>1. CASE j \in DOMAIN visited
      BY Zenon, <3>1, <1>g, <1>i, <1>r DEF Ordered
    <3>2. CASE j = n + 1
      BY Zenon, <3>2, <1>g, <1>s
    <3> QED BY Zenon, <3>1, <3>2, <1>j
  <2>3. ASSUME NEW j \in DOMAIN visited' PROVE visited'[j] < next
    <3>1. x < next
      BY Zenon, <1>d, <1>i DEF Ordered, x
    <3>2. CASE j \in DOMAIN visited
      BY Zenon, <3>2, <1>g, <1>i DEF Ordered
    <3>3. CASE j = n + 1
      BY Zenon, <3>1, <3>3, <1>g
    <3> QED BY Zenon, <3>2, <3>3, <1>j
  <2> QED BY Zenon, <2>1, <2>2, <2>3, <1>i, <1>a DEF Ordered
<1>2. Present'
  <2>1. held[x] # {Missing}
    BY Zenon, <1>d, <1>i DEF Present, x
  <2> QED BY Zenon, <2>1, <1>i, <1>a, <1>g, <1>j DEF Present
<1>3. Covered'
  <2> SUFFICES ASSUME NEW k \in lo..Unknown - 1, Stays(k), Reached(k)'
               PROVE  Visits(k)' \/ \E i \in Rest' : items[i] = k
    BY Zenon, <1>a DEF Covered, Stays, Kept, KeptEdge, Visits, Shows
  <2>1. k < next /\ Trusted => Reached(k)
    BY Zenon DEF Reached
  <2>2. Reached(k)
    <3>1. CASE \E i \in Rest' : items[i] > k
      BY Zenon, <3>1, <1>r DEF Reached
    <3>2. CASE \E j \in DOMAIN visited' : visited'[j] > k
      <4>1. PICK j \in DOMAIN visited' : visited'[j] > k
        BY Zenon, <3>2
      <4>2. CASE j \in DOMAIN visited
        BY Zenon, <4>1, <4>2, <1>g DEF Reached
      <4>3. CASE j = n + 1
        BY Zenon, <4>1, <4>3, <1>g, <1>r DEF Reached, x
      <4> QED BY Zenon, <4>2, <4>3, <1>j
    <3> QED BY Zenon, <2>1, <3>1, <3>2, <1>a DEF Reached, Trusted
  <2>3. CASE Visits(k)
    <3>1. PICK j \in DOMAIN visited : visited[j] = k
      BY Zenon, <2>3 DEF Visits, Shows
    <3>2. j \in DOMAIN visited'
      BY <1>c, <1>h, SMT
    <3> QED BY Zenon, <3>1, <3>2, <1>g DEF Visits, Shows
  <2>4. ASSUME NEW i \in Rest, items[i] = k
        PROVE  Visits(k)' \/ \E m \in Rest' : items[m] = k
    <3>1. CASE i \in Rest'
      BY Zenon, <3>1, <2>4
    <3>2. CASE i = offset + 1
      <4>1. n + 1 \in DOMAIN visited'
        BY <1>c, <1>h, SMT
      <4> QED BY Zenon, <4>1, <3>2, <2>4, <1>g DEF Visits, Shows, x
    <3> QED BY Zenon, <3>1, <3>2, <1>r
  <2> QED BY Zenon, <2>2, <2>3, <2>4, <1>i DEF Covered
<1> QED BY Zenon, <1>1, <1>2, <1>3, <1>d, <1>g, <1>h DEF x

\* One round of a loop that visits its elements one by one.
LEMMA TurnKeeps ==
    ASSUME LoopInv, pc = "loop", kind \in {"range", "python", "docs", "edges"},
           Turn, stop' = stop,
           kind = "range" => Differs,
           kind \in {"python", "docs"} =>
               ~IsEnd /\ (visited # << >> => visited[Len(visited)] # hi),
           kind = "edges" => ~IsEnd
    PROVE  LoopInv'
<1>i. TypeOK /\ Control /\ Ordered /\ Present /\ Covered /\ Ends /\ ValsHeld
  BY Zenon DEF LoopInv
<1>a. UNCHANGED <<contents, writes, held, failures, kind, lo, hi, ahead, next,
                  items, vals, stop>>
  BY Zenon DEF Turn, store, loop
<1>b. /\ items \in Seq(Keys) /\ Len(items) \in Nat /\ DOMAIN items = 1..Len(items)
      /\ \A i \in DOMAIN items : items[i] \in Keys
      /\ items = << >> <=> Len(items) = 0
  BY Zenon, <1>i, SeqFacts DEF TypeOK
<1>c. /\ visited \in Seq(Keys) /\ Len(visited) \in Nat
      /\ DOMAIN visited = 1..Len(visited)
      /\ visited = << >> <=> Len(visited) = 0
  BY Zenon, <1>i, SeqFacts DEF TypeOK
<1>d. offset \in Nat
  BY Zenon, <1>i DEF TypeOK
<1>e. /\ Unknown \in Nat \ {0} /\ Keys = 0..Unknown - 1 /\ lo \in Nat
      /\ stop \in 0..Unknown /\ hi \in Nat /\ lo <= hi
  BY <1>i, BoundsAssumption, SMT DEF TypeOK, Keys
<1>1. CASE offset < Len(items)
  <2>1. Visit /\ Advance
    BY Zenon, <1>1 DEF Turn
  <2>2. \/ pc' = "loop" /\ offset' = offset + 1
        \/ /\ pc' = "fetch" /\ offset' = offset /\ offset >= Len(items) - 1
           /\ kind # "docs"
    BY Zenon, <2>1 DEF Advance
  <2>3. /\ offset + 1 \in DOMAIN items
        /\ visited' \in Seq(Keys) /\ visited' # << >>
        /\ Len(visited') = Len(visited) + 1
        /\ DOMAIN visited' = 1..Len(visited) + 1
        /\ \A j \in DOMAIN visited : visited'[j] = visited[j]
        /\ visited'[Len(visited) + 1] = items[offset + 1]
        /\ Ordered' /\ Present' /\ Covered'
    <3>1. UNCHANGED <<store, failures, loop, next, items, vals, stop>>
      BY Zenon DEF Turn
    <3> QED BY Zenon, <1>1, <2>1, <2>2, <3>1, VisitMoves
  <2>4. TypeOK'
    <3>1. offset' \in Nat
      BY <1>d, <2>2, SMT
    <3> QED BY Zenon, <1>i, <1>a, <2>2, <2>3, <3>1 DEF TypeOK
  <2>5. Control'
    <3>1. pc' = "loop" => offset + 1 < Len(items) \/ kind = "docs"
      BY <2>1, <1>b, <1>d, SMT DEF Advance
    <3>2. kind = "docs" => next = Unknown
      BY Zenon, <1>i DEF Control
    <3>3. pc' = "fetch" => offset + 1 >= Len(items)
      BY <2>2, <1>b, <1>d, SMT
    <3> QED BY Zenon, <3>1, <3>2, <3>3, <2>2, <2>3, <1>i, <1>a DEF Control
  <2>6. Ends'
    <3>1. items[offset + 1] # stop
      <4>1. items[offset + 1] \in 0..Unknown - 1
        BY Zenon, <2>3, <1>b, <1>e
      <4>2. stop = Unknown => items[offset + 1] # stop
        BY <4>1, <1>e, SMT
      <4>3. stop # Unknown => kind = "range" /\ ~IsEnd
        BY <1>i, <1>1, <1>b, <1>d, SMT DEF Ends, IsEnd
      <4> QED BY Zenon, <4>2, <4>3 DEF Differs
    <3>2. \A j \in DOMAIN visited' : visited'[j] # stop
      <4> SUFFICES ASSUME NEW j \in DOMAIN visited' PROVE visited'[j] # stop
        BY Zenon
      <4>1. j \in DOMAIN visited \/ j = Len(visited) + 1
        BY <2>3, <1>c, SMT
      <4> QED BY Zenon, <4>1, <2>3, <3>1, <1>i DEF Ends
    <3>3. ASSUME kind \in {"python", "docs"}, NEW j \in 1..Len(visited') - 1
          PROVE  visited'[j] # hi
      <4>1. j \in DOMAIN visited /\ (j = Len(visited) \/ j \in 1..Len(visited) - 1)
        <5>1. j \in 1..Len(visited)
          BY <2>3, <1>c, <3>3, SMT
        <5>2. Len(visited) \in Nat /\ DOMAIN visited = 1..Len(visited)
          BY Zenon, <1>c
        <5>3. \A n \in Nat : \A i \in 1..n : i = n \/ i \in 1..n - 1
          BY SMT
        <5> QED BY <5>1, <5>2, <5>3, Zenon
      <4>2. visited # << >>
        BY <4>1, <1>c, SMT
      <4> QED BY Zenon, <4>1, <4>2, <3>3, <2>3, <1>i DEF Ends
    <3> QED BY Zenon, <3>2, <3>3, <1>i, <1>a DEF Ends
  <2>7. ValsHeld'
    BY Zenon, <1>i, <1>a, <2>2 DEF ValsHeld
  <2>8. WholePages' /\ VisitsAll' /\ OverrunCauses'
    BY Zenon, <1>a, <2>2 DEF WholePages, VisitsAll, OverrunCauses
  <2> QED BY Zenon, <2>3, <2>4, <2>5, <2>6, <2>7, <2>8 DEF LoopInv
<1>2. CASE ~(offset < Len(items))
  <2>1. pc' = "overrun" /\ visited' = visited /\ offset' = offset
    BY Zenon, <1>2 DEF Turn
  <2>2. Rest = {} /\ Rest' = {}
    BY SMTT(60), <1>2, <1>a, <1>b, <1>d, <2>1, SMT DEF Rest, Busy
  <2>3. TypeOK' /\ Control' /\ Present'
    BY Zenon, <1>i, <1>a, <2>1 DEF TypeOK, Control, Present
  <2>4. Ordered'
    BY Zenon, <1>i, <1>a, <2>1, <2>2 DEF Ordered
  <2>5. Covered'
    BY Zenon, <1>i, <1>a, <2>1, <2>2
       DEF Covered, Reached, Trusted, Stays, Kept, KeptEdge, Visits, Shows
  <2>6. Ends'
    BY Zenon, <1>i, <1>a, <2>1 DEF Ends
  <2>7. WholePages' /\ VisitsAll'
    BY Zenon, <1>a, <2>1 DEF WholePages, VisitsAll
  <2>8. ValsHeld'
    BY Zenon, <1>i, <1>a, <2>1 DEF ValsHeld
  <2>9. OverrunCauses'
    <3>1. kind \in {"range", "python", "docs"} => next = Unknown /\ IsEnd
      BY <1>2, <1>i, <1>b, <1>d, SMT DEF Control, IsEnd
    <3>2. kind \notin {"python", "docs"}
      BY Zenon, <3>1
    <3>3. CASE kind = "edges"
      BY Zenon, <3>3, <1>2, <1>i, <1>a DEF Control, OverrunCauses
    <3>4. CASE kind = "range"
      <4>1. stop # Unknown /\ next = Unknown
        BY Zenon, <3>1, <3>4 DEF Differs
      <4>2. stop \in lo..Unknown - 1
        <5>1. stop >= hi
          BY Zenon, <4>1, <1>i DEF Ends
        <5> QED BY <4>1, <5>1, <1>e, SMT
      <4>3. ASSUME failures = 0, Missing \notin held[stop] PROVE FALSE
        <5>1. Trusted /\ Stays(stop) /\ stop < next
          BY <4>1, <4>2, <4>3, <3>4, <1>e, SMT DEF Trusted, Stays, Kept
        <5>2. Visits(stop)
          BY Zenon, <5>1, <4>2, <2>2, <1>i DEF Covered, Reached
        <5> QED BY Zenon, <5>2, <1>i DEF Visits, Shows, Ends
      <4>4. failures > 0 \/ failures = 0
        BY <1>i, BoundsAssumption, SMT DEF TypeOK
      <4> QED BY Zenon, <3>4, <4>1, <4>3, <4>4, <1>a DEF OverrunCauses
    <3> QED BY Zenon, <3>2, <3>3, <3>4
  <2> QED BY Zenon, <2>3, <2>4, <2>5, <2>6, <2>7, <2>8, <2>9 DEF LoopInv
<1> QED BY Zenon, <1>1, <1>2

LEMMA LoopRangeKeeps ==
    ASSUME LoopInv, LoopRange
    PROVE  LoopInv'
<1>i. TypeOK /\ Control /\ Ordered /\ Covered /\ Ends
  BY Zenon DEF LoopInv
<1>1. CASE Differs
  BY Zenon, <1>1, TurnKeeps DEF LoopRange
<1>2. CASE ~Differs
  <2>1. /\ pc = "loop" /\ pc' = "done" /\ kind = "range"
        /\ UNCHANGED <<store, failures, loop, page, stop, visited>>
    BY Zenon, <1>2 DEF LoopRange
  <2>b. /\ items \in Seq(Keys) /\ Len(items) \in Nat /\ DOMAIN items = 1..Len(items)
        /\ \A i \in DOMAIN items : items[i] \in Keys
    BY Zenon, <1>i, SeqFacts DEF TypeOK
  <2>e. /\ Unknown \in Nat \ {0} /\ Keys = 0..Unknown - 1 /\ lo \in Nat
        /\ stop \in 0..Unknown /\ hi \in Nat /\ offset \in Nat
    BY <1>i, BoundsAssumption, SMT DEF TypeOK, Keys
  <2>2. VisitsAll'
    <3> SUFFICES ASSUME failures = 0, NEW k \in lo..Unknown - 1, Stays(k), k < hi
                 PROVE  Visits(k)
      BY Zenon, <2>1 DEF VisitsAll, Stays, Kept, KeptEdge, Visits, Shows, store, loop
    <3>1. k \in Int
      BY <2>e, SMT
    <3>2. CASE IsEnd
      <4>1. next = Unknown /\ Rest = {}
        BY <3>2, <2>b, <2>e, SMT DEF IsEnd, Rest
      <4>2. Reached(k)
        BY <4>1, <2>1, <3>1, <2>e, SMT DEF Reached, Trusted
      <4> QED BY Zenon, <4>1, <4>2, <1>i DEF Covered
    <3>3. CASE ~IsEnd
      <4>1. stop # Unknown /\ items[offset + 1] = stop
        BY Zenon, <3>3, <1>2 DEF Differs
      <4>2. offset + 1 \in DOMAIN items
        <5>1. offset < Len(items)
          BY <3>3, <2>1, <1>i, <2>b, <2>e, SMT DEF IsEnd, Control
        <5> QED BY <5>1, <2>b, <2>e, SMT
      <4>3. /\ offset + 1 \in Rest
            /\ \A i \in Rest : i \in DOMAIN items /\ (i = offset + 1 \/ offset + 1 < i)
        BY <4>2, <2>1, <2>b, <2>e, SMT DEF Rest, Busy
      <4>4. k < stop
        <5>1. stop >= hi
          BY Zenon, <4>1, <1>i DEF Ends
        <5> QED BY <5>1, <3>1, <2>e, SMT
      <4>5. Reached(k)
        <5>1. items[offset + 1] > k
          BY Zenon, <4>1, <4>4, <3>1, <2>e
        <5> QED BY Zenon, <5>1, <4>3 DEF Reached
      <4>6. ASSUME NEW i \in Rest, items[i] = k PROVE FALSE
        <5>1. items[i] = stop \/ stop < items[i]
          BY Zenon, <4>1, <4>2, <4>3, <1>i DEF Ordered
        <5> QED BY <5>1, <4>4, <4>6, <3>1, <2>e, SMT
      <4> QED BY Zenon, <4>5, <4>6, <1>i DEF Covered
    <3> QED BY Zenon, <3>2, <3>3
  <2> QED BY Zenon, <2>1, <2>2, DoneKeeps
<1> QED BY Zenon, <1>1, <1>2

\* The loops over a stream that end with the collection.
LEMMA StreamEnds ==
    ASSUME LoopInv, pc = "loop", IsEnd, kind \notin {"docs", "full"}, failures = 0,
           NEW k \in lo..Unknown - 1, Stays(k)
    PROVE  Visits(k)
<1>i. TypeOK /\ Covered
  BY Zenon DEF LoopInv
<1>b. Len(items) \in Nat /\ DOMAIN items = 1..Len(items)
  BY Zenon, <1>i, SeqFacts DEF TypeOK
<1>e. Unknown \in Nat \ {0} /\ lo \in Nat /\ offset \in Nat
  BY <1>i, BoundsAssumption, SMT DEF TypeOK
<1>1. next = Unknown /\ Rest = {}
  BY <1>b, <1>e, SMT DEF IsEnd, Rest
<1>2. Reached(k)
  BY <1>1, <1>e, SMT DEF Reached, Trusted
<1> QED BY Zenon, <1>1, <1>2, <1>i DEF Covered

LEMMA LoopPythonKeeps ==
    ASSUME LoopInv, LoopPython
    PROVE  LoopInv'
<1>i. TypeOK /\ Control /\ Ordered /\ Covered
  BY Zenon DEF LoopInv
<1>1. CASE ~(IsEnd \/ (visited # << >> /\ visited[Len(visited)] = hi))
  BY Zenon, <1>1, TurnKeeps DEF LoopPython
<1>2. CASE IsEnd \/ (visited # << >> /\ visited[Len(visited)] = hi)
  <2>1. /\ pc = "loop" /\ pc' = "done" /\ kind \in {"python", "docs"}
        /\ UNCHANGED <<store, failures, loop, page, stop, visited>>
    BY Zenon, <1>2 DEF LoopPython
  <2>2. VisitsAll'
    <3> SUFFICES ASSUME kind = "python", failures = 0,
                        NEW k \in lo..Unknown - 1, Stays(k), k < hi
                 PROVE  Visits(k)
      BY Zenon, <2>1 DEF VisitsAll, Stays, Kept, KeptEdge, Visits, Shows, store, loop
    <3>1. CASE IsEnd
      BY Zenon, <3>1, <2>1, StreamEnds
    <3>2. CASE visited # << >> /\ visited[Len(visited)] = hi
      <4>b. /\ Len(visited) \in Nat /\ DOMAIN visited = 1..Len(visited)
            /\ \A j \in DOMAIN visited : visited[j] \in Keys
            /\ visited = << >> <=> Len(visited) = 0
        BY Zenon, <1>i, SeqFacts DEF TypeOK
      <4>e. /\ lo \in Nat /\ hi \in Nat /\ k \in Int
            /\ \A i \in DOMAIN items : items[i] \in Int
        BY <1>i, SeqFacts, BoundsAssumption, SMT DEF TypeOK, Keys
      <4>1. Len(visited) \in DOMAIN visited
        BY <3>2, <4>b, SMT
      <4>2. visited[Len(visited)] > k
        BY Zenon, <3>2, <4>e
      <4>3. Reached(k)
        BY Zenon, <4>1, <4>2 DEF Reached
      <4>4. ASSUME NEW i \in Rest, items[i] = k PROVE FALSE
        <5>1. hi < items[i] /\ i \in DOMAIN items
          BY Zenon, <4>1, <3>2, <1>i DEF Ordered, Rest
        <5> QED BY <5>1, <4>4, <4>e, SMT
      <4> QED BY Zenon, <4>3, <4>4, <1>i DEF Covered
    <3> QED BY Zenon, <3>1, <3>2, <1>2
  <2> QED BY Zenon, <2>1, <2>2, DoneKeeps
<1> QED BY Zenon, <1>1, <1>2

LEMMA LoopEdgesKeeps ==
    ASSUME LoopInv, LoopEdges
    PROVE  LoopInv'
<1>1. CASE ~IsEnd
  BY Zenon, <1>1, TurnKeeps DEF LoopEdges
<1>2. CASE IsEnd
  <2>1. /\ pc = "loop" /\ pc' = "done" /\ kind = "edges"
        /\ UNCHANGED <<store, failures, loop, page, stop, visited>>
    BY Zenon, <1>2 DEF LoopEdges
  <2>2. VisitsAll'
    <3> SUFFICES ASSUME failures = 0, NEW k \in lo..Unknown - 1, Stays(k)
                 PROVE  Visits(k)
      BY Zenon, <2>1 DEF VisitsAll, Stays, Kept, KeptEdge, Visits, Shows, store, loop
    <3> QED BY Zenon, <1>2, <2>1, StreamEnds
  <2> QED BY Zenon, <2>1, <2>2, DoneKeeps
<1> QED BY Zenon, <1>1, <1>2

\* scan_rows and full_scan_collection take a page as a whole.
LEMMA LoopBatchKeeps ==
    ASSUME LoopInv, LoopBatch
    PROVE  LoopInv'
<1>i. TypeOK /\ Control /\ Ordered /\ Present /\ Covered /\ Ends /\ ValsHeld
  BY Zenon DEF LoopInv
<1>a. /\ pc = "loop" /\ kind \in {"batch", "full"} /\ offset = 0
      /\ UNCHANGED <<contents, writes, held, failures, kind, lo, hi, ahead,
                     items, vals, offset, stop>>
      /\ visited' = visited \o items
      /\ pc' \in {"fetch", "done"}
      /\ pc' = "done" => kind = "batch" /\ IsEnd
      /\ kind = "full" => items # << >> /\ next' = items[Len(items)] + 1
      /\ kind = "batch" => next' = next
  BY Zenon, <1>i DEF LoopBatch, store, loop, Control
<1> DEFINE n == Len(visited)
           m == Len(items)
<1>b. /\ items \in Seq(Keys) /\ m \in Nat /\ DOMAIN items = 1..m
      /\ \A i \in DOMAIN items : items[i] \in Keys
      /\ items = << >> <=> m = 0
  BY Zenon, <1>i, SeqFacts DEF TypeOK
<1>c. /\ visited \in Seq(Keys) /\ n \in Nat /\ DOMAIN visited = 1..n
      /\ \A j \in DOMAIN visited : visited[j] \in Keys
  BY Zenon, <1>i, SeqFacts DEF TypeOK
<1>e. Unknown \in Nat \ {0} /\ Keys = 0..Unknown - 1 /\ lo \in Nat /\ next \in 0..Unknown
  BY <1>i, BoundsAssumption, SMT DEF TypeOK, Keys
<1>k. \A k \in Keys : k \in Int
  BY SMTT(60), <1>e, SMT
<1>f. /\ visited' \in Seq(Keys) /\ Len(visited') = n + m
      /\ \A j \in DOMAIN visited : visited'[j] = visited[j]
      /\ \A i \in DOMAIN items : visited'[n + i] = items[i]
  BY <1>a, <1>b, <1>c, ConcatFacts
<1>g. DOMAIN visited' = 1..n + m
  BY Zenon, <1>f, SeqFacts
<1> HIDE DEF n, m
<1>h. /\ \A j \in DOMAIN visited' :
            j \in DOMAIN visited \/ \E i \in DOMAIN items : j = n + i
      /\ \A j \in DOMAIN visited : j \in DOMAIN visited'
      /\ \A i \in DOMAIN items : n + i \in DOMAIN visited'
  <2>1. ASSUME NEW j \in DOMAIN visited', j \notin DOMAIN visited
        PROVE  j - n \in DOMAIN items /\ j = n + (j - n)
    BY <2>1, <1>b, <1>c, <1>g, SMT
  <2>2. \A j \in DOMAIN visited : j \in DOMAIN visited'
    BY <1>b, <1>c, <1>g, SMT
  <2>3. \A i \in DOMAIN items : n + i \in DOMAIN visited'
    BY <1>b, <1>c, <1>g, SMT
  <2> QED BY Zenon, <2>1, <2>2, <2>3
<1>r. Rest = DOMAIN items /\ Rest' = {}
  BY <1>a, <1>b, SMT DEF Rest, Busy
<1>o. \A j \in DOMAIN visited, i \in DOMAIN items : visited[j] < items[i]
  BY Zenon, <1>i, <1>r DEF Ordered
<1>m. m # 0 => m \in DOMAIN items /\ \A i \in DOMAIN items : i = m \/ i < m
  BY <1>b, SMT
<1>l. kind = "full" =>
         /\ m \in DOMAIN items /\ next' = items[m] + 1 /\ next' \in 0..Unknown
         /\ \A i \in DOMAIN items : items[i] < next'
  <2> SUFFICES ASSUME kind = "full"
               PROVE  /\ m \in DOMAIN items /\ next' = items[m] + 1
                      /\ next' \in 0..Unknown
                      /\ \A i \in DOMAIN items : items[i] < next'
    BY Zenon
  <2>1. m \in DOMAIN items /\ next' = items[m] + 1
    BY Zenon, <1>a, <1>b, <1>m DEF m
  <2>2. items[m] \in 0..Unknown - 1
    BY Zenon, <2>1, <1>b, <1>e
  <2>3. next' \in 0..Unknown
    BY <2>1, <2>2, <1>e, SMT
  <2>4. ASSUME NEW i \in DOMAIN items PROVE items[i] < next'
    <3>1. items[i] \in Int /\ items[m] \in Int
      BY Zenon, <2>1, <1>b, <1>k
    <3>2. i = m \/ i < m
      BY <2>1, <1>b, SMT
    <3>3. items[i] = items[m] \/ items[i] < items[m]
      BY Zenon, <3>2, <2>1, <1>i DEF Ordered
    <3> QED BY <3>1, <3>3, <2>1, SMT
  <2> QED BY Zenon, <2>1, <2>3, <2>4
<1>n. next' \in 0..Unknown
  BY Zenon, <1>a, <1>e, <1>l
<1>1. TypeOK'
  BY Zenon, <1>i, <1>a, <1>f, <1>n DEF TypeOK
<1>2. Control'
  <2>1. stop = Unknown
    BY Zenon, <1>i, <1>a DEF Ends
  <2> QED BY Zenon, <2>1, <1>i, <1>a DEF Control
<1>3. Ordered'
  <2>1. ASSUME NEW i \in DOMAIN visited', NEW j \in DOMAIN visited', i < j
        PROVE  visited'[i] < visited'[j]
    <3>1. CASE i \in DOMAIN visited /\ j \in DOMAIN visited
      BY Zenon, <2>1, <3>1, <1>f, <1>i DEF Ordered
    <3>2. CASE i \in DOMAIN visited /\ \E b \in DOMAIN items : j = n + b
      BY Zenon, <3>2, <1>f, <1>o
    <3>3. CASE (\E a \in DOMAIN items : i = n + a) /\ j \in DOMAIN visited
      BY <2>1, <3>3, <1>b, <1>c, SMT
    <3>4. ASSUME NEW a \in DOMAIN items, i = n + a, NEW b \in DOMAIN items, j = n + b
          PROVE  visited'[i] < visited'[j]
      <4>1. a < b
        BY <2>1, <3>4, <1>b, <1>c, SMT
      <4> QED BY Zenon, <4>1, <3>4, <1>f, <1>i DEF Ordered
    <3> QED BY Zenon, <3>1, <3>2, <3>3, <3>4, <1>h
  <2>2. ASSUME NEW j \in DOMAIN visited' PROVE visited'[j] < next'
    <3>1. CASE j \in DOMAIN visited
      <4>1. visited'[j] = visited[j] /\ visited[j] \in Int /\ visited[j] < next
        BY Zenon, <3>1, <1>c, <1>f, <1>k, <1>i DEF Ordered
      <4>2. CASE kind = "batch"
        BY Zenon, <4>1, <4>2, <1>a
      <4>3. CASE kind = "full"
        <5>1. visited[j] < items[m] /\ items[m] \in Int /\ next' = items[m] + 1
          BY Zenon, <3>1, <4>3, <1>b, <1>k, <1>l, <1>o
        <5> QED BY <4>1, <5>1, SMT
      <4> QED BY Zenon, <4>2, <4>3, <1>a
    <3>2. ASSUME NEW i \in DOMAIN items, j = n + i PROVE visited'[j] < next'
      <4>1. visited'[j] = items[i]
        BY Zenon, <3>2, <1>f
      <4>2. CASE kind = "batch"
        BY Zenon, <4>1, <4>2, <1>a, <1>i DEF Ordered
      <4>3. CASE kind = "full"
        BY Zenon, <4>1, <4>3, <1>l
      <4> QED BY Zenon, <4>2, <4>3, <1>a
    <3> QED BY Zenon, <3>1, <3>2, <1>h
  <2> QED BY Zenon, <2>1, <2>2, <1>i, <1>a, <1>r DEF Ordered
<1>4. Present'
  <2>1. \A j \in DOMAIN visited' : held[visited'[j]] # {Missing}
    BY <1>f, <1>h, <1>i DEF Present
  <2> QED BY Zenon, <2>1, <1>i, <1>a DEF Present
<1>p. ASSUME NEW k \in lo..Unknown - 1, Stays(k), Reached(k)
      PROVE  Visits(k)'
  <2>1. Shows(visited, k) \/ Shows(items, k)
    BY Zenon, <1>p, <1>i, <1>r DEF Covered, Visits, Shows
  <2> QED BY Zenon, <2>1, <1>f, <1>h DEF Visits, Shows
<1>5. Covered'
  <2> SUFFICES ASSUME NEW k \in lo..Unknown - 1, Stays(k), Reached(k)'
               PROVE  Visits(k)'
    BY Zenon, <1>a DEF Covered, Stays, Kept, KeptEdge
  <2>0. k \in Int
    BY <1>e, SMT
  <2>1. CASE \E j \in DOMAIN visited' : visited'[j] > k
    <3>1. Reached(k)
      BY Zenon, <2>1, <1>f, <1>h, <1>r DEF Reached
    <3> QED BY Zenon, <3>1, <1>p
  <2>2. CASE k < next' /\ Trusted' /\ kind = "batch"
    <3>1. Reached(k)
      BY Zenon, <2>2, <1>a DEF Reached, Trusted
    <3> QED BY Zenon, <3>1, <1>p
  <2>3. CASE k < next' /\ kind = "full"
    <3>1. m \in DOMAIN items /\ items[m] \in Int /\ next' = items[m] + 1
      BY Zenon, <2>3, <1>b, <1>k, <1>l
    <3>2. k = items[m] \/ items[m] > k
      BY <3>1, <2>0, <2>3, SMT
    <3>3. CASE k = items[m]
      BY Zenon, <3>1, <3>3, <1>f, <1>h DEF Visits, Shows
    <3>4. CASE items[m] > k
      <4>1. Reached(k)
        BY Zenon, <3>1, <3>4, <1>r DEF Reached
      <4> QED BY Zenon, <4>1, <1>p
    <3> QED BY Zenon, <3>2, <3>3, <3>4
  <2> QED BY Zenon, <2>1, <2>2, <2>3, <1>a, <1>r DEF Reached
<1>6. Ends'
  <2>1. stop = Unknown
    BY Zenon, <1>i, <1>a DEF Ends
  <2>2. \A j \in DOMAIN visited' : visited'[j] \in Keys
    BY Zenon, <1>f, SeqFacts
  <2>3. Unknown \notin Keys
    BY <1>e, SMT
  <2> QED BY Zenon, <2>1, <2>2, <2>3, <1>a DEF Ends
<1>7. WholePages' /\ OverrunCauses'
  BY Zenon, <1>a DEF WholePages, OverrunCauses
<1>8. ValsHeld'
  BY Zenon, <1>i, <1>a DEF ValsHeld
<1>9. VisitsAll'
  <2> SUFFICES ASSUME pc' = "done", failures = 0, NEW k \in lo..Unknown - 1, Stays(k)
               PROVE  Visits(k)'
    BY Zenon, <1>a DEF VisitsAll, Stays, Kept, KeptEdge
  <2>1. next = Unknown /\ kind = "batch"
    BY Zenon, <1>a DEF IsEnd
  <2>2. Reached(k)
    BY <2>1, <1>a, <1>e, SMT DEF Reached, Trusted
  <2> QED BY Zenon, <2>2, <1>p
<1> QED BY Zenon, <1>1, <1>2, <1>3, <1>4, <1>5, <1>6, <1>7, <1>8, <1>9 DEF LoopInv

\* nodes_stream_t::next, on an element and behind the last one of its page.
LEMMA LoopNodesKeeps ==
    ASSUME LoopInv, LoopNodes
    PROVE  LoopInv'
<1>i. TypeOK /\ Control /\ Ordered /\ Present /\ Covered /\ Ends /\ WholePages /\ ValsHeld
  BY Zenon DEF LoopInv
<1>a. /\ pc = "loop" /\ kind = "nodes"
      /\ UNCHANGED <<contents, writes, held, failures, kind, lo, hi, ahead, next,
                     items, vals, stop>>
  BY Zenon DEF LoopNodes, store, loop
<1>b. /\ Len(items) \in Nat /\ DOMAIN items = 1..Len(items) /\ offset \in Nat
      /\ ahead \in Nat /\ Len(visited) \in Nat
  BY Zenon, <1>i, SeqFacts, BoundsAssumption DEF TypeOK
<1>c. stop = Unknown /\ Unknown \notin Keys
  BY <1>i, <1>a, BoundsAssumption, SMT DEF Ends, Keys
<1>1. CASE offset < Len(items)
  <2>1. Visit /\ offset' = offset + 1 /\ pc' = "loop"
    BY Zenon, <1>1, <1>a DEF LoopNodes
  <2>2. /\ offset + 1 \in DOMAIN items
        /\ visited' \in Seq(Keys) /\ visited' # << >>
        /\ Len(visited') = Len(visited) + 1
        /\ Ordered' /\ Present' /\ Covered'
    <3>1. UNCHANGED <<store, failures, loop, next, items, vals, stop>>
      BY Zenon DEF LoopNodes
    <3> QED BY Zenon, <1>1, <1>a, <2>1, <3>1, VisitMoves
  <2>3. offset' \in Nat /\ offset' <= Len(items)
    BY SMTT(60), <2>1, <1>1, <1>b, SMT
  <2>4. TypeOK' /\ Control'
    BY Zenon, <1>i, <1>a, <2>1, <2>2, <2>3 DEF TypeOK, Control
  <2>5. Ends'
    <3>1. \A j \in DOMAIN visited' : visited'[j] \in Keys
      BY Zenon, <2>2, SeqFacts
    <3> QED BY Zenon, <3>1, <1>a, <1>c DEF Ends
  <2>6. WholePages'
    <3> SUFFICES ASSUME failures = 0
                 PROVE  /\ \E n \in Nat : Len(visited') = n * ahead + offset'
                        /\ next = Unknown \/ Len(items) = ahead
      BY Zenon, <1>a, <2>1, <2>3 DEF WholePages
    <3>1. PICK n \in Nat : Len(visited) = n * ahead + offset
      BY Zenon, <1>i, <1>a DEF WholePages
    <3>2. n * ahead \in Nat
      BY <1>b, SMT
    <3>3. Len(visited') = n * ahead + offset'
      <4> DEFINE q == n * ahead
      <4>1. q \in Nat /\ Len(visited) = q + offset
        BY Zenon, <3>1, <3>2
      <4> HIDE DEF q
      <4>2. Len(visited') = q + offset'
        BY <4>1, <2>1, <2>2, <1>b, SMT
      <4> QED BY Zenon, <4>2 DEF q
    <3>4. next = Unknown \/ Len(items) = ahead
      BY Zenon, <1>i, <1>a DEF WholePages
    <3> QED BY Zenon, <3>3, <3>4
  <2>7. ValsHeld' /\ VisitsAll' /\ OverrunCauses'
    BY Zenon, <1>i, <1>a, <2>1 DEF ValsHeld, VisitsAll, OverrunCauses, Control
  <2> QED BY Zenon, <2>2, <2>4, <2>5, <2>6, <2>7 DEF LoopInv
<1>2. CASE ~(offset < Len(items)) /\ next = Unknown
  <2>1. pc' = "done" /\ UNCHANGED <<store, failures, loop, page, stop, visited>>
    BY Zenon, <1>2 DEF LoopNodes, page
  <2>2. IsEnd
    BY <1>2, <1>b, SMT DEF IsEnd
  <2>3. VisitsAll'
    <3> SUFFICES ASSUME failures = 0, NEW k \in lo..Unknown - 1, Stays(k)
                 PROVE  Visits(k)
      BY Zenon, <1>a, <2>1 DEF VisitsAll, Stays, Kept, KeptEdge, Visits, Shows
    <3> QED BY Zenon, <1>a, <2>2, StreamEnds
  <2> QED BY Zenon, <1>a, <2>1, <2>3, DoneKeeps
<1>3. CASE ~(offset < Len(items)) /\ next # Unknown
  <2>1. pc' = "fetch" /\ visited' = visited /\ offset' = offset
    BY Zenon, <1>3 DEF LoopNodes
  <2>2. Rest = {} /\ Rest' = {}
    BY SMTT(60), <1>3, <1>a, <1>b, <2>1, SMT DEF Rest, Busy
  <2>3. TypeOK' /\ Control' /\ Present'
    BY Zenon, <1>i, <1>a, <1>c, <2>1 DEF TypeOK, Control, Present
  <2>4. Ordered' /\ Ends'
    BY Zenon, <1>i, <1>a, <2>1, <2>2 DEF Ordered, Ends
  <2>5. Covered'
    BY Zenon, <1>i, <1>a, <2>1, <2>2
       DEF Covered, Reached, Trusted, Stays, Kept, KeptEdge, Visits, Shows
  <2>6. WholePages'
    <3> SUFFICES ASSUME failures = 0
                 PROVE  \E n \in Nat : Len(visited) = n * ahead
      BY Zenon, <1>a, <2>1 DEF WholePages
    <3>1. PICK n \in Nat : Len(visited) = n * ahead + offset
      BY Zenon, <1>i, <1>a DEF WholePages
    <3>2. offset <= Len(items) /\ Len(items) = ahead
      BY Zenon, <1>i, <1>a, <1>3 DEF WholePages
    <3>3. offset = ahead
      BY <3>2, <1>3, <1>b, SMT
    <3>4. n + 1 \in Nat /\ (n + 1) * ahead = n * ahead + ahead
      BY SMTT(60), <1>b, SMT
    <3> QED BY Zenon, <3>1, <3>3, <3>4
  <2>7. ValsHeld' /\ VisitsAll' /\ OverrunCauses'
    BY Zenon, <1>i, <1>a, <2>1 DEF ValsHeld, VisitsAll, OverrunCauses, Control
  <2> QED BY Zenon, <2>3, <2>4, <2>5, <2>6, <2>7 DEF LoopInv
<1> QED BY Zenon, <1>1, <1>2, <1>3

\* nodes_stream_t::next, after it has fetched another page.
LEMMA NextNodeKeeps ==
    ASSUME LoopInv, NextNode
    PROVE  LoopInv'
<1>i. TypeOK /\ Control /\ Ordered /\ Present /\ Covered /\ Ends /\ WholePages /\ ValsHeld
  BY Zenon DEF LoopInv
<1>a. /\ pc = "item" /\ kind = "nodes" /\ offset = 0
      /\ UNCHANGED <<contents, writes, held, failures, kind, lo, hi, ahead, next,
                     items, vals, offset, stop, visited>>
      /\ pc' \in {"overrun", "loop"}
      /\ pc' = "overrun" => items = << >>
  BY Zenon, <1>i DEF NextNode, store, loop, page, Control
<1>b. /\ Len(items) \in Nat /\ DOMAIN items = 1..Len(items)
      /\ items = << >> <=> Len(items) = 0
      /\ ahead \in Nat \ {0} /\ Len(visited) \in Nat
  BY Zenon, <1>i, SeqFacts, BoundsAssumption DEF TypeOK
<1>c. stop = Unknown
  BY Zenon, <1>i, <1>a DEF Ends
<1>r. Rest' = Rest
  <2>1. pc' = "overrun" => DOMAIN items = {}
    BY SMTT(60), <1>a, <1>b, SMT
  <2> QED BY Zenon, <2>1, <1>a DEF Rest, Busy
<1>1. TypeOK' /\ Control' /\ Present'
  BY Zenon, <1>i, <1>a, <1>c DEF TypeOK, Control, Present
<1>2. Ordered' /\ Ends'
  BY Zenon, <1>i, <1>a, <1>r DEF Ordered, Ends
<1>3. Covered'
  BY Zenon, <1>i, <1>a, <1>r
     DEF Covered, Reached, Trusted, Stays, Kept, KeptEdge, Visits, Shows
<1>w. ASSUME failures = 0
      PROVE  \E n \in 0..Len(visited) : Len(visited) = n * ahead
  <2>1. PICK n \in Nat : Len(visited) = n * ahead
    BY Zenon, <1>w, <1>i, <1>a DEF WholePages
  <2>2. n <= n * ahead
    BY <1>b, SMT
  <2>3. n \in 0..Len(visited)
    BY <2>1, <2>2, <1>b, SMT
  <2> QED BY Zenon, <2>1, <2>3
<1>4. WholePages'
  <2> SUFFICES ASSUME failures = 0
               PROVE  \E n \in Nat : Len(visited) = n * ahead + 0
    BY Zenon, <1>i, <1>a DEF WholePages
  <2>1. PICK n \in Nat : Len(visited) = n * ahead
    BY Zenon, <1>i, <1>a DEF WholePages
  <2>2. Len(visited) = n * ahead + 0
    BY SMTT(60), <2>1, <1>b, SMT
  <2> QED BY Zenon, <2>2
<1>5. ValsHeld' /\ VisitsAll'
  BY Zenon, <1>i, <1>a DEF ValsHeld, VisitsAll, Control
<1>6. OverrunCauses'
  <2>1. failures > 0 \/ failures = 0
    BY <1>i, BoundsAssumption, SMT DEF TypeOK
  <2> QED BY Zenon, <2>1, <1>w, <1>a DEF OverrunCauses
<1> QED BY Zenon, <1>1, <1>2, <1>3, <1>4, <1>5, <1>6 DEF LoopInv

\* Another thread writes: what stayed until now is what stayed before.
LEMMA PutKeeps ==
    ASSUME LoopInv, NEW k \in Keys, NEW v \in Contents, Put(k, v)
    PROVE  LoopInv'
<1>i. TypeOK /\ Control /\ Ordered /\ Present /\ Covered /\ Ends /\ WholePages /\ ValsHeld
  BY Zenon DEF LoopInv
<1>a. /\ pc \notin {"done", "overrun"} /\ writes < MaxWrites /\ writes' = writes + 1
      /\ contents' = [contents EXCEPT ![k] = v]
      /\ held' = [held EXCEPT ![k] = @ \cup {v}]
      /\ UNCHANGED <<failures, kind, lo, hi, ahead, next, items, vals, offset, stop,
                     pc, visited>>
  BY Zenon DEF Put, loop, page
<1>b. contents \in [Keys -> Contents] /\ held \in [Keys -> SUBSET Contents]
  BY Zenon, <1>i DEF TypeOK
<1>c. /\ contents' \in [Keys -> Contents] /\ held' \in [Keys -> SUBSET Contents]
      /\ \A x \in Keys : held[x] \subseteq held'[x] /\ contents'[x] \in held'[x]
  <2>1. held' \in [Keys -> SUBSET Contents] /\ \A x \in Keys : held[x] \subseteq held'[x]
    BY Zenon, <1>a, <1>b
  <2>2. ASSUME NEW x \in Keys PROVE contents'[x] \in held'[x]
    <3>1. CASE x = k
      BY Zenon, <3>1, <1>a, <1>b
    <3>2. CASE x # k
      BY Zenon, <3>2, <1>a, <1>b, <1>i DEF Present
    <3> QED BY Zenon, <3>1, <3>2
  <2> QED BY Zenon, <2>1, <2>2, <1>a, <1>b
<1>d. \A i \in DOMAIN items : items[i] \in Keys
  BY Zenon, <1>i, SeqFacts DEF TypeOK
<1>e. \A j \in DOMAIN visited : visited[j] \in Keys
  BY Zenon, <1>i, SeqFacts DEF TypeOK
<1>f. /\ Unknown \in Nat \ {0} /\ lo \in 0..Unknown /\ hi \in lo..Unknown
      /\ MaxWrites \in Nat /\ writes \in 0..MaxWrites
  BY Zenon, <1>i, BoundsAssumption DEF TypeOK
<1>g. \A x \in lo..Unknown - 1 : x \in Keys
  BY <1>f, SMT DEF Keys
<1>h. \A x \in hi..Unknown - 1 : x \in Keys
  BY <1>f, SMT DEF Keys
<1>r. Rest' = Rest
  BY Zenon, <1>a DEF Rest, Busy
<1>1. TypeOK'
  <2>1. writes' \in 0..MaxWrites
    BY SMTT(60), <1>a, <1>f, SMT
  <2> QED BY Zenon, <2>1, <1>i, <1>a, <1>c DEF TypeOK
<1>2. Control' /\ Ordered'
  BY SMTT(60), <1>i, <1>a, <1>r DEF Control, Ordered, Reads
<1>3. Present'
  <2>1. ASSUME NEW x \in Keys, held[x] # {Missing} PROVE held'[x] # {Missing}
    <3>1. contents[x] \in held[x] /\ held[x] \subseteq held'[x]
      BY Zenon, <1>c, <1>i DEF Present
    <3> QED BY Zenon, <2>1, <3>1
  <2> QED BY Zenon, <2>1, <1>i, <1>a, <1>c, <1>d, <1>e DEF Present
<1>4. Covered'
  <2> SUFFICES ASSUME NEW x \in lo..Unknown - 1, Stays(x)', Reached(x)
               PROVE  Visits(x) \/ \E i \in Rest : items[i] = x
    BY Zenon, <1>a, <1>r DEF Covered, Reached, Trusted, Visits, Shows
  <2>1. contents[x] \in held[x] /\ held[x] \subseteq held'[x]
    BY Zenon, <1>c, <1>g, <1>i DEF Present
  <2>2. Stays(x)
    BY Zenon, <2>1, <1>a DEF Stays, Kept, KeptEdge
  <2> QED BY Zenon, <2>2, <1>i DEF Covered
<1>5. Ends'
  BY Zenon, <1>i, <1>a, <1>c, <1>h DEF Ends
<1>6. WholePages' /\ VisitsAll' /\ OverrunCauses'
  BY Zenon, <1>i, <1>a DEF WholePages, VisitsAll, OverrunCauses
<1>7. ValsHeld'
  BY Zenon, <1>i, <1>a, <1>c, <1>d DEF ValsHeld
<1> QED BY Zenon, <1>1, <1>2, <1>3, <1>4, <1>5, <1>6, <1>7 DEF LoopInv

LEMMA LoopInvInit == Init => LoopInv
<1> SUFFICES ASSUME Init PROVE LoopInv
  BY Zenon
<1>a. /\ contents \in [Keys -> Contents] /\ writes = 0 /\ failures = 0
      /\ kind \in Kinds /\ lo \in Starts /\ hi \in Bounds /\ lo <= hi
      /\ ahead \in Aheads /\ next = lo /\ offset = 0 /\ stop = Unknown /\ pc = "fetch"
      /\ held = [k \in Keys |-> {contents[k]}]
  BY Zenon DEF Init
<1>b. items = << >> /\ vals = << >> /\ visited = << >>
  BY Zenon DEF Init
<1>c. DOMAIN items = {} /\ DOMAIN visited = {} /\ Len(items) = 0 /\ Len(visited) = 0
  BY <1>b, SMT
<1>d. Rest = {}
  BY Zenon, <1>c DEF Rest
<1>1. TypeOK
  <2>1. items \in Seq(Keys) /\ visited \in Seq(Keys) /\ vals \in Seq({0, 1})
    BY <1>b
  <2>2. lo \in 0..Unknown /\ hi \in lo..Unknown /\ stop \in 0..Unknown
    BY <1>a, BoundsAssumption, SMT
  <2>3. writes \in 0..MaxWrites /\ failures \in 0..MaxFailures
    BY SMTT(60), <1>a, BoundsAssumption, SMT
  <2> QED BY Zenon, <2>1, <2>2, <2>3, <1>a DEF TypeOK
<1>2. Control
  BY SMTT(60), <1>a, <1>b, <1>c, SMT DEF Control
<1>3. Ordered /\ Present
  BY Zenon, <1>a, <1>c, <1>d DEF Ordered, Present
<1>4. Covered
  <2> SUFFICES ASSUME NEW k \in lo..Unknown - 1, k < next PROVE FALSE
    BY Zenon, <1>c, <1>d DEF Covered, Reached
  <2> QED BY <1>1, <1>a, BoundsAssumption, SMT DEF TypeOK
<1>5. Ends
  BY SMTT(60), <1>a, <1>b, <1>c DEF Ends
<1>6. WholePages
  <2>1. ahead \in Nat
    BY Zenon, <1>a, BoundsAssumption
  <2>2. 0 * ahead = 0
    BY SMTT(60), <2>1, SMT
  <2> QED BY Zenon, <2>2, <1>a, <1>c DEF WholePages
<1>7. ValsHeld /\ VisitsAll /\ OverrunCauses
  BY Zenon, <1>a, <1>b DEF ValsHeld, VisitsAll, OverrunCauses
<1> QED BY Zenon, <1>1, <1>2, <1>3, <1>4, <1>5, <1>6, <1>7 DEF LoopInv

LEMMA LoopInvNext == LoopInv /\ [Next]_vars => LoopInv'
<1> SUFFICES ASSUME LoopInv, [Next]_vars PROVE LoopInv'
  BY Zenon
<1>1. CASE Step
  BY Zenon, <1>1, FetchNothingKeeps, FetchPageKeeps, FetchForFullScanKeeps, ReadValuesKeeps,
     ReadEdgesKeeps, MakeEndKeeps, LoopRangeKeeps, LoopPythonKeeps, LoopEdgesKeeps,
     LoopBatchKeeps, LoopNodesKeeps, NextNodeKeeps, Zenon DEF Step
<1>2. CASE UNCHANGED vars
  <2>a. UNCHANGED <<contents, writes, failures, kind, lo, hi, ahead, next, items, vals,
                    offset, stop, pc, visited, held>>
    BY Zenon, <1>2 DEF vars
  <2>r. Rest' = Rest
    BY Zenon, <2>a DEF Rest, Busy
  <2>1. TypeOK' /\ Control'
    BY SMTT(30), <2>a DEF LoopInv, TypeOK, Control, Reads
  <2>5. Ordered' /\ Present'
    BY <2>a, <2>r DEF LoopInv, Ordered, Present
  <2>2. Covered'
    BY Zenon, <2>a, <2>r
       DEF LoopInv, Covered, Reached, Trusted, Stays, Kept, KeptEdge, Visits,
       Shows
  <2>3. Ends' /\ WholePages' /\ ValsHeld' /\ OverrunCauses'
    BY <2>a DEF LoopInv, Ends, WholePages, ValsHeld, OverrunCauses
  <2>4. VisitsAll'
    BY <2>a DEF LoopInv, VisitsAll, Stays, Kept, KeptEdge, Visits, Shows
  <2> QED BY Zenon, <2>1, <2>2, <2>3, <2>4, <2>5 DEF LoopInv
<1> QED BY <1>1, <1>2, FetchFailsKeeps, PutKeeps, Zenon DEF Next

LEMMA LoopInvariance == Spec => []LoopInv
BY LoopInvInit, LoopInvNext, PTL DEF Spec

-----------------------------------------------------------------------------
(* The theorems.                                                            *)

\* Every loop over a collection visits its keys in ascending order, none twice
\* and none that was never there, and leaves out none that stayed, whatever
\* other threads write between ukv_scan, the read of the values and the next
\* page: pairs_stream_t, keys_stream_t, graph_stream_t, full_scan_collection and
\* the loops of the Python module.
THEOREM LoopsVisitEachOnce == Spec => []VisitsEachOnce
<1>1. LoopInv => VisitsEachOnce
  <2> SUFFICES ASSUME LoopInv PROVE VisitsEachOnce
    BY Zenon
  <2>i. TypeOK /\ Ordered /\ Present /\ Covered /\ VisitsAll
    BY Zenon DEF LoopInv
  <2>v. /\ Len(visited) \in Nat /\ DOMAIN visited = 1..Len(visited)
        /\ \A j \in DOMAIN visited : visited[j] \in Int
    BY <2>i, SeqFacts, BoundsAssumption, SMT DEF TypeOK, Keys
  <2>w. \A i \in DOMAIN items : items[i] \in Int
    BY SMTT(60), <2>i, SeqFacts, BoundsAssumption, SMT DEF TypeOK, Keys
  <2>1. VisitsAscend
    <3>1. \A i \in 1..Len(visited) - 1 :
             i \in DOMAIN visited /\ i + 1 \in DOMAIN visited /\ i < i + 1
      BY <2>v, SMT
    <3> QED BY Zenon, <3>1, <2>i DEF VisitsAscend, Ordered, Present
  <2>2. NoGaps
    <3> SUFFICES ASSUME NEW k \in lo..Unknown - 1, Stays(k),
                        NEW j \in DOMAIN visited, visited[j] > k
                 PROVE  Visits(k)
      BY Zenon DEF NoGaps
    <3>1. Visits(k) \/ \E i \in Rest : items[i] = k
      BY Zenon, <2>i DEF Covered, Reached
    <3>2. ASSUME NEW i \in Rest, items[i] = k PROVE FALSE
      <4>1. visited[j] < items[i] /\ i \in DOMAIN items
        BY Zenon, <2>i DEF Ordered, Rest
      <4> QED BY <4>1, <3>2, <2>v, <2>w, SMT
    <3> QED BY Zenon, <3>1, <3>2
  <2> QED BY Zenon, <2>i, <2>1, <2>2 DEF VisitsEachOnce
<1> QED BY <1>1, LoopInvariance, PTL

\* A loop over a range goes past its bound, and any loop behind the end of its
\* array, only for the listed reasons: the comparison of streams in operator!=,
\* the pages without a key of nodes_stream_t::next and graph_stream_t, and
\* failed scans.
THEOREM OverrunsHaveCauses == Spec => []OverrunsExplained
<1>1. LoopInv => OverrunsExplained
  <2> SUFFICES ASSUME LoopInv PROVE OverrunsExplained
    BY Zenon
  <2>i. TypeOK /\ Ordered /\ Present /\ Covered /\ Ends /\ OverrunCauses
    BY Zenon DEF LoopInv
  <2>v. /\ Len(visited) \in Nat /\ DOMAIN visited = 1..Len(visited)
        /\ \A j \in DOMAIN visited : visited[j] \in 0..Unknown - 1
        /\ visited = << >> <=> Len(visited) = 0
    BY Zenon, <2>i, SeqFacts, BoundsAssumption DEF TypeOK, Keys
  <2>w. \A i \in DOMAIN items : items[i] \in Int
    BY <2>i, SeqFacts, BoundsAssumption, SMT DEF TypeOK, Keys
  <2>e. /\ Unknown \in Nat \ {0} /\ lo \in Nat /\ hi \in Nat /\ lo <= hi
        /\ stop \in 0..Unknown
    BY <2>i, BoundsAssumption, SMT DEF TypeOK
  <2>c. ASSUME NEW j \in DOMAIN visited, NEW k \in lo..Unknown - 1, Stays(k), visited[j] > k
        PROVE  \E n \in DOMAIN visited : visited[n] = k
    <3>1. Visits(k) \/ \E i \in Rest : items[i] = k
      BY Zenon, <2>c, <2>i DEF Covered, Reached
    <3>2. ASSUME NEW i \in Rest, items[i] = k PROVE FALSE
      <4>1. visited[j] < items[i] /\ i \in DOMAIN items
        BY Zenon, <2>i DEF Ordered, Rest
      <4> QED BY <4>1, <3>2, <2>c, <2>v, <2>w, <2>e, SMT
    <3> QED BY Zenon, <3>1, <3>2 DEF Visits, Shows
  <2>1. ASSUME NEW j \in DOMAIN visited, kind = "range", visited[j] >= hi,
               Missing \notin held[visited[j]]
        PROVE  stop < visited[j] /\ Missing \in held[stop]
    <3>0. visited # << >> /\ visited[j] \in hi..Unknown - 1 /\ visited[j] \in Int
      BY SMTT(60), <2>1, <2>v, <2>e, SMT
    <3>1. ~(visited[j] < stop) /\ visited[j] # stop
      BY Zenon, <3>0, <2>1, <2>i DEF Ends
    <3>2. stop < visited[j]
      BY <3>0, <3>1, <2>e, SMT
    <3>3. stop \in lo..Unknown - 1 /\ visited[j] > stop
      <4>1. stop # Unknown
        BY <3>0, <3>2, <2>e, <2>v, SMT
      <4>2. stop >= hi
        BY Zenon, <4>1, <2>i DEF Ends
      <4> QED BY <4>1, <4>2, <3>0, <3>2, <2>e, SMT
    <3>4. ASSUME Missing \notin held[stop] PROVE FALSE
      <4>1. Stays(stop)
        BY Zenon, <3>4, <2>1 DEF Stays, Kept
      <4> QED BY Zenon, <4>1, <3>3, <2>c, <2>i DEF Ends
    <3> QED BY Zenon, <3>2, <3>4
  <2>2. ASSUME NEW j \in DOMAIN visited, kind \in {"python", "docs"}, visited[j] > hi
        PROVE  Missing \in held[hi]
    <3>1. hi \in lo..Unknown - 1
      BY <2>2, <2>v, <2>e, SMT
    <3>2. ASSUME Missing \notin held[hi] PROVE FALSE
      <4>1. Stays(hi)
        BY Zenon, <3>2, <2>2 DEF Stays, Kept
      <4>2. PICK n \in DOMAIN visited : visited[n] = hi
        BY Zenon, <4>1, <3>1, <2>2, <2>c
      <4>3. ~(n \in 1..Len(visited) - 1)
        BY Zenon, <4>2, <2>2, <2>i DEF Ends
      <4>4. j = n \/ j < n
        BY <4>3, <2>v, SMT
      <4>5. visited[j] = hi \/ visited[j] < hi
        BY Zenon, <4>2, <4>4, <2>i DEF Ordered
      <4> QED BY <4>5, <2>2, <2>v, <2>e, SMT
    <3> QED BY Zenon, <3>2
  <2> QED BY Zenon, <2>i, <2>1, <2>2 DEF OverrunsExplained, StaysInRange
<1> QED BY <1>1, LoopInvariance, PTL

\* A pair that a loop shows has a value that its key has held since the loop
\* began, or is shown empty because it was removed between the scan and the read
\* of pairs_stream_t::prefetch.
THEOREM LoopsShowHeldPairs == Spec => []PairsHeld
<1>1. LoopInv => PairsHeld
  <2> SUFFICES ASSUME LoopInv, pc = "loop", vals # << >>, offset < Len(items)
               PROVE  \/ vals[offset + 1] \in held[items[offset + 1]]
                      \/ /\ vals[offset + 1] = 0
                         /\ Missing \in held[items[offset + 1]]
    BY Zenon DEF PairsHeld
  <2>1. offset + 1 \in DOMAIN items
    <3>1. offset \in Nat /\ Len(items) \in Nat /\ DOMAIN items = 1..Len(items)
      BY Zenon, SeqFacts DEF LoopInv, TypeOK
    <3> QED BY <3>1, SMT
  <2> QED BY Zenon, <2>1 DEF LoopInv, ValsHeld
<1> QED BY <1>1, LoopInvariance, PTL

-----------------------------------------------------------------------------
(* Tables of requests and of sessions.                                      *)

LEMMA WithFacts ==
    ASSUME NEW f, NEW x, NEW y
    PROVE  /\ DOMAIN With(f, x, y) = DOMAIN f \union {x}
           /\ With(f, x, y)[x] = y
           /\ \A z \in DOMAIN f : z # x => With(f, x, y)[z] = f[z]
BY Zenon DEF With

LEMMA WithoutFacts ==
    ASSUME NEW f, NEW x
    PROVE  /\ DOMAIN Without(f, x) = DOMAIN f \ {x}
           /\ \A z \in DOMAIN f : z # x => Without(f, x)[z] = f[z]
BY Zenon DEF Without, Restrict

LEMMA PutFacts ==
    ASSUME NEW f, NEW x \in DOMAIN f, NEW y
    PROVE  /\ DOMAIN [f EXCEPT ![x] = y] = DOMAIN f
           /\ [f EXCEPT ![x] = y][x] = y
           /\ \A z \in DOMAIN f : z # x => [f EXCEPT ![x] = y][z] = f[z]
BY Zenon

Numbers == Clients \X (1..MaxCalls)

RequestsOK(f) == DOMAIN f \subseteq Numbers /\ \A r \in DOMAIN f : f[r] \in Request
SessionsOK(f) == DOMAIN f \subseteq Clients \X Ids /\ \A s \in DOMAIN f : f[s] \in Session

LEMMA Typed ==
    ASSUME RpcTypeOK
    PROVE  /\ rpcStore \in [RpcKeys -> Stamps] /\ client \in [Clients -> Client]
           /\ RequestsOK(requests) /\ SessionsOK(sessions)
           /\ 0 \in Ids /\ Ids \subseteq Nat
<1>1. 0 \in Ids /\ Ids \subseteq Nat
  BY RpcAssumption DEF Ids
<1> QED
  BY Zenon, <1>1 DEF RpcTypeOK, RequestsOK, SessionsOK, Numbers

LEMMA StaysTyped ==
    ASSUME rpcStore' \in [RpcKeys -> Stamps], client' \in [Clients -> Client],
           RequestsOK(requests'), SessionsOK(sessions')
    PROVE  RpcTypeOK'
BY Zenon DEF RpcTypeOK, RequestsOK, SessionsOK, Numbers

LEMMA Number ==
    ASSUME NEW r \in Numbers
    PROVE  /\ r[1] \in Clients /\ r[2] \in 1..MaxCalls /\ r = <<r[1], r[2]>> /\ r \in Stamps
           /\ r[2] \in Nat
BY RpcAssumption DEF Numbers, Stamps

\* The fields of the three records, and what they become.
LEMMA RequestFields ==
    ASSUME NEW q \in Request
    PROVE  /\ q.op \in Ops /\ q.id \in Ids /\ q.key \in RpcKeys \union {0} /\ q.stage \in Stages
           /\ q.value \in Stamps /\ q.expect \in WriteSets /\ q.sure \in BOOLEAN
BY DEF Request

LEMMA ClientFields ==
    ASSUME NEW v \in Client
    PROVE  /\ v.calls \in 0..MaxCalls /\ v.waiting \in BOOLEAN /\ v.handle \in Ids
           /\ v.open \in BOOLEAN /\ v.writes \in WriteSets /\ v.sure \in BOOLEAN /\ v.calls \in Nat
BY RpcAssumption DEF Client

LEMMA SessionFields ==
    ASSUME NEW s \in Session
    PROVE  /\ s.busy \in BOOLEAN /\ s.writes \in WriteSets
           /\ \A b \in BOOLEAN : /\ [s EXCEPT !.busy = b] \in Session
                                 /\ [s EXCEPT !.busy = b].busy = b
                                 /\ [s EXCEPT !.busy = b].writes = s.writes
           /\ \A w \in WriteSets : /\ [s EXCEPT !.writes = w] \in Session
                                   /\ [s EXCEPT !.writes = w].writes = w
BY DEF Session

LEMMA FreshSession == Fresh \in Session /\ Fresh.writes = NoWrites /\ NoWrites \in WriteSets
<1>1. NoWrites \in [{} -> Stamps]
  BY Zenon DEF NoWrites
<1>2. NoWrites \in WriteSets
  BY Zenon, <1>1 DEF WriteSets
<1> QED
  BY <1>2 DEF Fresh, Session

LEMMA WritesAdded ==
    ASSUME NEW w \in WriteSets, NEW k \in RpcKeys, NEW v \in Stamps
    PROVE  With(w, k, v) \in WriteSets
<1>1. PICK K \in SUBSET RpcKeys : w \in [K -> Stamps]
  BY Zenon DEF WriteSets
<1>2. With(w, k, v) \in [K \union {k} -> Stamps]
  BY Zenon, <1>1 DEF With
<1>3. K \union {k} \in SUBSET RpcKeys
  BY Zenon, <1>1
<1> QED
  BY Zenon, <1>2, <1>3 DEF WriteSets

-----------------------------------------------------------------------------
(* What a step leaves alone.                                                *)

\* The session is the same, or it was not marked and is gone.
SessionLeft(s) ==
    /\ s \in DOMAIN sessions' => s \in DOMAIN sessions /\ sessions'[s] = sessions[s]
    /\ s \in DOMAIN sessions /\ sessions[s].busy => s \in DOMAIN sessions'

LEMMA RequestLeft ==
    ASSUME RpcInv, NEW u \in DOMAIN requests, requests'[u] = requests[u],
           client'[u[1]].calls \in Nat, client[u[1]].calls <= client'[u[1]].calls,
           requests[u].id # 0 => SessionLeft(Of(u))
    PROVE  WellFormed(u)' /\ KeepsSession(u)' /\ SessionExpected(u)'
<1>1. WellFormed(u) /\ KeepsSession(u) /\ SessionExpected(u)
  BY Zenon DEF RpcInv
<1>2. Of(u)' = Of(u)
  BY Zenon DEF Of
<1>3. WellFormed(u)'
  <2>1. u \in Numbers /\ client[u[1]].calls \in Nat
    BY Zenon, Typed, Number, ClientFields DEF RpcInv, RequestsOK
  <2>2. u[2] \in Nat /\ u[2] <= client[u[1]].calls
    BY Zenon, <1>1, <2>1, Number DEF WellFormed
  <2>3. u[2] <= client'[u[1]].calls
    BY <2>1, <2>2
  <2> QED
    BY Zenon, <1>1, <2>3 DEF WellFormed
<1>4. KeepsSession(u)'
  BY Zenon, <1>1, <1>2 DEF KeepsSession, SessionLeft
<1>5. SessionExpected(u)'
  BY Zenon, <1>1, <1>2 DEF SessionExpected, SessionLeft, WellFormed
<1> QED
  BY Zenon, <1>3, <1>4, <1>5

LEMMA ClientLeft ==
    ASSUME RpcInv, NEW d \in Clients, client'[d] = client[d],
           client[d].waiting => LastCall(d) \in DOMAIN requests'
                                /\ requests'[LastCall(d)] = requests[LastCall(d)],
           \A u \in DOMAIN requests' : u[1] = d => u \in DOMAIN requests /\ requests'[u] = requests[u],
           InTransaction(d) => SessionLeft(<<d, client[d].handle>>)
    PROVE  WaitsForCall(d)' /\ NothingElse(d)' /\ SessionKnown(d)' /\ AnswerRight(d)'
<1>1. WaitsForCall(d) /\ NothingElse(d) /\ SessionKnown(d) /\ AnswerRight(d)
  BY Zenon DEF RpcInv
<1>2. LastCall(d)' = LastCall(d) /\ InTransaction(d)' = InTransaction(d)
  BY Zenon DEF LastCall, InTransaction
<1>3. WaitsForCall(d)'
  BY Zenon, <1>1, <1>2 DEF WaitsForCall
<1>4. NothingElse(d)'
  BY ZenonT(40), <1>1, <1>2 DEF NothingElse, Awaited
<1>5. SessionKnown(d)'
  BY Zenon, <1>1, <1>2 DEF SessionKnown, Knows, SessionLeft
<1>6. AnswerRight(d)'
  BY Zenon, <1>1, <1>2 DEF AnswerRight
<1> QED
  BY Zenon, <1>3, <1>4, <1>5, <1>6

-----------------------------------------------------------------------------
(* The server.  A step of a handler makes its request q, or drops it when   *)
(* nobody waits for it, and touches the session of q alone.                 *)

Serves(r, q) ==
    /\ \/ requests' = [requests EXCEPT ![r] = q]
       \/ requests' = Without(requests, r) /\ ~Awaited(r)
    /\ q \in Request /\ q.op = requests[r].op /\ q.key = requests[r].key
    /\ q.expect = requests[r].expect /\ q.sure = requests[r].sure
    /\ \/ q.id = requests[r].id
       \/ q.op = "begin" /\ q.id \in RandomIds(r[1])
    /\ client' = client /\ rpcStore' \in [RpcKeys -> Stamps]
    /\ SessionsOK(sessions')
    /\ \A s \in Clients \X Ids : s # <<r[1], q.id>> => SessionLeft(s)

\* What it does to that session, s.
SessionServed(r, q, s) ==
    /\ q.stage = "locked" /\ q.op # "begin" /\ q.id # 0 => s \in DOMAIN sessions' /\ sessions'[s].busy
    /\ q.op = "commit" /\ s \in DOMAIN sessions' =>
          s \in DOMAIN sessions /\ sessions'[s].writes = sessions[s].writes
    /\ q.op = "begin" /\ q.stage = "answered" /\ s \in DOMAIN sessions' => sessions'[s].writes = NoWrites
    /\ q.op = "read" /\ q.id # 0 /\ s \in DOMAIN sessions' =>
          s \in DOMAIN sessions /\ sessions'[s].writes = sessions[s].writes
    /\ q.op = "write" /\ q.id # 0 /\ s \in DOMAIN sessions' =>
          /\ s \in DOMAIN sessions
          /\ sessions'[s].writes = IF q.stage = "answered" THEN With(sessions[s].writes, q.key, r)
                                   ELSE sessions[s].writes
    /\ q.op = "read" /\ q.id # 0 /\ q.stage = "answered" =>
          s \in DOMAIN sessions /\ (q.key \in DOMAIN sessions[s].writes => q.value = sessions[s].writes[q.key])

\* No other request is of its transaction.
LEMMA ServedAlone ==
    ASSUME RpcInv, NEW r \in DOMAIN requests, NEW q, Serves(r, q),
           NEW u \in DOMAIN requests, u # r, u[1] = r[1], requests[u].id = q.id
    PROVE  q.id = 0
<1>1. CASE q.id = requests[r].id
  BY Zenon, <1>1 DEF RpcInv, OneAtATime
<1>2. CASE q.id \in RandomIds(r[1])
  BY Zenon, <1>2 DEF RandomIds
<1> QED
  BY Zenon, <1>1, <1>2 DEF Serves

LEMMA ServedRequests ==
    ASSUME RpcInv, NEW r \in DOMAIN requests, NEW q, Serves(r, q)
    PROVE  /\ RequestsOK(requests')
           /\ DOMAIN requests' \subseteq DOMAIN requests
           /\ r \in DOMAIN requests' => requests'[r] = q
           /\ Awaited(r) => r \in DOMAIN requests'
           /\ \A u \in DOMAIN requests : u # r => u \in DOMAIN requests' /\ requests'[u] = requests[u]
<1>1. RequestsOK(requests)
  BY Zenon, Typed DEF RpcInv
<1>2. CASE requests' = [requests EXCEPT ![r] = q]
  <2>1. DOMAIN requests' = DOMAIN requests /\ requests'[r] = q
    BY Zenon, <1>2
  <2>2. \A u \in DOMAIN requests : u # r => requests'[u] = requests[u]
    BY Zenon, <1>2
  <2>3. q \in Request
    BY Zenon DEF Serves
  <2>4. RequestsOK(requests')
    BY Zenon, <1>1, <2>1, <2>2, <2>3 DEF RequestsOK
  <2> QED
    BY Zenon, <2>1, <2>2, <2>4
<1>3. CASE requests' = Without(requests, r) /\ ~Awaited(r)
  <2>1. DOMAIN requests' = DOMAIN requests \ {r}
    BY Zenon, <1>3, WithoutFacts
  <2>2. \A u \in DOMAIN requests : u # r => requests'[u] = requests[u]
    BY Zenon, <1>3, WithoutFacts
  <2>3. RequestsOK(requests')
    BY Zenon, <1>1, <2>1, <2>2 DEF RequestsOK
  <2> QED
    BY Zenon, <1>3, <2>1, <2>2, <2>3
<1> QED
  BY Zenon, <1>2, <1>3 DEF Serves

LEMMA ServerKeeps ==
    ASSUME RpcInv, NEW r \in DOMAIN requests, requests[r].stage # "answered",
           NEW q, Serves(r, q), SessionServed(r, q, <<r[1], q.id>>)
    PROVE  RpcInv'
<1> DEFINE s == <<r[1], q.id>>
<1>1. /\ RpcTypeOK /\ RequestsOK(requests) /\ SessionsOK(sessions) /\ r \in Numbers /\ r[1] \in Clients
      /\ client \in [Clients -> Client] /\ Ids \subseteq Nat
  BY Zenon, Typed, Number DEF RpcInv, RequestsOK
<1>2. /\ q \in Request /\ q.op = requests[r].op /\ q.key = requests[r].key
      /\ q.expect = requests[r].expect /\ q.sure = requests[r].sure
      /\ client' = client /\ s \in Clients \X Ids
  <2>1. q \in Request /\ q.id \in Ids
    BY Zenon, RequestFields DEF Serves
  <2> QED
    BY Zenon, <1>1, <2>1 DEF Serves
<1>3. WellFormed(r) /\ KeepsSession(r) /\ SessionExpected(r)
  BY Zenon DEF RpcInv
<1>4. RpcTypeOK'
  BY Zenon, <1>1, StaysTyped, ServedRequests DEF Serves
<1>5. OneAtATime'
  <2> SUFFICES ASSUME NEW u \in DOMAIN requests', NEW w \in DOMAIN requests', u[1] = w[1],
                      requests'[u].id = requests'[w].id, requests'[u].id # 0, u # w
               PROVE  FALSE
    BY Zenon DEF OneAtATime
  <2>1. u \in DOMAIN requests /\ w \in DOMAIN requests
    BY Zenon, ServedRequests
  <2>2. CASE u = r
    <3>1. requests'[u] = q /\ requests'[w] = requests[w] /\ w # r
      BY Zenon, <2>1, <2>2, ServedRequests
    <3> QED
      BY Zenon, <2>1, <2>2, <3>1, ServedAlone
  <2>3. CASE w = r
    <3>1. requests'[w] = q /\ requests'[u] = requests[u] /\ u # r
      BY Zenon, <2>1, <2>3, ServedRequests
    <3> QED
      BY Zenon, <2>1, <2>3, <3>1, ServedAlone
  <2>4. CASE u # r /\ w # r
    <3>1. requests'[w] = requests[w] /\ requests'[u] = requests[u]
      BY Zenon, <2>1, <2>4, ServedRequests
    <3> QED
      BY Zenon, <2>1, <3>1 DEF RpcInv, OneAtATime
  <2> QED
    BY Zenon, <2>2, <2>3, <2>4
<1>6. ASSUME NEW u \in DOMAIN requests'
      PROVE  WellFormed(u)' /\ KeepsSession(u)' /\ SessionExpected(u)'
  <2>1. u \in DOMAIN requests
    BY Zenon, ServedRequests
  <2>2. CASE u # r
    <3>1. requests'[u] = requests[u]
      BY Zenon, <2>1, <2>2, ServedRequests
    <3>2. requests[u].id # 0 => SessionLeft(Of(u))
      <4>1. Of(u) \in Clients \X Ids
        <5>1. u \in Numbers /\ u[1] \in Clients /\ requests[u].id \in Ids
          BY Zenon, <1>1, <2>1, Number, RequestFields DEF RequestsOK
        <5> QED
          BY Zenon, <5>1 DEF Of
      <4>2. CASE Of(u) # s
        BY Zenon, <4>1, <4>2 DEF Serves
      <4>3. CASE Of(u) = s
        <5>1. u[1] = r[1] /\ requests[u].id = q.id
          BY <4>3 DEF Of
        <5> QED
          BY Zenon, <2>1, <2>2, <5>1, ServedAlone
      <4> QED
        BY Zenon, <4>2, <4>3
    <3>3. client'[u[1]].calls \in Nat /\ client[u[1]].calls <= client'[u[1]].calls
      <4>1. client[u[1]].calls \in Nat
        BY Zenon, <1>1, <2>1, Number, ClientFields DEF RequestsOK
      <4>2. client[u[1]].calls <= client[u[1]].calls
        BY <4>1
      <4> QED
        BY Zenon, <1>2, <4>1, <4>2
    <3> QED
      BY Zenon, <2>1, <3>1, <3>2, <3>3, RequestLeft
  <2>3. CASE u = r
    <3>1. requests'[r] = q /\ Of(r)' = s
      BY Zenon, <2>3, ServedRequests DEF Of
    <3>2. q.op = "commit" => q.id # 0 /\ q.id = requests[r].id
      <4>1. q.op = "commit" => q.op # "begin"
        OBVIOUS
      <4> QED
        BY Zenon, <1>2, <1>3, <4>1 DEF WellFormed, Serves
    <3>3. WellFormed(r)'
      BY Zenon, <1>2, <1>3, <3>1, <3>2 DEF WellFormed
    <3>4. KeepsSession(r)'
      BY Zenon, <3>1 DEF KeepsSession, SessionServed
    <3>5. q.op = "commit" => Of(r) = s
      BY Zenon, <3>2 DEF Of
    <3>6. SessionExpected(r)'
      BY Zenon, <1>2, <1>3, <3>1, <3>5 DEF SessionExpected, SessionServed
    <3> QED
      BY Zenon, <2>3, <3>3, <3>4, <3>6
  <2> QED
    BY Zenon, <2>2, <2>3
<1>7. ASSUME NEW d \in Clients
      PROVE  WaitsForCall(d)' /\ NothingElse(d)' /\ SessionKnown(d)' /\ AnswerRight(d)'
  <2>1. /\ WaitsForCall(d) /\ NothingElse(d) /\ SessionKnown(d) /\ AnswerRight(d)
        /\ client'[d] = client[d] /\ LastCall(d)' = LastCall(d)
    BY Zenon, <1>2 DEF RpcInv, LastCall
  <2>2. client[d].handle \in Ids /\ client[d].handle \in Nat
    BY Zenon, <1>1, ClientFields
  <2>3. CASE r[1] # d
    <3>1. client[d].waiting => LastCall(d) \in DOMAIN requests'
                               /\ requests'[LastCall(d)] = requests[LastCall(d)]
      <4>1. LastCall(d)[1] = d
        BY DEF LastCall
      <4> QED
        BY Zenon, <2>1, <2>3, <4>1, ServedRequests DEF WaitsForCall
    <3>2. \A u \in DOMAIN requests' : u[1] = d => u \in DOMAIN requests /\ requests'[u] = requests[u]
      BY Zenon, <2>3, ServedRequests
    <3>3. SessionLeft(<<d, client[d].handle>>)
      <4>1. <<d, client[d].handle>> # s /\ <<d, client[d].handle>> \in Clients \X Ids
        BY <2>2, <2>3
      <4> QED
        BY Zenon, <4>1 DEF Serves
    <3> QED
      BY Zenon, <2>1, <3>1, <3>2, <3>3, ClientLeft
  <2>4. CASE r[1] = d /\ Awaited(r)
    <3>1. /\ client[d].waiting /\ LastCall(d) = r /\ r \in DOMAIN requests' /\ requests'[r] = q
      <4>1. client[d].waiting /\ client[d].calls = r[2]
        BY Zenon, <2>4 DEF Awaited
      <4>2. LastCall(d) = r
        BY Zenon, <1>1, <2>4, <4>1, Number DEF LastCall
      <4> QED
        BY Zenon, <2>4, <4>1, <4>2, ServedRequests
    <3>2. /\ client[d].open => q.op # "begin" /\ q.id = client[d].handle /\ requests[r].id = q.id
          /\ ~client[d].open => q.op # "commit" /\ (q.op # "begin" => q.id = 0)
      BY Zenon, <1>2, <2>1, <3>1 DEF WaitsForCall, Serves
    <3>3. WaitsForCall(d)'
      BY Zenon, <2>1, <3>1, <3>2 DEF WaitsForCall
    <3>4. NothingElse(d)'
      <4> SUFFICES ASSUME InTransaction(d), NEW u \in DOMAIN requests', u[1] = d,
                          requests'[u].id = client[d].handle
                   PROVE  Awaited(u)
        BY Zenon, <2>1 DEF NothingElse, InTransaction, Awaited
      <4>1. CASE u = r
        BY Zenon, <2>4, <4>1
      <4>2. CASE u # r
        <5>1. u \in DOMAIN requests /\ requests'[u] = requests[u]
          BY Zenon, <4>2, ServedRequests
        <5> QED
          BY Zenon, <2>1, <5>1 DEF NothingElse
      <4> QED
        BY Zenon, <4>1, <4>2
    <3>5. SessionKnown(d)'
      <4> SUFFICES ASSUME InTransaction(d), client[d].sure, <<d, client[d].handle>> \in DOMAIN sessions'
                   PROVE  sessions'[<<d, client[d].handle>>].writes = Knows(d)'
        BY Zenon, <2>1 DEF SessionKnown, InTransaction
      <4>1. /\ q.op # "begin" /\ q.id # 0 /\ s = <<d, client[d].handle>> /\ q.op \in Ops
        BY Zenon, <1>2, <2>4, <3>2, RequestFields DEF InTransaction
      <4>2. Knows(d) = client[d].writes
        BY Zenon, <3>1 DEF Knows
      <4>3. s \in DOMAIN sessions /\ sessions[s].writes = client[d].writes
        <5>1. s \in DOMAIN sessions
          BY Zenon, <4>1 DEF SessionServed, Ops
        <5> QED
          BY Zenon, <2>1, <4>1, <4>2, <5>1 DEF SessionKnown
      <4>4. Knows(d)' = IF q.op = "write" /\ q.stage = "answered" THEN With(client[d].writes, q.key, r)
                        ELSE client[d].writes
        BY Zenon, <2>1, <3>1 DEF Knows
      <4>5. CASE q.op = "write"
        BY Zenon, <4>1, <4>3, <4>4, <4>5 DEF SessionServed
      <4>6. CASE q.op # "write"
        BY Zenon, <4>1, <4>3, <4>4, <4>6 DEF SessionServed, Ops
      <4> QED
        BY Zenon, <4>5, <4>6
    <3>6. AnswerRight(d)'
      <4> SUFFICES ASSUME InTransaction(d), client[d].sure, q.op = "read", q.stage = "answered",
                          q.key \in DOMAIN client[d].writes
                   PROVE  q.value = client[d].writes[q.key]
        BY Zenon, <2>1, <3>1 DEF AnswerRight, InTransaction
      <4>1. q.id # 0 /\ s = <<d, client[d].handle>>
        BY Zenon, <2>4, <3>2 DEF InTransaction
      <4>2. Knows(d) = client[d].writes
        BY Zenon, <3>1 DEF Knows
      <4>3. s \in DOMAIN sessions
        BY Zenon, <4>1 DEF SessionServed
      <4>4. sessions[s].writes = client[d].writes
        BY Zenon, <2>1, <4>1, <4>2, <4>3 DEF SessionKnown
      <4> QED
        BY Zenon, <4>1, <4>4 DEF SessionServed
    <3> QED
      BY Zenon, <3>3, <3>4, <3>5, <3>6
  <2>5. CASE r[1] = d /\ ~Awaited(r)
    <3>1. client[d].waiting => LastCall(d) \in DOMAIN requests'
                               /\ requests'[LastCall(d)] = requests[LastCall(d)]
      <4> SUFFICES ASSUME client[d].waiting PROVE LastCall(d) # r
        BY Zenon, <2>1, ServedRequests DEF WaitsForCall
      <4>1. LastCall(d) = r => client[d].calls = r[2]
        BY DEF LastCall
      <4> QED
        BY Zenon, <2>5, <4>1 DEF Awaited
    <3>2. InTransaction(d) => q.id # client[d].handle
      <4> SUFFICES ASSUME InTransaction(d), q.id = client[d].handle PROVE FALSE
        BY Zenon
      <4>1. q.id # requests[r].id
        BY Zenon, <2>1, <2>5 DEF NothingElse
      <4>2. q.id \in RandomIds(d)
        BY Zenon, <2>5, <4>1 DEF Serves
      <4> QED
        BY Zenon, <4>2 DEF RandomIds, InTransaction
    <3>3. InTransaction(d) => SessionLeft(<<d, client[d].handle>>)
      <4> SUFFICES ASSUME InTransaction(d) PROVE SessionLeft(<<d, client[d].handle>>)
        BY Zenon
      <4>1. <<d, client[d].handle>> # s /\ <<d, client[d].handle>> \in Clients \X Ids
        BY <2>2, <3>2
      <4> QED
        BY Zenon, <4>1 DEF Serves
    <3>4. WaitsForCall(d)'
      BY Zenon, <2>1, <3>1 DEF WaitsForCall
    <3>5. NothingElse(d)'
      <4> SUFFICES ASSUME InTransaction(d), NEW u \in DOMAIN requests', u[1] = d,
                          requests'[u].id = client[d].handle
                   PROVE  Awaited(u)
        BY Zenon, <2>1 DEF NothingElse, InTransaction, Awaited
      <4>1. u # r
        <5>1. u = r => requests'[u] = q
          BY Zenon, ServedRequests
        <5> QED
          BY Zenon, <3>2, <5>1
      <4>2. u \in DOMAIN requests /\ requests'[u] = requests[u]
        BY Zenon, <4>1, ServedRequests
      <4> QED
        BY Zenon, <2>1, <4>2 DEF NothingElse
    <3>6. SessionKnown(d)'
      BY Zenon, <2>1, <3>1, <3>3 DEF SessionKnown, Knows, InTransaction, SessionLeft
    <3>7. AnswerRight(d)'
      BY Zenon, <2>1, <3>1 DEF AnswerRight, InTransaction
    <3> QED
      BY Zenon, <3>4, <3>5, <3>6, <3>7
  <2> QED
    BY Zenon, <2>3, <2>4, <2>5
<1> QED
  BY Zenon, <1>4, <1>5, <1>6, <1>7 DEF RpcInv

\* The parts of a request that a handler does not change.
SameCall(p, q) == p.op = q.op /\ p.key = q.key /\ p.expect = q.expect /\ p.sure = q.sure

LEMMA Moved ==
    ASSUME NEW q \in Request, NEW stage \in Stages, NEW p, p = [q EXCEPT !.stage = stage]
    PROVE  p \in Request /\ SameCall(p, q) /\ p.id = q.id /\ p.stage = stage
BY DEF Request, SameCall

LEMMA Answered ==
    ASSUME NEW q \in Request, NEW stage \in Stages, NEW value \in Stamps, NEW p,
           p = [q EXCEPT !.stage = stage, !.value = value]
    PROVE  /\ p \in Request /\ SameCall(p, q) /\ p.id = q.id /\ p.stage = stage
           /\ p.value = value
BY Zenon DEF Request, SameCall

LEMMA Becoming ==
    ASSUME NEW r, NEW q, Becomes(r, q)
    PROVE  \/ requests' = [requests EXCEPT ![r] = q]
           \/ requests' = Without(requests, r) /\ ~Awaited(r)
BY Zenon DEF Becomes

LEMMA SessionPut ==
    ASSUME SessionsOK(sessions), NEW s \in Clients \X Ids, NEW y \in Session,
           \/ sessions' = With(sessions, s, y)
           \/ s \in DOMAIN sessions /\ sessions' = [sessions EXCEPT ![s] = y]
    PROVE  /\ SessionsOK(sessions') /\ s \in DOMAIN sessions' /\ sessions'[s] = y
           /\ \A z \in Clients \X Ids : z # s => SessionLeft(z)
<1>1. CASE sessions' = With(sessions, s, y)
  <2>1. /\ DOMAIN sessions' = DOMAIN sessions \union {s} /\ sessions'[s] = y
        /\ \A z \in DOMAIN sessions : z # s => sessions'[z] = sessions[z]
    BY Zenon, <1>1 DEF With
  <2> QED
    BY Zenon, <2>1 DEF SessionsOK, SessionLeft
<1>2. CASE s \in DOMAIN sessions /\ sessions' = [sessions EXCEPT ![s] = y]
  <2>1. /\ DOMAIN sessions' = DOMAIN sessions /\ sessions'[s] = y
        /\ \A z \in DOMAIN sessions : z # s => sessions'[z] = sessions[z]
    BY Zenon, <1>2
  <2> QED
    BY Zenon, <1>2, <2>1 DEF SessionsOK, SessionLeft
<1> QED
  BY Zenon, <1>1, <1>2

LEMMA SessionGone ==
    ASSUME SessionsOK(sessions), NEW s, sessions' = Without(sessions, s)
    PROVE  /\ SessionsOK(sessions') /\ s \notin DOMAIN sessions'
           /\ \A z : z # s => SessionLeft(z)
<1>1. /\ DOMAIN sessions' = DOMAIN sessions \ {s}
      /\ \A z \in DOMAIN sessions : z # s => sessions'[z] = sessions[z]
  BY Zenon, WithoutFacts
<1> QED
  BY Zenon, <1>1 DEF SessionsOK, SessionLeft

LEMMA SessionsSame ==
    ASSUME SessionsOK(sessions), sessions' = sessions
    PROVE  SessionsOK(sessions') /\ \A z : SessionLeft(z)
BY Zenon DEF SessionLeft

\* What every step of a handler starts from.
LEMMA AtServer ==
    ASSUME RpcInv, NEW r \in DOMAIN requests
    PROVE  /\ requests[r] \in Request /\ r \in Stamps /\ r[1] \in Clients /\ Of(r) \in Clients \X Ids
           /\ requests[r].id \in Ids /\ SessionsOK(sessions) /\ rpcStore \in [RpcKeys -> Stamps]
           /\ Of(r) = <<r[1], requests[r].id>>
           /\ WellFormed(r) /\ KeepsSession(r) /\ SessionExpected(r)
<1>1. requests[r] \in Request /\ r \in Numbers
  BY Zenon, Typed DEF RpcInv, RequestsOK
<1>2. r[1] \in Clients /\ requests[r].id \in Ids /\ r \in Stamps
  BY Zenon, <1>1, Number, RequestFields
<1> QED
  BY Zenon, <1>1, <1>2, Typed DEF RpcInv, Of

\* A request that nobody waits for is lost.
LEMMA LoseKeeps ==
    ASSUME RpcInv, NEW r \in DOMAIN requests, Lose(r)
    PROVE  RpcInv'
<1> DEFINE q == requests[r]
<1>1. Serves(r, q)
  BY Zenon, AtServer, SessionsSame DEF Lose, Serves
<1>2. requests[r].stage = "sent" /\ sessions' = sessions
  BY Zenon DEF Lose
<1>3. requests[r].stage # "answered" /\ requests[r].stage # "locked"
  BY <1>2
<1>4. SessionServed(r, q, <<r[1], q.id>>)
  BY Zenon, <1>2, <1>3 DEF SessionServed
<1> QED
  BY Zenon, <1>1, <1>3, <1>4, ServerKeeps

\* An idle session is evicted.
LEMMA EvictKeeps ==
    ASSUME RpcInv, NEW s \in DOMAIN sessions, Evict(s)
    PROVE  RpcInv'
<1>1. /\ ~sessions[s].busy /\ sessions' = Without(sessions, s)
      /\ rpcStore' = rpcStore /\ requests' = requests /\ client' = client
  BY Zenon DEF Evict
<1>2. SessionsOK(sessions') /\ \A z : SessionLeft(z)
  <2>1. SessionsOK(sessions)
    BY Zenon, Typed DEF RpcInv
  <2>2. SessionsOK(sessions') /\ s \notin DOMAIN sessions' /\ \A z : z # s => SessionLeft(z)
    BY Zenon, <1>1, <2>1, SessionGone
  <2> QED
    BY Zenon, <1>1, <2>2 DEF SessionLeft
<1>3. RpcTypeOK'
  BY Zenon, <1>1, <1>2, Typed, StaysTyped DEF RpcInv
<1>4. OneAtATime'
  BY Zenon, <1>1 DEF RpcInv, OneAtATime
<1>5. ASSUME NEW u \in DOMAIN requests' PROVE WellFormed(u)' /\ KeepsSession(u)' /\ SessionExpected(u)'
  <2>1. client[u[1]].calls \in Nat
    BY Zenon, <1>1, AtServer, Typed, ClientFields DEF RpcInv
  <2>2. client[u[1]].calls <= client[u[1]].calls
    BY <2>1
  <2> QED
    BY Zenon, <1>1, <1>2, <2>1, <2>2, RequestLeft
<1>6. ASSUME NEW d \in Clients PROVE WaitsForCall(d)' /\ NothingElse(d)' /\ SessionKnown(d)' /\ AnswerRight(d)'
  <2>1. WaitsForCall(d)
    BY Zenon DEF RpcInv
  <2> QED
    BY Zenon, <1>1, <1>2, <2>1, ClientLeft DEF WaitsForCall
<1> QED
  BY Zenon, <1>3, <1>4, <1>5, <1>6 DEF RpcInv

\* A handler that keeps the id of its request.
LEMMA Serving ==
    ASSUME RpcInv, NEW r \in DOMAIN requests, NEW q \in Request, SameCall(q, requests[r]),
           q.id = requests[r].id, Becomes(r, q), client' = client, rpcStore' \in [RpcKeys -> Stamps],
           SessionsOK(sessions'), \A z \in Clients \X Ids : z # Of(r) => SessionLeft(z)
    PROVE  Serves(r, q) /\ <<r[1], q.id>> = Of(r)
BY Zenon, Becoming DEF Serves, SameCall, Of

\* request_txn names the transaction and starts no session that is running.
LEMMA LockBeginKeeps ==
    ASSUME RpcInv, NEW r \in DOMAIN requests, requests[r].stage = "sent", requests[r].op = "begin",
           LockBegin(r)
    PROVE  RpcInv'
<1>1. PICK tid \in (IF requests[r].id = 0 THEN RandomIds(r[1]) ELSE {requests[r].id}) :
        /\ Becomes(r, [requests[r] EXCEPT !.id = tid,
               !.stage = IF <<r[1], tid>> \in DOMAIN sessions THEN "refused" ELSE "locked"])
        /\ UNCHANGED <<rpcStore, sessions, client>>
  BY Zenon DEF LockBegin
<1> DEFINE stage == IF <<r[1], tid>> \in DOMAIN sessions THEN "refused" ELSE "locked"
<1> DEFINE q == [requests[r] EXCEPT !.id = tid, !.stage = stage]
<1>2. requests[r] \in Request /\ requests[r].id \in Ids /\ SessionsOK(sessions) /\ rpcStore \in [RpcKeys -> Stamps]
  BY Zenon, AtServer
<1>3. tid = requests[r].id \/ tid \in RandomIds(r[1])
  BY Zenon, <1>1
<1>4. tid \in Ids /\ stage \in Stages /\ stage # "answered"
  <2>1. RandomIds(r[1]) \subseteq Ids
    BY RpcAssumption DEF RandomIds, Ids
  <2> QED
    BY <1>2, <1>3, <2>1 DEF Stages
<1>5. q \in Request /\ SameCall(q, requests[r]) /\ q.id = tid /\ q.stage = stage
  <2> HIDE DEF stage
  <2> QED
    BY Zenon, <1>2, <1>4 DEF Request, SameCall
<1> HIDE DEF q
<1>6. Becomes(r, q) /\ rpcStore' = rpcStore /\ sessions' = sessions /\ client' = client
  BY Zenon, <1>1 DEF q
<1>7. Serves(r, q)
  BY Zenon, <1>2, <1>3, <1>5, <1>6, Becoming, SessionsSame DEF Serves, SameCall
<1>8. q.op = "begin" /\ q.stage # "answered"
  BY ZenonT(60), <1>4, <1>5 DEF SameCall
<1>9. SessionServed(r, q, <<r[1], q.id>>)
  BY <1>8 DEF SessionServed
<1>10. requests[r].stage # "answered"
  OBVIOUS
<1> QED
  BY Zenon, <1>7, <1>9, <1>10, ServerKeeps

\* A session marked as executing.
LEMMA Marking ==
    ASSUME RpcInv, NEW r \in DOMAIN requests, Of(r) \in DOMAIN sessions,
           sessions' = [sessions EXCEPT ![Of(r)].busy = TRUE]
    PROVE  /\ SessionsOK(sessions') /\ \A z \in Clients \X Ids : z # Of(r) => SessionLeft(z)
           /\ Of(r) \in DOMAIN sessions' /\ sessions'[Of(r)].busy
           /\ sessions'[Of(r)].writes = sessions[Of(r)].writes
<1> DEFINE s == Of(r)
           y == [sessions[s] EXCEPT !.busy = TRUE]
<1>1. SessionsOK(sessions) /\ s \in Clients \X Ids
  BY Zenon, AtServer
<1>2. y \in Session /\ y.busy = TRUE /\ y.writes = sessions[s].writes
  <2>1. sessions[s] \in Session
    BY Zenon, <1>1 DEF SessionsOK
  <2>2. TRUE \in BOOLEAN
    OBVIOUS
  <2> QED
    BY Zenon, <2>1, <2>2, SessionFields
<1>3. sessions' = [sessions EXCEPT ![s] = y]
  BY Zenon
<1> HIDE DEF y, s
<1>4. /\ SessionsOK(sessions') /\ s \in DOMAIN sessions' /\ sessions'[s] = y
      /\ \A z \in Clients \X Ids : z # s => SessionLeft(z)
  BY Zenon, <1>1, <1>2, <1>3, SessionPut DEF s
<1> QED
  BY Zenon, <1>2, <1>4 DEF s

\* continue_txn for a call with or without a transaction.
LEMMA LockCallKeeps ==
    ASSUME RpcInv, NEW r \in DOMAIN requests, requests[r].stage = "sent",
           requests[r].op \in {"read", "write"}, LockCall(r)
    PROVE  RpcInv'
<1>1. /\ requests[r] \in Request /\ SessionsOK(sessions) /\ rpcStore' \in [RpcKeys -> Stamps] /\ client' = client
      /\ requests[r].op # "begin" /\ requests[r].op # "commit" /\ requests[r].stage # "answered"
  <2>1. rpcStore' = rpcStore /\ client' = client
    BY Zenon DEF LockCall
  <2>2. requests[r].op # "begin" /\ requests[r].op # "commit" /\ requests[r].stage # "answered"
    OBVIOUS
  <2> QED
    BY Zenon, <2>1, <2>2, AtServer
<1>2. "locked" \in Stages /\ "refused" \in Stages /\ "locked" # "answered" /\ "refused" # "answered"
      /\ "refused" # "locked"
  BY DEF Stages
<1>3. CASE requests[r].id # 0 /\ Available(Of(r))
  <2> DEFINE q == [requests[r] EXCEPT !.stage = "locked"]
  <2>1. q \in Request /\ SameCall(q, requests[r]) /\ q.id = requests[r].id /\ q.stage = "locked"
    BY Zenon, <1>1, <1>2, Moved
  <2>2. /\ Becomes(r, q) /\ sessions' = [sessions EXCEPT ![Of(r)].busy = TRUE]
        /\ Of(r) \in DOMAIN sessions
    BY Zenon, <1>3 DEF LockCall, Moves, Available
  <2> HIDE DEF q
  <2>3. /\ SessionsOK(sessions') /\ \A z \in Clients \X Ids : z # Of(r) => SessionLeft(z)
        /\ Of(r) \in DOMAIN sessions' /\ sessions'[Of(r)].busy
        /\ sessions'[Of(r)].writes = sessions[Of(r)].writes
    BY Zenon, <2>2, Marking
  <2>4. Serves(r, q) /\ <<r[1], q.id>> = Of(r)
    BY Zenon, <1>1, <2>1, <2>2, <2>3, Serving
  <2>5. SessionServed(r, q, Of(r))
    BY ZenonT(60), <1>1, <1>2, <2>1, <2>2, <2>3 DEF SessionServed, SameCall
  <2> QED
    BY Zenon, <1>1, <2>4, <2>5, ServerKeeps
<1>4. CASE ~(requests[r].id # 0 /\ Available(Of(r)))
  <2> DEFINE stage == IF requests[r].id = 0 THEN "locked" ELSE "refused"
  <2> DEFINE q == [requests[r] EXCEPT !.stage = stage]
  <2>0. stage \in Stages /\ stage # "answered" /\ (stage = "locked" => requests[r].id = 0)
    BY Zenon, <1>2
  <2>1. Becomes(r, q) /\ sessions' = sessions
    BY Zenon, <1>4 DEF LockCall, Moves
  <2> HIDE DEF stage
  <2>2. q \in Request /\ SameCall(q, requests[r]) /\ q.id = requests[r].id /\ q.stage = stage
    BY ZenonT(40), <1>1, <2>0, Moved
  <2> HIDE DEF q
  <2>3. Serves(r, q) /\ <<r[1], q.id>> = Of(r)
    BY Zenon, <1>1, <2>1, <2>2, SessionsSame, Serving
  <2>4. SessionServed(r, q, Of(r))
    BY Zenon, <1>1, <2>0, <2>1, <2>2 DEF SessionServed, SameCall
  <2> QED
    BY Zenon, <1>1, <2>3, <2>4, ServerKeeps
<1> QED
  BY Zenon, <1>3, <1>4

\* The commit's continue_txn, and the release of a session it cannot continue.
LEMMA LockCommitKeeps ==
    ASSUME RpcInv, NEW r \in DOMAIN requests, requests[r].stage = "sent",
           requests[r].op = "commit", LockCommit(r)
    PROVE  RpcInv'
<1>1. /\ requests[r] \in Request /\ SessionsOK(sessions) /\ rpcStore' \in [RpcKeys -> Stamps] /\ client' = client
      /\ requests[r].stage # "answered"
  <2>1. rpcStore' = rpcStore /\ client' = client
    BY Zenon DEF LockCommit
  <2>2. requests[r].stage # "answered"
    OBVIOUS
  <2> QED
    BY Zenon, <2>1, <2>2, AtServer
<1>2. "locked" \in Stages /\ "refused" \in Stages /\ "refused" # "locked"
  BY DEF Stages
<1>3. CASE Available(Of(r))
  <2> DEFINE q == [requests[r] EXCEPT !.stage = "locked"]
  <2>1. q \in Request /\ SameCall(q, requests[r]) /\ q.id = requests[r].id /\ q.stage = "locked"
    BY Zenon, <1>1, <1>2, Moved
  <2>2. /\ Becomes(r, q) /\ sessions' = [sessions EXCEPT ![Of(r)].busy = TRUE]
        /\ Of(r) \in DOMAIN sessions
    BY Zenon, <1>3 DEF LockCommit, Moves, Available
  <2> HIDE DEF q
  <2>3. /\ SessionsOK(sessions') /\ \A z \in Clients \X Ids : z # Of(r) => SessionLeft(z)
        /\ Of(r) \in DOMAIN sessions' /\ sessions'[Of(r)].busy
        /\ sessions'[Of(r)].writes = sessions[Of(r)].writes
    BY Zenon, <2>2, Marking
  <2>4. Serves(r, q) /\ <<r[1], q.id>> = Of(r)
    BY Zenon, <1>1, <2>1, <2>2, <2>3, Serving
  <2>5. SessionServed(r, q, Of(r))
    BY ZenonT(60), <2>1, <2>2, <2>3 DEF SessionServed, SameCall
  <2> QED
    BY Zenon, <1>1, <2>4, <2>5, ServerKeeps
<1>4. CASE ~Available(Of(r))
  <2> DEFINE q == [requests[r] EXCEPT !.stage = "refused"]
  <2>1. q \in Request /\ SameCall(q, requests[r]) /\ q.id = requests[r].id /\ q.stage = "refused"
    BY Zenon, <1>1, <1>2, Moved
  <2>2. Becomes(r, q) /\ sessions' = Without(sessions, Of(r))
    BY Zenon, <1>4 DEF LockCommit, Moves
  <2> HIDE DEF q
  <2>3. SessionsOK(sessions') /\ Of(r) \notin DOMAIN sessions' /\ \A z : z # Of(r) => SessionLeft(z)
    BY Zenon, <1>1, <2>2, SessionGone
  <2>4. Serves(r, q) /\ <<r[1], q.id>> = Of(r)
    BY ZenonT(40), <1>1, <2>1, <2>2, <2>3, Serving
  <2>5. SessionServed(r, q, Of(r))
    BY ZenonT(60), <2>1, <2>2, <2>3 DEF SessionServed, SameCall
  <2> QED
    BY Zenon, <1>1, <2>4, <2>5, ServerKeeps
<1> QED
  BY Zenon, <1>3, <1>4

LEMMA LockKeeps ==
    ASSUME RpcInv, NEW r \in DOMAIN requests, LockSession(r)
    PROVE  RpcInv'
<1>1. requests[r].stage = "sent" /\ requests[r].op \in Ops
  BY Zenon, AtServer, RequestFields DEF LockSession
<1>2. CASE requests[r].op = "begin"
  <2>1. LockBegin(r)
    BY <1>2 DEF LockSession
  <2> QED
    BY Zenon, <1>1, <1>2, <2>1, LockBeginKeeps
<1>3. CASE requests[r].op = "commit"
  <2>1. LockCommit(r)
    BY <1>3 DEF LockSession
  <2> QED
    BY Zenon, <1>1, <1>3, <2>1, LockCommitKeeps
<1>4. CASE requests[r].op \in {"read", "write"}
  <2>1. LockCall(r)
    BY <1>4 DEF LockSession
  <2> QED
    BY Zenon, <1>1, <1>4, <2>1, LockCallKeeps
<1> QED
  BY <1>1, <1>2, <1>3, <1>4 DEF Ops

\* hold_txn: the session is back in the table.
LEMMA Holding ==
    ASSUME SessionsOK(sessions), NEW s \in Clients \X Ids, NEW y \in Session, NEW ok,
           sessions' = Held(s, y, ok)
    PROVE  /\ SessionsOK(sessions') /\ \A z \in Clients \X Ids : z # s => SessionLeft(z)
           /\ sessions'[s].writes = y.writes
<1> DEFINE x == [y EXCEPT !.busy = FALSE]
<1>1. x \in Session /\ x.writes = y.writes
  <2>1. FALSE \in BOOLEAN
    OBVIOUS
  <2> QED
    BY Zenon, <2>1, SessionFields
<1>2. sessions' = With(sessions, s, x)
  BY Zenon DEF Held
<1> HIDE DEF x
<1>3. /\ SessionsOK(sessions') /\ sessions'[s] = x
      /\ \A z \in Clients \X Ids : z # s => SessionLeft(z)
  BY Zenon, <1>1, <1>2, SessionPut
<1> QED
  BY Zenon, <1>1, <1>3

\* What a transaction sees is a value of the rpcStore or of its own.
LEMMA VisibleTyped ==
    ASSUME RpcTypeOK, NEW s \in DOMAIN sessions, NEW k \in RpcKeys
    PROVE  Visible(s, k) \in Stamps
<1>1. sessions[s] \in Session /\ rpcStore \in [RpcKeys -> Stamps]
  BY Zenon, Typed DEF SessionsOK
<1>2. PICK K \in SUBSET RpcKeys : sessions[s].writes \in [K -> Stamps]
  <2>1. sessions[s].writes \in WriteSets
    BY Zenon, <1>1, SessionFields
  <2> QED
    BY Zenon, <2>1 DEF WriteSets
<1> QED
  BY Zenon, <1>1, <1>2 DEF Visible

LEMMA StagesOf ==
    ASSUME NEW ok \in BOOLEAN, NEW stage, stage = IF ok THEN "answered" ELSE "refused"
    PROVE  stage \in Stages /\ stage # "locked" /\ (stage = "answered" <=> ok)
BY DEF Stages

\* ukv_transaction_init on the server.
LEMMA ServeBeginKeeps ==
    ASSUME RpcInv, NEW r \in DOMAIN requests, requests[r].stage = "locked", requests[r].op = "begin",
           ServeBegin(r)
    PROVE  RpcInv'
<1>1. /\ requests[r] \in Request /\ SessionsOK(sessions) /\ rpcStore \in [RpcKeys -> Stamps]
      /\ Of(r) \in Clients \X Ids
  BY Zenon, AtServer
<1>2. requests[r].stage # "answered"
  OBVIOUS
<1>3. PICK ok \in BOOLEAN :
        /\ Moves(r, IF ok THEN "answered" ELSE "refused")
        /\ sessions' = IF ok THEN With(sessions, Of(r), Fresh) ELSE Without(sessions, Of(r))
        /\ rpcStore' = rpcStore /\ client' = client
  BY Zenon DEF ServeBegin
<1> DEFINE stage == IF ok THEN "answered" ELSE "refused"
           q == [requests[r] EXCEPT !.stage = stage]
<1>4. stage \in Stages /\ stage # "locked"
  BY Zenon, StagesOf
<1>5. Becomes(r, q)
  BY Zenon, <1>3 DEF Moves
<1> HIDE DEF stage
<1>6. q \in Request /\ SameCall(q, requests[r]) /\ q.id = requests[r].id /\ q.stage = stage
  BY <1>1, <1>4 DEF Request, SameCall
<1> HIDE DEF q
<1>7. /\ SessionsOK(sessions') /\ \A z \in Clients \X Ids : z # Of(r) => SessionLeft(z)
      /\ Of(r) \in DOMAIN sessions' => sessions'[Of(r)].writes = NoWrites
  <2>1. CASE ok
    <3>1. sessions' = With(sessions, Of(r), Fresh)
      BY Zenon, <1>3, <2>1
    <3>2. /\ SessionsOK(sessions') /\ sessions'[Of(r)] = Fresh
          /\ \A z \in Clients \X Ids : z # Of(r) => SessionLeft(z)
      BY Zenon, <1>1, <3>1, FreshSession, SessionPut
    <3> QED
      BY Zenon, <3>2, FreshSession
  <2>2. CASE ~ok
    <3>1. sessions' = Without(sessions, Of(r))
      BY Zenon, <1>3, <2>2
    <3> QED
      BY Zenon, <1>1, <3>1, SessionGone
  <2> QED
    BY Zenon, <2>1, <2>2
<1>8. Serves(r, q) /\ <<r[1], q.id>> = Of(r)
  BY ZenonT(40), <1>1, <1>3, <1>5, <1>6, <1>7, Serving
<1>9. SessionServed(r, q, Of(r))
  <2>1. q.op = "begin"
    BY Zenon, <1>6 DEF SameCall
  <2> QED
    BY <1>7, <2>1 DEF SessionServed
<1> QED
  BY Zenon, <1>2, <1>8, <1>9, ServerKeeps

\* A call of a transaction finds its session, with its writes.
LEMMA SessionThere ==
    ASSUME RpcInv, NEW r \in DOMAIN requests, requests[r].stage = "locked",
           requests[r].op # "begin", requests[r].id # 0
    PROVE  Of(r) \in DOMAIN sessions /\ sessions[Of(r)] \in Session
BY Zenon, AtServer DEF KeepsSession, SessionsOK

\* A read in a transaction or outside of one.
LEMMA ServeReadKeeps ==
    ASSUME RpcInv, NEW r \in DOMAIN requests, requests[r].stage = "locked", requests[r].op = "read",
           ServeRead(r)
    PROVE  RpcInv'
<1>1. /\ requests[r] \in Request /\ SessionsOK(sessions) /\ rpcStore \in [RpcKeys -> Stamps]
      /\ Of(r) \in Clients \X Ids /\ requests[r].stage # "answered" /\ requests[r].op # "begin"
      /\ requests[r].key \in RpcKeys
  <2>1. requests[r].stage # "answered" /\ requests[r].op # "begin"
    OBVIOUS
  <2>2. requests[r].key \in RpcKeys
    <3>1. WellFormed(r) /\ requests[r].op \in {"read", "write"}
      BY Zenon, AtServer
    <3> QED
      BY Zenon, <3>1 DEF WellFormed
  <2> QED
    BY Zenon, <2>1, <2>2, AtServer
<1> DEFINE value == IF requests[r].id = 0 THEN rpcStore[requests[r].key] ELSE Visible(Of(r), requests[r].key)
<1>2. PICK ok \in BOOLEAN :
        /\ Becomes(r, [requests[r] EXCEPT !.stage = IF ok THEN "answered" ELSE "refused", !.value = value])
        /\ sessions' = IF requests[r].id = 0 THEN sessions ELSE Held(Of(r), sessions[Of(r)], ok)
        /\ rpcStore' = rpcStore /\ client' = client
  BY Zenon DEF ServeRead
<1> DEFINE stage == IF ok THEN "answered" ELSE "refused"
           q == [requests[r] EXCEPT !.stage = stage, !.value = value]
<1>3. stage \in Stages /\ stage # "locked"
  BY Zenon, StagesOf
<1>4. value \in Stamps
  <2>1. CASE requests[r].id = 0
    BY Zenon, <1>1, <2>1
  <2>2. CASE requests[r].id # 0
    BY Zenon, <1>1, <2>2, SessionThere, VisibleTyped DEF RpcInv
  <2> QED
    BY Zenon, <2>1, <2>2
<1>5. Becomes(r, q)
  BY Zenon, <1>2
<1>6. requests[r].id # 0 => value = Visible(Of(r), requests[r].key)
  BY Zenon
<1> HIDE DEF stage, value
<1>7. /\ q \in Request /\ SameCall(q, requests[r]) /\ q.id = requests[r].id /\ q.stage = stage
      /\ q.value = value
  BY Zenon, <1>1, <1>3, <1>4 DEF Request, SameCall
<1> HIDE DEF q
<1>8. CASE requests[r].id = 0
  <2>1. sessions' = sessions
    BY Zenon, <1>2, <1>8
  <2>2. Serves(r, q) /\ <<r[1], q.id>> = Of(r)
    BY Zenon, <1>1, <1>2, <1>5, <1>7, <2>1, SessionsSame, Serving
  <2>3. q.op = "read" /\ q.id = 0
    BY ZenonT(40), <1>7, <1>8 DEF SameCall
  <2>4. SessionServed(r, q, Of(r))
    BY <2>3 DEF SessionServed
  <2> QED
    BY Zenon, <1>1, <2>2, <2>4, ServerKeeps
<1>9. CASE requests[r].id # 0
  <2>1. sessions' = Held(Of(r), sessions[Of(r)], ok) /\ Of(r) \in DOMAIN sessions
        /\ sessions[Of(r)] \in Session
    BY Zenon, <1>1, <1>2, <1>9, SessionThere
  <2>2. /\ SessionsOK(sessions') /\ \A z \in Clients \X Ids : z # Of(r) => SessionLeft(z)
        /\ sessions'[Of(r)].writes = sessions[Of(r)].writes
    BY Zenon, <1>1, <2>1, Holding
  <2>3. Serves(r, q) /\ <<r[1], q.id>> = Of(r)
    BY Zenon, <1>1, <1>2, <1>5, <1>7, <2>2, Serving
  <2>4. q.op = "read" /\ q.stage # "locked" /\ q.key = requests[r].key
    BY Zenon, <1>3, <1>7 DEF SameCall
  <2>5. q.key \in DOMAIN sessions[Of(r)].writes => q.value = sessions[Of(r)].writes[q.key]
    BY ZenonT(40), <1>6, <1>7, <1>9, <2>4 DEF Visible
  <2>6. SessionServed(r, q, Of(r))
    BY <2>1, <2>2, <2>4, <2>5 DEF SessionServed
  <2> QED
    BY Zenon, <1>1, <2>3, <2>6, ServerKeeps
<1> QED
  BY Zenon, <1>8, <1>9

\* A write in a transaction goes to its session, one outside to the rpcStore.
LEMMA ServeWriteKeeps ==
    ASSUME RpcInv, NEW r \in DOMAIN requests, requests[r].stage = "locked", requests[r].op = "write",
           ServeWrite(r)
    PROVE  RpcInv'
<1>1. /\ requests[r] \in Request /\ SessionsOK(sessions) /\ rpcStore \in [RpcKeys -> Stamps] /\ r \in Stamps
      /\ Of(r) \in Clients \X Ids /\ requests[r].stage # "answered" /\ requests[r].op # "begin"
      /\ requests[r].key \in RpcKeys
  <2>1. requests[r].stage # "answered" /\ requests[r].op # "begin"
    OBVIOUS
  <2>2. requests[r].key \in RpcKeys
    <3>1. WellFormed(r) /\ requests[r].op \in {"read", "write"}
      BY Zenon, AtServer
    <3> QED
      BY Zenon, <3>1 DEF WellFormed
  <2> QED
    BY Zenon, <2>1, <2>2, AtServer
<1> DEFINE after(ok) == IF ok THEN [sessions[Of(r)] EXCEPT !.writes = With(@, requests[r].key, r)]
                        ELSE sessions[Of(r)]
<1>2. PICK ok \in BOOLEAN :
        /\ Moves(r, IF ok THEN "answered" ELSE "refused")
        /\ sessions' = IF requests[r].id = 0 THEN sessions ELSE Held(Of(r), after(ok), ok)
        /\ rpcStore' = IF ok /\ requests[r].id = 0 THEN [rpcStore EXCEPT ![requests[r].key] = r] ELSE rpcStore
        /\ client' = client
  BY Zenon DEF ServeWrite
<1> DEFINE stage == IF ok THEN "answered" ELSE "refused"
           q == [requests[r] EXCEPT !.stage = stage]
<1>3. stage \in Stages /\ stage # "locked" /\ (stage = "answered" <=> ok)
  BY Zenon, StagesOf
<1>4. Becomes(r, q)
  BY Zenon, <1>2 DEF Moves
<1> HIDE DEF stage
<1>5. q \in Request /\ SameCall(q, requests[r]) /\ q.id = requests[r].id /\ q.stage = stage
  BY ZenonT(40), <1>1, <1>3, Moved
<1> HIDE DEF q
<1>6. q.op = "write" /\ q.key = requests[r].key /\ q.stage # "locked" /\ (q.stage = "answered" <=> ok)
  BY Zenon, <1>3, <1>5 DEF SameCall
<1>7. rpcStore' \in [RpcKeys -> Stamps]
  BY Zenon, <1>1, <1>2
<1>8. CASE requests[r].id = 0
  <2>1. sessions' = sessions
    BY Zenon, <1>2, <1>8
  <2>2. Serves(r, q) /\ <<r[1], q.id>> = Of(r)
    BY ZenonT(40), <1>1, <1>2, <1>4, <1>5, <1>7, <2>1, SessionsSame, Serving
  <2>3. SessionServed(r, q, Of(r))
    BY <1>5, <1>6, <1>8 DEF SessionServed
  <2> QED
    BY Zenon, <1>1, <2>2, <2>3, ServerKeeps
<1>9. CASE requests[r].id # 0
  <2>1. sessions' = Held(Of(r), after(ok), ok) /\ Of(r) \in DOMAIN sessions
        /\ sessions[Of(r)] \in Session
    BY Zenon, <1>1, <1>2, <1>9, SessionThere
  <2>2. /\ after(ok) \in Session
        /\ after(ok).writes = IF ok THEN With(sessions[Of(r)].writes, requests[r].key, r)
                              ELSE sessions[Of(r)].writes
    <3>1. With(sessions[Of(r)].writes, requests[r].key, r) \in WriteSets
      BY Zenon, <1>1, <2>1, SessionFields, WritesAdded
    <3>2. CASE ok
      <4> DEFINE w == With(sessions[Of(r)].writes, requests[r].key, r)
      <4>1. after(ok) = [sessions[Of(r)] EXCEPT !.writes = w]
        BY Zenon, <3>2
      <4>0. w \in WriteSets
        BY Zenon, <3>1
      <4> HIDE DEF w, after
      <4>2. after(ok) \in Session /\ after(ok).writes = w
        BY <2>1, <4>0, <4>1 DEF Session
      <4> QED
        BY Zenon, <3>2, <4>2 DEF w
    <3>3. CASE ~ok
      BY Zenon, <2>1, <3>3
    <3> QED
      BY Zenon, <3>2, <3>3
  <2> HIDE DEF after
  <2>3. /\ SessionsOK(sessions') /\ \A z \in Clients \X Ids : z # Of(r) => SessionLeft(z)
        /\ sessions'[Of(r)].writes = after(ok).writes
    BY Zenon, <1>1, <2>1, <2>2, Holding
  <2>4. Serves(r, q) /\ <<r[1], q.id>> = Of(r)
    BY ZenonT(40), <1>1, <1>2, <1>4, <1>5, <1>7, <2>3, Serving
  <2>5. SessionServed(r, q, Of(r))
    BY ZenonT(60), <1>6, <2>1, <2>2, <2>3 DEF SessionServed
  <2> QED
    BY Zenon, <1>1, <2>4, <2>5, ServerKeeps
<1> QED
  BY Zenon, <1>8, <1>9

\* A commit ends the session, whether the engine accepts it or not.
LEMMA ServeCommitKeeps ==
    ASSUME RpcInv, NEW r \in DOMAIN requests, requests[r].stage = "locked", requests[r].op = "commit",
           ServeCommit(r)
    PROVE  RpcInv'
<1>1. /\ requests[r] \in Request /\ SessionsOK(sessions) /\ rpcStore \in [RpcKeys -> Stamps]
      /\ requests[r].stage # "answered" /\ Of(r) \in DOMAIN sessions
  <2>1. requests[r].stage # "answered" /\ requests[r].op # "begin"
    OBVIOUS
  <2>2. requests[r].id # 0
    BY Zenon, AtServer DEF WellFormed
  <2> QED
    BY ZenonT(60), <2>1, <2>2, AtServer, SessionThere
<1>2. PICK ok \in BOOLEAN :
        /\ Moves(r, IF ok THEN "answered" ELSE "refused")
        /\ rpcStore' = IF ok THEN [k \in RpcKeys |-> Visible(Of(r), k)] ELSE rpcStore
        /\ sessions' = Without(sessions, Of(r))
        /\ client' = client
  BY Zenon DEF ServeCommit
<1> DEFINE stage == IF ok THEN "answered" ELSE "refused"
           q == [requests[r] EXCEPT !.stage = stage]
<1>3. stage \in Stages /\ stage # "locked"
  BY Zenon, StagesOf
<1>4. Becomes(r, q)
  BY Zenon, <1>2 DEF Moves
<1> HIDE DEF stage
<1>5. q \in Request /\ SameCall(q, requests[r]) /\ q.id = requests[r].id /\ q.stage = stage
  BY ZenonT(40), <1>1, <1>3, Moved
<1> HIDE DEF q
<1>6. rpcStore' \in [RpcKeys -> Stamps]
  <2>1. \A k \in RpcKeys : Visible(Of(r), k) \in Stamps
    BY Zenon, <1>1, VisibleTyped DEF RpcInv
  <2> QED
    BY Zenon, <1>1, <1>2, <2>1
<1>7. SessionsOK(sessions') /\ Of(r) \notin DOMAIN sessions' /\ \A z : z # Of(r) => SessionLeft(z)
  BY Zenon, <1>1, <1>2, SessionGone
<1>8. Serves(r, q) /\ <<r[1], q.id>> = Of(r)
  BY ZenonT(40), <1>1, <1>2, <1>4, <1>5, <1>6, <1>7, Serving
<1>9. SessionServed(r, q, Of(r))
  <2>1. q.op = "commit"
    BY Zenon, <1>5 DEF SameCall
  <2>2. q.op # "begin" /\ q.op # "read" /\ q.op # "write"
    BY <2>1
  <2> QED
    BY Zenon, <1>3, <1>5, <1>7, <2>2 DEF SessionServed
<1> QED
  BY Zenon, <1>1, <1>8, <1>9, ServerKeeps

LEMMA HandleKeeps ==
    ASSUME RpcInv, NEW r \in DOMAIN requests, ServeRequest(r)
    PROVE  RpcInv'
<1>1. requests[r].stage = "locked" /\ requests[r].op \in Ops
  BY Zenon, AtServer, RequestFields DEF ServeRequest
<1>2. CASE requests[r].op = "begin"
  <2>1. ServeBegin(r)
    BY <1>2 DEF ServeRequest
  <2> QED
    BY Zenon, <1>1, <1>2, <2>1, ServeBeginKeeps
<1>3. CASE requests[r].op = "read"
  <2>1. ServeRead(r)
    BY <1>3 DEF ServeRequest
  <2> QED
    BY Zenon, <1>1, <1>3, <2>1, ServeReadKeeps
<1>4. CASE requests[r].op = "write"
  <2>1. ServeWrite(r)
    BY <1>4 DEF ServeRequest
  <2> QED
    BY Zenon, <1>1, <1>4, <2>1, ServeWriteKeeps
<1>5. CASE requests[r].op = "commit"
  <2>1. ServeCommit(r)
    BY <1>5 DEF ServeRequest
  <2> QED
    BY Zenon, <1>1, <1>5, <2>1, ServeCommitKeeps
<1> QED
  BY <1>1, <1>2, <1>3, <1>4, <1>5 DEF Ops

-----------------------------------------------------------------------------
(* The client.                                                              *)

\* What each call makes sure of before it is sent.
MaySend(c, op, tid, key) ==
    /\ op \in Ops /\ tid \in Ids /\ key \in RpcKeys \union {0}
    /\ op \in {"read", "write"} => key \in RpcKeys
    /\ op = "commit" => tid # 0 /\ client[c].open
    /\ client[c].open => op # "begin" /\ tid = client[c].handle
    /\ ~client[c].open => op # "commit" /\ (op # "begin" => tid = 0)
    /\ tid # 0 => \A r \in DOMAIN requests : r[1] = c => requests[r].id # tid

LEMMA NumberFresh ==
    ASSUME RpcInv, NEW c \in Clients
    PROVE  <<c, client[c].calls + 1>> \notin DOMAIN requests
<1> SUFFICES ASSUME NEW u \in DOMAIN requests, u = <<c, client[c].calls + 1>> PROVE FALSE
  BY Zenon
<1>1. u[1] = c /\ u[2] = client[c].calls + 1
  OBVIOUS
<1>2. client[c].calls \in Nat
  BY Zenon, Typed, ClientFields DEF RpcInv
<1>3. u[2] <= client[u[1]].calls
  BY Zenon, AtServer DEF WellFormed
<1> QED
  BY <1>1, <1>2, <1>3

LEMMA SendKeeps ==
    ASSUME RpcInv, NEW c \in Clients, NEW op, NEW tid, NEW key, MayCall(c), MaySend(c, op, tid, key),
           Sends(c, op, tid, key)
    PROVE  RpcInv'
<1> DEFINE n == client[c].calls + 1
           x == <<c, n>>
           q == [op |-> op, id |-> tid, key |-> key, stage |-> "sent", value |-> <<>>,
                 expect |-> IF op = "commit" THEN client[c].writes ELSE NoWrites,
                 sure |-> op = "commit" => client[c].sure]
           v == [client[c] EXCEPT !.calls = n, !.waiting = TRUE]
<1>1. /\ RequestsOK(requests) /\ SessionsOK(sessions) /\ rpcStore \in [RpcKeys -> Stamps]
      /\ client \in [Clients -> Client] /\ client[c] \in Client
  BY Zenon, Typed DEF RpcInv
<1>2. /\ requests' = With(requests, x, q) /\ client' = [client EXCEPT ![c] = v]
      /\ rpcStore' = rpcStore /\ sessions' = sessions
  <2>1. /\ requests' = With(requests, x, q)
        /\ client' = [client EXCEPT ![c].calls = n, ![c].waiting = TRUE]
        /\ rpcStore' = rpcStore /\ sessions' = sessions
    BY Zenon DEF Sends
  <2>2. [client EXCEPT ![c].calls = n, ![c].waiting = TRUE] = [client EXCEPT ![c] = v]
    BY Zenon, <1>1
  <2> QED
    BY Zenon, <2>1, <2>2
<1>3. /\ n \in 1..MaxCalls /\ n \in 0..MaxCalls /\ n \in Nat /\ client[c].calls \in Nat
      /\ client[c].calls <= n /\ n <= n /\ ~client[c].waiting /\ x \in Numbers
  <2>1. client[c].calls \in Nat /\ client[c].calls < MaxCalls /\ ~client[c].waiting
    BY Zenon, <1>1, ClientFields DEF MayCall
  <2>2. n \in 1..MaxCalls /\ n \in 0..MaxCalls /\ n \in Nat /\ client[c].calls <= n /\ n <= n
    BY <2>1, RpcAssumption
  <2> QED
    BY Zenon, <2>1, <2>2 DEF Numbers
<1>4. x \notin DOMAIN requests
  BY Zenon, NumberFresh
<1>5. /\ q.op = op /\ q.id = tid /\ q.key = key /\ q.stage = "sent" /\ q.stage # "locked"
      /\ q.stage # "answered"
      /\ op = "commit" => q.expect = client[c].writes /\ q.sure = client[c].sure
  <2>1. q.sure = (op = "commit" => client[c].sure) /\ client[c].sure \in BOOLEAN
    BY Zenon, <1>1, ClientFields
  <2>2. op = "commit" => q.sure = client[c].sure
    BY Zenon, <2>1
  <2>3. "sent" # "locked" /\ "sent" # "answered"
    OBVIOUS
  <2> QED
    BY Zenon, <2>2, <2>3
<1>6. q \in Request
  <2>1. /\ op \in Ops /\ tid \in Ids /\ key \in RpcKeys \union {0} /\ "sent" \in Stages /\ <<>> \in Stamps
    BY DEF MaySend, Stages, Stamps
  <2>2. (IF op = "commit" THEN client[c].writes ELSE NoWrites) \in WriteSets
    BY Zenon, <1>1, ClientFields, FreshSession
  <2>3. (op = "commit" => client[c].sure) \in BOOLEAN
    BY Zenon
  <2> QED
    BY Zenon, <2>1, <2>2, <2>3 DEF Request
<1>7. /\ v \in Client /\ v.calls = n /\ v.waiting = TRUE /\ v.handle = client[c].handle
      /\ v.open = client[c].open /\ v.writes = client[c].writes /\ v.sure = client[c].sure
  <2> HIDE DEF n
  <2> QED
    BY Zenon, <1>1, <1>3 DEF Client
<1>8. x[1] = c /\ x[2] = n
  OBVIOUS
<1> HIDE DEF q, v
<1>9. /\ DOMAIN requests' = DOMAIN requests \union {x} /\ requests'[x] = q
      /\ \A u \in DOMAIN requests : u # x => requests'[u] = requests[u]
  <2> HIDE DEF x
  <2> QED
    BY Zenon, <1>2 DEF With
<1>10. \A u \in DOMAIN requests : u \in DOMAIN requests' /\ requests'[u] = requests[u] /\ u # x
  BY Zenon, <1>4, <1>9
<1>11. /\ client'[c] = v /\ client' \in [Clients -> Client]
       /\ \A d \in Clients : d # c => client'[d] = client[d]
  BY Zenon, <1>1, <1>2, <1>7
<1>12. LastCall(c)' = x
  BY Zenon, <1>7, <1>11 DEF LastCall
<1> HIDE DEF x, n
<1>13. RpcTypeOK'
  <2>1. RequestsOK(requests')
    BY Zenon, <1>1, <1>3, <1>6, <1>9, <1>10 DEF RequestsOK
  <2> QED
    BY Zenon, <1>1, <1>2, <1>11, <2>1, StaysTyped
<1>14. OneAtATime'
  <2> SUFFICES ASSUME NEW u \in DOMAIN requests', NEW w \in DOMAIN requests', u[1] = w[1],
                      requests'[u].id = requests'[w].id, requests'[u].id # 0, u # w
               PROVE  FALSE
    BY Zenon DEF OneAtATime
  <2>1. CASE u = x
    <3>1. w \in DOMAIN requests /\ requests[w].id = tid /\ w[1] = c /\ tid # 0
      BY Zenon, <1>5, <1>8, <1>9, <1>10, <2>1
    <3> QED
      BY Zenon, <3>1 DEF MaySend
  <2>2. CASE w = x
    <3>1. u \in DOMAIN requests /\ requests[u].id = tid /\ u[1] = c /\ tid # 0
      BY Zenon, <1>5, <1>8, <1>9, <1>10, <2>2
    <3> QED
      BY Zenon, <3>1 DEF MaySend
  <2>3. CASE u # x /\ w # x
    <3>1. /\ u \in DOMAIN requests /\ requests'[u] = requests[u]
          /\ w \in DOMAIN requests /\ requests'[w] = requests[w]
      BY Zenon, <1>9, <1>10, <2>3
    <3> QED
      BY Zenon, <3>1 DEF RpcInv, OneAtATime
  <2> QED
    BY Zenon, <2>1, <2>2, <2>3
<1>15. ASSUME NEW u \in DOMAIN requests' PROVE WellFormed(u)' /\ KeepsSession(u)' /\ SessionExpected(u)'
  <2>1. CASE u # x
    <3>1. u \in DOMAIN requests /\ requests'[u] = requests[u] /\ SessionLeft(Of(u))
      BY Zenon, <1>1, <1>2, <1>9, <1>10, <2>1, SessionsSame
    <3>2. u[1] \in Clients /\ client[u[1]].calls \in Nat
      BY ZenonT(60), <1>1, <3>1, AtServer, ClientFields
    <3>3. client[u[1]].calls <= client[u[1]].calls
      BY <3>2
    <3>4. client'[u[1]].calls \in Nat /\ client[u[1]].calls <= client'[u[1]].calls
      BY Zenon, <1>3, <1>7, <1>11, <3>2, <3>3
    <3> QED
      BY Zenon, <3>1, <3>4, RequestLeft
  <2>2. CASE u = x
    <3>1. requests'[u] = q /\ u[1] = c /\ u[2] = n /\ client'[u[1]] = v
      BY Zenon, <1>8, <1>9, <1>11, <2>2
    <3>2. WellFormed(u)'
      BY Zenon, <1>3, <1>5, <1>7, <3>1 DEF WellFormed, MaySend
    <3>3. KeepsSession(u)'
      BY Zenon, <1>5, <3>1 DEF KeepsSession
    <3>4. SessionExpected(u)'
      <4> SUFFICES ASSUME op = "commit", q.sure, <<c, tid>> \in DOMAIN sessions
                   PROVE  sessions[<<c, tid>>].writes = q.expect
        BY Zenon, <1>2, <1>5, <3>1 DEF SessionExpected, Of
      <4>1. InTransaction(c) /\ client[c].sure /\ tid = client[c].handle
        BY Zenon, <1>5 DEF InTransaction, MaySend
      <4>2. SessionKnown(c) /\ Knows(c) = client[c].writes
        BY Zenon, <1>3 DEF RpcInv, Knows
      <4> QED
        BY Zenon, <1>5, <4>1, <4>2 DEF SessionKnown
    <3> QED
      BY Zenon, <3>2, <3>3, <3>4
  <2> QED
    BY Zenon, <2>1, <2>2
<1>16. ASSUME NEW d \in Clients PROVE WaitsForCall(d)' /\ NothingElse(d)' /\ SessionKnown(d)' /\ AnswerRight(d)'
  <2>1. CASE d # c
    <3>1. client'[d] = client[d] /\ WaitsForCall(d) /\ SessionLeft(<<d, client[d].handle>>)
      BY Zenon, <1>1, <1>2, <1>11, <2>1, SessionsSame DEF RpcInv
    <3>2. client[d].waiting => LastCall(d) \in DOMAIN requests'
                               /\ requests'[LastCall(d)] = requests[LastCall(d)]
      BY Zenon, <1>10, <3>1 DEF WaitsForCall
    <3>3. \A u \in DOMAIN requests' : u[1] = d => u \in DOMAIN requests /\ requests'[u] = requests[u]
      BY Zenon, <1>8, <1>9, <1>10, <2>1
    <3> QED
      BY Zenon, <3>1, <3>2, <3>3, ClientLeft
  <2>2. CASE d = c
    <3>1. /\ NothingElse(c) /\ SessionKnown(c) /\ Knows(c) = client[c].writes
          /\ InTransaction(c)' = InTransaction(c)
      BY Zenon, <1>3, <1>7, <1>11 DEF RpcInv, Knows, InTransaction
    <3>2. WaitsForCall(c)'
      BY Zenon, <1>5, <1>7, <1>9, <1>11, <1>12 DEF WaitsForCall, MaySend
    <3>3. NothingElse(c)'
      <4> SUFFICES ASSUME InTransaction(c), NEW u \in DOMAIN requests', u[1] = c,
                          requests'[u].id = client[c].handle
                   PROVE  Awaited(u)'
        BY Zenon, <1>7, <1>11, <3>1 DEF NothingElse
      <4>1. CASE u = x
        BY Zenon, <1>7, <1>8, <1>11, <4>1 DEF Awaited
      <4>2. CASE u # x
        <5>1. u \in DOMAIN requests /\ requests'[u] = requests[u]
          BY Zenon, <1>9, <1>10, <4>2
        <5> QED
          BY Zenon, <1>3, <3>1, <5>1 DEF NothingElse, Awaited
      <4> QED
        BY Zenon, <4>1, <4>2
    <3>4. Knows(c)' = client[c].writes
      BY Zenon, <1>5, <1>7, <1>9, <1>11, <1>12 DEF Knows
    <3>5. SessionKnown(c)'
      BY Zenon, <1>2, <1>7, <1>11, <3>1, <3>4 DEF SessionKnown
    <3>6. AnswerRight(c)'
      BY Zenon, <1>5, <1>9, <1>12 DEF AnswerRight
    <3> QED
      BY Zenon, <2>2, <3>2, <3>3, <3>5, <3>6
  <2> QED
    BY Zenon, <2>1, <2>2
<1> QED
  BY Zenon, <1>13, <1>14, <1>15, <1>16 DEF RpcInv

\* A call that is over: the client is v, and at most its own last request is gone.
CallOver(c, v) ==
    /\ client' = [client EXCEPT ![c] = v] /\ v \in Client /\ client[c].calls <= v.calls /\ ~v.waiting
    /\ rpcStore' = rpcStore /\ sessions' = sessions
    /\ requests' = requests \/ requests' = Without(requests, LastCall(c))

\* The transaction that v is in has no other request, and the session v knows.
StillIn(c, v) == v.open /\ v.handle # 0 =>
    /\ \A u \in DOMAIN requests' : u[1] = c => requests[u].id # v.handle
    /\ v.sure /\ <<c, v.handle>> \in DOMAIN sessions => sessions[<<c, v.handle>>].writes = v.writes

LEMMA RequestsAfter ==
    ASSUME NEW c, NEW v, CallOver(c, v)
    PROVE  /\ \A u \in DOMAIN requests' : u \in DOMAIN requests /\ requests'[u] = requests[u]
           /\ \A u \in DOMAIN requests : u # LastCall(c) => u \in DOMAIN requests'
<1>1. CASE requests' = requests
  BY Zenon, <1>1
<1>2. CASE requests' = Without(requests, LastCall(c))
  <2>1. DOMAIN requests' = DOMAIN requests \ {LastCall(c)}
    BY Zenon, <1>2 DEF Without, Restrict
  <2>2. \A u \in DOMAIN requests : u # LastCall(c) => requests'[u] = requests[u]
    BY Zenon, <1>2 DEF Without, Restrict
  <2> QED
    BY Zenon, <2>1, <2>2
<1> QED
  BY Zenon, <1>1, <1>2 DEF CallOver

LEMMA OverKeeps ==
    ASSUME RpcInv, NEW c \in Clients, NEW v, CallOver(c, v), StillIn(c, v)
    PROVE  RpcInv'
<1>1. /\ RequestsOK(requests) /\ SessionsOK(sessions) /\ rpcStore \in [RpcKeys -> Stamps]
      /\ client \in [Clients -> Client]
  BY Zenon, Typed DEF RpcInv
<1>2. /\ v \in Client /\ client[c].calls <= v.calls /\ ~v.waiting /\ client' = [client EXCEPT ![c] = v]
      /\ rpcStore' = rpcStore /\ sessions' = sessions
  BY Zenon DEF CallOver
<1>3. /\ client'[c] = v /\ client' \in [Clients -> Client]
      /\ \A d \in Clients : d # c => client'[d] = client[d]
  BY Zenon, <1>1, <1>2
<1>4. /\ \A u \in DOMAIN requests' : u \in DOMAIN requests /\ requests'[u] = requests[u]
      /\ \A u \in DOMAIN requests : u # LastCall(c) => u \in DOMAIN requests'
  BY Zenon, RequestsAfter
<1>5. RpcTypeOK'
  <2>1. RequestsOK(requests')
    BY Zenon, <1>1, <1>4 DEF RequestsOK
  <2> QED
    BY Zenon, <1>1, <1>2, <1>3, <2>1, StaysTyped
<1>6. OneAtATime'
  BY Zenon, <1>4 DEF RpcInv, OneAtATime
<1>7. ASSUME NEW u \in DOMAIN requests' PROVE WellFormed(u)' /\ KeepsSession(u)' /\ SessionExpected(u)'
  <2>1. u \in DOMAIN requests /\ requests'[u] = requests[u] /\ SessionLeft(Of(u))
    BY Zenon, <1>1, <1>2, <1>4, SessionsSame
  <2>2. u[1] \in Clients /\ client[u[1]].calls \in Nat /\ v.calls \in Nat
    BY ZenonT(60), <1>1, <1>2, <2>1, AtServer, ClientFields
  <2>3. client[u[1]].calls <= client[u[1]].calls
    BY <2>2
  <2>4. client'[u[1]].calls \in Nat /\ client[u[1]].calls <= client'[u[1]].calls
    BY Zenon, <1>2, <1>3, <2>2, <2>3
  <2> QED
    BY Zenon, <2>1, <2>4, RequestLeft
<1>8. ASSUME NEW d \in Clients PROVE WaitsForCall(d)' /\ NothingElse(d)' /\ SessionKnown(d)' /\ AnswerRight(d)'
  <2>1. CASE d # c
    <3>1. client'[d] = client[d] /\ WaitsForCall(d) /\ SessionLeft(<<d, client[d].handle>>)
      BY Zenon, <1>1, <1>2, <1>3, <2>1, SessionsSame DEF RpcInv
    <3>2. LastCall(d) # LastCall(c)
      BY <2>1 DEF LastCall
    <3>3. client[d].waiting => LastCall(d) \in DOMAIN requests'
                               /\ requests'[LastCall(d)] = requests[LastCall(d)]
      BY Zenon, <1>4, <3>1, <3>2 DEF WaitsForCall
    <3> QED
      BY Zenon, <1>4, <3>1, <3>3, ClientLeft
  <2>2. CASE d = c
    <3>1. ~client'[c].waiting
      BY Zenon, <1>2, <1>3
    <3>2. WaitsForCall(c)' /\ AnswerRight(c)'
      BY Zenon, <3>1 DEF WaitsForCall, AnswerRight
    <3>3. NothingElse(c)'
      BY Zenon, <1>3, <1>4 DEF NothingElse, InTransaction, StillIn
    <3>4. Knows(c)' = v.writes
      BY Zenon, <1>3, <3>1 DEF Knows
    <3>5. SessionKnown(c)'
      BY Zenon, <1>2, <1>3, <3>4 DEF SessionKnown, InTransaction, StillIn
    <3> QED
      BY Zenon, <2>2, <3>2, <3>3, <3>5
  <2> QED
    BY Zenon, <2>1, <2>2
<1> QED
  BY Zenon, <1>5, <1>6, <1>7, <1>8 DEF RpcInv

\* What the client may become.
LEMMA GivenUpFacts ==
    ASSUME NEW v \in Client
    PROVE  /\ GivenUp(v) \in Client /\ GivenUp(v).calls = v.calls /\ ~GivenUp(v).waiting /\ ~GivenUp(v).open
<1>1. 0 \in Ids /\ NoWrites \in WriteSets
  <2>1. 0 \in Ids
    BY RpcAssumption DEF Ids
  <2> QED
    BY Zenon, <2>1, FreshSession
<1> QED
  BY Zenon, <1>1 DEF GivenUp, Client

LEMMA BegunFacts ==
    ASSUME NEW v \in Client, NEW tid \in Ids
    PROVE  /\ Begun(v, tid) \in Client /\ Begun(v, tid).calls = v.calls /\ ~Begun(v, tid).waiting
           /\ Begun(v, tid).handle = tid /\ Begun(v, tid).writes = NoWrites
<1>1. NoWrites \in WriteSets
  BY Zenon, FreshSession
<1> QED
  BY Zenon, <1>1 DEF Begun, Client

LEMMA WroteFacts ==
    ASSUME NEW v \in Client, NEW r, r.key \in RpcKeys, NEW stamp \in Stamps, NEW sure \in BOOLEAN
    PROVE  /\ Wrote(v, r, stamp, sure) \in Client /\ Wrote(v, r, stamp, sure).calls = v.calls
           /\ ~Wrote(v, r, stamp, sure).waiting /\ Wrote(v, r, stamp, sure).handle = v.handle
           /\ Wrote(v, r, stamp, sure).open = v.open
           /\ v.open => /\ Wrote(v, r, stamp, sure).writes = With(v.writes, r.key, stamp)
                        /\ Wrote(v, r, stamp, sure).sure => v.sure /\ sure
<1> DEFINE w == IF v.open THEN With(v.writes, r.key, stamp) ELSE v.writes
           s == v.sure /\ (sure \/ ~v.open)
<1>1. w \in WriteSets /\ s \in BOOLEAN
  BY Zenon, ClientFields, WritesAdded
<1>2. Wrote(v, r, stamp, sure) = [v EXCEPT !.waiting = FALSE, !.writes = w, !.sure = s]
  BY Zenon DEF Wrote
<1>3. v.open => w = With(v.writes, r.key, stamp) /\ (s => v.sure /\ sure)
  BY Zenon
<1> HIDE DEF w, s
<1> DEFINE z == [v EXCEPT !.waiting = FALSE, !.writes = w, !.sure = s]
<1>4. /\ z \in Client /\ z.calls = v.calls /\ ~z.waiting /\ z.handle = v.handle /\ z.open = v.open
      /\ z.writes = w /\ z.sure = s
  BY Zenon, <1>1 DEF Client
<1> HIDE DEF z
<1> QED
  BY Zenon, <1>2, <1>3, <1>4 DEF z

\* The request that a client waits for.
LEMMA LastOne ==
    ASSUME RpcInv, NEW c \in Clients, client[c].waiting
    PROVE  /\ LastCall(c) \in DOMAIN requests /\ LastCall(c) \in Stamps /\ LastCall(c)[1] = c
           /\ requests[LastCall(c)] \in Request /\ client[c] \in Client /\ client[c].calls <= client[c].calls
           /\ WellFormed(LastCall(c)) /\ SessionExpected(LastCall(c))
           /\ InTransaction(c) => \A u \in DOMAIN requests :
                 u[1] = c /\ requests[u].id = client[c].handle => u = LastCall(c)
<1>1. LastCall(c) \in DOMAIN requests /\ client[c] \in Client /\ NothingElse(c)
  BY Zenon, Typed DEF RpcInv, WaitsForCall
<1>2. client[c].calls <= client[c].calls
  <2>1. client[c].calls \in Nat
    BY Zenon, <1>1, ClientFields
  <2> QED
    BY <2>1
<1>3. LastCall(c)[1] = c
  BY DEF LastCall
<1>4. ASSUME InTransaction(c), NEW u \in DOMAIN requests, u[1] = c, requests[u].id = client[c].handle
      PROVE  u = LastCall(c)
  <2>1. u[2] = client[c].calls
    BY Zenon, <1>1, <1>4 DEF NothingElse, Awaited
  <2>2. u \in Numbers
    BY Zenon, Typed DEF RpcInv, RequestsOK
  <2>3. u = <<u[1], u[2]>>
    BY Zenon, <2>2, Number
  <2> QED
    BY Zenon, <1>4, <2>1, <2>3 DEF LastCall
<1> QED
  BY Zenon, <1>1, <1>2, <1>3, <1>4, AtServer

LEMMA LastGone ==
    ASSUME NEW c, requests' = Without(requests, LastCall(c))
    PROVE  \A u \in DOMAIN requests' : u \in DOMAIN requests /\ u # LastCall(c)
BY Zenon DEF Without, Restrict

\* The write of a transaction is over, and its client knows whether it was done.
LEMMA WroteKeeps ==
    ASSUME RpcInv, NEW c \in Clients, client[c].waiting, NEW sure \in BOOLEAN,
           requests[LastCall(c)].op = "write", sure => requests[LastCall(c)].stage = "answered",
           client' = [client EXCEPT ![c] = Wrote(client[c], requests[LastCall(c)], LastCall(c), sure)],
           requests' = Without(requests, LastCall(c)), rpcStore' = rpcStore, sessions' = sessions
    PROVE  RpcInv'
<1> DEFINE n == LastCall(c)
           v == Wrote(client[c], requests[n], n, sure)
<1>1. /\ n \in DOMAIN requests /\ n \in Stamps /\ client[c] \in Client /\ client[c].calls <= client[c].calls
      /\ WellFormed(n)
      /\ InTransaction(c) => \A u \in DOMAIN requests :
            u[1] = c /\ requests[u].id = client[c].handle => u = n
  BY Zenon, LastOne
<1>2. requests[n].key \in RpcKeys
  <2>1. requests[n].op \in {"read", "write"}
    BY Zenon
  <2> QED
    BY Zenon, <1>1, <2>1 DEF WellFormed
<1>3. /\ v \in Client /\ v.calls = client[c].calls /\ ~v.waiting /\ v.handle = client[c].handle
      /\ v.open = client[c].open
      /\ client[c].open => /\ v.writes = With(client[c].writes, requests[n].key, n)
                           /\ v.sure => client[c].sure /\ sure
  <2> HIDE DEF n
  <2>1. client[c] \in Client /\ n \in Stamps
    BY ZenonT(60), <1>1
  <2>2. /\ v \in Client /\ v.calls = client[c].calls /\ ~v.waiting
    BY SMTT(60), <1>2, <2>1, WroteFacts
  <2>3. v.handle = client[c].handle /\ v.open = client[c].open
    BY SMTT(60), <1>2, <2>1, WroteFacts
  <2>4. client[c].open => /\ v.writes = With(client[c].writes, requests[n].key, n)
                          /\ v.sure => client[c].sure /\ sure
    BY <1>2, <2>1, WroteFacts
  <2> QED
    BY Zenon, <2>2, <2>3, <2>4
<1>4. client' = [client EXCEPT ![c] = v] /\ requests' = Without(requests, n)
  BY Zenon
<1>5. \A u \in DOMAIN requests' : u \in DOMAIN requests /\ u # n
  BY Zenon, LastGone
<1> HIDE DEF v
<1>6. CallOver(c, v)
  BY Zenon, <1>1, <1>3, <1>4 DEF CallOver
<1>7. StillIn(c, v)
  <2> SUFFICES ASSUME v.open, v.handle # 0
               PROVE  /\ \A u \in DOMAIN requests' : u[1] = c => requests[u].id # v.handle
                      /\ v.sure /\ <<c, v.handle>> \in DOMAIN sessions =>
                            sessions[<<c, v.handle>>].writes = v.writes
    BY Zenon DEF StillIn
  <2>1. InTransaction(c)
    BY Zenon, <1>3 DEF InTransaction
  <2>2. \A u \in DOMAIN requests' : u[1] = c => requests[u].id # v.handle
    BY Zenon, <1>1, <1>3, <1>5, <2>1
  <2>3. ASSUME v.sure, <<c, v.handle>> \in DOMAIN sessions
        PROVE  sessions[<<c, v.handle>>].writes = v.writes
    <3>1. client[c].sure /\ requests[n].stage = "answered" /\ client[c].open
      BY Zenon, <1>3, <2>3
    <3>2. SessionKnown(c)
      BY Zenon DEF RpcInv
    <3>3. Knows(c) = With(client[c].writes, requests[n].key, n)
      BY Zenon, <3>1 DEF Knows
    <3> QED
      BY Zenon, <1>3, <2>1, <2>3, <3>1, <3>2, <3>3 DEF SessionKnown
  <2> QED
    BY Zenon, <2>2, <2>3
<1> QED
  BY Zenon, <1>6, <1>7, OverKeeps

\* A client that left its transaction.
LEMMA LeftKeeps ==
    ASSUME RpcInv, NEW c \in Clients, NEW v, CallOver(c, v), ~v.open
    PROVE  RpcInv'
BY ZenonT(60), OverKeeps DEF StillIn

\* The client is told how its call ended.
LEMMA ReturnKeeps ==
    ASSUME RpcInv, NEW c \in Clients, Return(c)
    PROVE  RpcInv'
<1> DEFINE n == LastCall(c)
           q == requests[n]
           v == Returned(client[c], q, n)
<1>1. /\ client[c].waiting /\ (Done(n) \/ q.op = "commit")
      /\ client' = [client EXCEPT ![c] = v]
      /\ requests' = IF Done(n) THEN Without(requests, n) ELSE requests
      /\ rpcStore' = rpcStore /\ sessions' = sessions
  BY Zenon DEF Return, LastCall
<1>2. client[c].waiting
  BY Zenon DEF Return
<1>3. /\ n \in DOMAIN requests /\ n \in Stamps /\ n[1] = c /\ q \in Request /\ client[c] \in Client
      /\ client[c].calls <= client[c].calls /\ SessionExpected(n)
      /\ InTransaction(c) => \A u \in DOMAIN requests :
            u[1] = c /\ requests[u].id = client[c].handle => u = n
  BY Zenon, <1>2, LastOne
<1>4. /\ WaitsForCall(c) /\ SessionKnown(c) /\ OneAtATime
      /\ requests' = requests \/ requests' = Without(requests, n)
  BY Zenon, <1>1 DEF RpcInv
<1>5. q.op \in Ops /\ q.id \in Ids
  BY Zenon, <1>3, RequestFields
<1> HIDE DEF n
<1>6. CASE q.op = "begin" /\ q.stage = "answered"
  <2>1. v = Begun(client[c], q.id) /\ Done(n)
    BY <1>6 DEF Returned, Done
  <2> HIDE DEF v
  <2>2. /\ v \in Client /\ v.calls = client[c].calls /\ ~v.waiting /\ v.handle = q.id /\ v.writes = NoWrites
    <3>1. client[c] \in Client /\ q.id \in Ids /\ v = Begun(client[c], q.id)
      BY Zenon, <1>3, <1>5, <2>1
    <3> HIDE DEF q
    <3>2. v \in Client /\ v.calls = client[c].calls /\ ~v.waiting
      BY Zenon, <3>1, BegunFacts
    <3>3. v.handle = q.id /\ v.writes = NoWrites
      BY Zenon, <3>1, BegunFacts
    <3> QED
      BY Zenon, <3>2, <3>3
  <2>3. CallOver(c, v)
    BY Zenon, <1>1, <1>3, <1>4, <2>2 DEF CallOver, n
  <2>4. \A u \in DOMAIN requests' : u \in DOMAIN requests /\ u # n
    BY Zenon, <1>1, <2>1, LastGone DEF n
  <2>5. \A u \in DOMAIN requests' : v.handle # 0 /\ u[1] = c => requests[u].id # v.handle
    <3> SUFFICES ASSUME NEW u \in DOMAIN requests', v.handle # 0, u[1] = c, requests[u].id = v.handle
                 PROVE  FALSE
      BY Zenon
    <3>1. /\ u \in DOMAIN requests /\ n \in DOMAIN requests /\ u[1] = n[1] /\ u # n
          /\ requests[u].id = requests[n].id /\ requests[u].id # 0
      BY Zenon, <1>3, <2>2, <2>4
    <3> QED
      BY Zenon, <1>4, <3>1 DEF OneAtATime
  <2>6. v.handle # 0 /\ <<c, v.handle>> \in DOMAIN sessions => sessions[<<c, v.handle>>].writes = v.writes
    BY Zenon, <1>3, <1>6, <2>2 DEF SessionExpected, Of
  <2>7. StillIn(c, v)
    BY Zenon, <2>5, <2>6 DEF StillIn
  <2> QED
    BY Zenon, <2>3, <2>7, OverKeeps
<1>7. CASE q.op = "read" /\ q.stage = "answered"
  <2>1. v = [client[c] EXCEPT !.waiting = FALSE] /\ Done(n) /\ q.op # "write"
    BY <1>7 DEF Returned, Done
  <2>2. /\ v \in Client /\ v.calls = client[c].calls /\ ~v.waiting /\ v.handle = client[c].handle
        /\ v.writes = client[c].writes /\ v.open = client[c].open /\ v.sure = client[c].sure
    <3> HIDE DEF v, q
    <3> QED
      BY Zenon, <1>3, <2>1 DEF Client
  <2> HIDE DEF v
  <2>3. CallOver(c, v)
    BY Zenon, <1>1, <1>3, <1>4, <2>2 DEF CallOver, n
  <2>4. \A u \in DOMAIN requests' : u \in DOMAIN requests /\ u # n
    BY Zenon, <1>1, <2>1, LastGone DEF n
  <2>5. Knows(c) = client[c].writes
    BY Zenon, <2>1 DEF Knows, n
  <2>6. StillIn(c, v)
    <3>1. v.open /\ v.handle # 0 => InTransaction(c)
      BY Zenon, <2>2 DEF InTransaction
    <3>2. v.open /\ v.handle # 0 => \A u \in DOMAIN requests' : u[1] = c => requests[u].id # v.handle
      BY Zenon, <1>3, <2>2, <2>4, <3>1
    <3>3. v.open /\ v.handle # 0 /\ v.sure /\ <<c, v.handle>> \in DOMAIN sessions =>
             sessions[<<c, v.handle>>].writes = v.writes
      BY Zenon, <1>4, <2>2, <2>5, <3>1 DEF SessionKnown
    <3> QED
      BY Zenon, <3>2, <3>3 DEF StillIn
  <2> QED
    BY Zenon, <2>3, <2>6, OverKeeps
<1>8. CASE q.op = "write"
  <2> DEFINE sure == q.stage = "answered"
  <2>1. v = Wrote(client[c], q, n, sure) /\ Done(n) /\ sure \in BOOLEAN
    <3>1. Done(n)
      BY <1>1, <1>8
    <3>2. v = Wrote(client[c], q, n, sure)
      BY <1>8 DEF Returned
    <3> QED
      BY ZenonT(40), <3>1, <3>2
  <2>2. requests' = Without(requests, n) /\ client' = [client EXCEPT ![c] = Wrote(client[c], q, n, sure)]
    BY Zenon, <1>1, <2>1
  <2>3. sure => q.stage = "answered"
    BY Zenon
  <2> HIDE DEF sure
  <2> QED
    BY Zenon, <1>1, <1>2, <1>8, <2>1, <2>2, <2>3, WroteKeeps DEF n
<1>9. CASE q.op = "commit"
  <2>1. v = [client[c] EXCEPT !.waiting = FALSE, !.open = FALSE, !.writes = NoWrites]
    BY <1>9 DEF Returned
  <2>2. NoWrites \in WriteSets
    BY Zenon, FreshSession
  <2>3. v \in Client /\ v.calls = client[c].calls /\ ~v.waiting /\ ~v.open
    <3> HIDE DEF v, q
    <3> QED
      BY Zenon, <1>3, <2>1, <2>2 DEF Client
  <2> HIDE DEF v
  <2>4. CallOver(c, v)
    BY ZenonT(60), <1>1, <1>3, <1>4, <2>3 DEF CallOver, n
  <2> QED
    BY Zenon, <2>3, <2>4, LeftKeeps
<1>10. CASE q.op \in {"begin", "read"} /\ q.stage # "answered"
  <2>1. v = GivenUp(client[c])
    BY <1>10 DEF Returned
  <2>2. v \in Client /\ v.calls = client[c].calls /\ ~v.waiting /\ ~v.open
    BY Zenon, <1>3, <2>1, GivenUpFacts
  <2> HIDE DEF v
  <2>3. CallOver(c, v)
    BY Zenon, <1>1, <1>3, <1>4, <2>2 DEF CallOver, n
  <2> QED
    BY Zenon, <2>2, <2>3, LeftKeeps
<1> QED
  BY SMTT(60), <1>5, <1>6, <1>7, <1>8, <1>9, <1>10 DEF Ops

\* The connection breaks while a call waits.
LEMMA DisconnectKeeps ==
    ASSUME RpcInv, NEW c \in Clients, Disconnect(c)
    PROVE  RpcInv'
<1> DEFINE n == LastCall(c)
<1>1. /\ client[c].waiting /\ rpcStore' = rpcStore /\ sessions' = sessions
  BY Zenon DEF Disconnect
<1>2. client[c] \in Client /\ client[c].calls <= client[c].calls
  BY Zenon, <1>1, LastOne
<1>3. CASE /\ client' = [client EXCEPT ![c] = GivenUp(client[c])]
           /\ requests' = IF Done(n) THEN Without(requests, n) ELSE requests
  <2> DEFINE v == GivenUp(client[c])
  <2>1. v \in Client /\ v.calls = client[c].calls /\ ~v.waiting /\ ~v.open
    BY Zenon, <1>2, GivenUpFacts
  <2>2. client' = [client EXCEPT ![c] = v]
    BY Zenon, <1>3
  <2> HIDE DEF v
  <2>3. CallOver(c, v)
    BY Zenon, <1>1, <1>2, <1>3, <2>1, <2>2 DEF CallOver
  <2> QED
    BY Zenon, <2>1, <2>3, LeftKeeps
<1>4. CASE /\ requests[n].op = "write"
           /\ client' = [client EXCEPT ![c] = Wrote(client[c], requests[n], n, FALSE)]
           /\ requests' = Without(requests, n)
  <2>1. FALSE \in BOOLEAN
    OBVIOUS
  <2> QED
    BY Zenon, <1>1, <1>4, <2>1, WroteKeeps
<1> QED
  BY Zenon, <1>3, <1>4 DEF Disconnect, LastCall

\* A client that waits for nothing has no request in its transaction.
LEMMA NoneOutstanding ==
    ASSUME RpcInv, NEW c \in Clients, MayCall(c), client[c].open
    PROVE  client[c].handle # 0 => \A r \in DOMAIN requests : r[1] = c => requests[r].id # client[c].handle
<1>1. NothingElse(c) /\ ~client[c].waiting
  BY Zenon DEF RpcInv, MayCall
<1> QED
  BY Zenon, <1>1 DEF NothingElse, InTransaction, Awaited

LEMMA TransactionInitKeeps ==
    ASSUME RpcInv, NEW c \in Clients, TransactionInit(c)
    PROVE  RpcInv'
<1>1. MayCall(c) /\ ~client[c].open
  BY Zenon DEF TransactionInit
<1>2. PICK tid \in {0, client[c].handle} :
        /\ tid # 0 => \A r \in DOMAIN requests : r[1] = c => requests[r].id # tid
        /\ Sends(c, "begin", tid, 0)
  BY Zenon DEF TransactionInit
<1>3. tid \in Ids
  BY ZenonT(60), <1>2, Typed, ClientFields DEF RpcInv
<1>4. "begin" \in Ops /\ "begin" # "commit" /\ "begin" \notin {"read", "write"} /\ 0 \in RpcKeys \union {0}
  BY DEF Ops
<1>5. MaySend(c, "begin", tid, 0)
  BY Zenon, <1>1, <1>2, <1>3, <1>4 DEF MaySend
<1> QED
  BY Zenon, <1>1, <1>2, <1>5, SendKeeps

LEMMA CallKeeps ==
    ASSUME RpcInv, NEW c \in Clients, Read(c) \/ Write(c)
    PROVE  RpcInv'
<1> DEFINE tid == IF client[c].open THEN client[c].handle ELSE 0
<1>1. MayCall(c)
  BY Zenon DEF Read, Write
<1>2. PICK op \in {"read", "write"}, k \in RpcKeys : Sends(c, op, tid, k)
  BY Zenon DEF Read, Write
<1>3. /\ tid \in Ids /\ client[c].open => tid = client[c].handle
      /\ ~client[c].open => tid = 0
  BY Zenon, Typed, ClientFields DEF RpcInv
<1>4. tid # 0 => \A r \in DOMAIN requests : r[1] = c => requests[r].id # tid
  BY Zenon, <1>1, NoneOutstanding
<1>5. op \in Ops /\ op # "begin" /\ op # "commit" /\ k \in RpcKeys \union {0}
  BY DEF Ops
<1>6. tid \in Ids
  BY Zenon, Typed, ClientFields DEF RpcInv
<1> HIDE DEF tid
<1>7. MaySend(c, op, tid, k)
  BY Zenon, <1>3, <1>4, <1>5, <1>6 DEF MaySend
<1> QED
  BY Zenon, <1>1, <1>2, <1>7, SendKeeps

LEMMA TransactionCommitKeeps ==
    ASSUME RpcInv, NEW c \in Clients, TransactionCommit(c)
    PROVE  RpcInv'
<1>1. MayCall(c) /\ client[c].open /\ client[c] \in Client
  BY Zenon, Typed DEF TransactionCommit, RpcInv
<1>2. CASE client[c].handle = 0
  <2> DEFINE v == [client[c] EXCEPT !.calls = client[c].calls + 1, !.open = FALSE]
  <2>1. /\ client' = [client EXCEPT ![c].calls = @ + 1, ![c].open = FALSE]
        /\ rpcStore' = rpcStore /\ sessions' = sessions /\ requests' = requests
    BY Zenon, <1>2 DEF TransactionCommit
  <2>2. client' = [client EXCEPT ![c] = v]
    BY Zenon, <2>1, Typed DEF RpcInv
  <2>3. /\ client[c].calls \in Nat /\ client[c].calls < MaxCalls /\ ~client[c].waiting
    BY Zenon, <1>1, ClientFields DEF MayCall
  <2>4. client[c].calls + 1 \in 0..MaxCalls /\ client[c].calls <= client[c].calls + 1
    BY <2>3, RpcAssumption
  <2>5. v \in Client /\ v.calls = client[c].calls + 1 /\ v.waiting = client[c].waiting /\ v.open = FALSE
    BY Zenon, <1>1, <2>4 DEF Client
  <2> HIDE DEF v
  <2>6. CallOver(c, v)
    BY Zenon, <2>1, <2>2, <2>3, <2>4, <2>5 DEF CallOver
  <2> QED
    BY Zenon, <2>5, <2>6, LeftKeeps
<1>3. CASE client[c].handle # 0
  <2>1. Sends(c, "commit", client[c].handle, 0)
    BY Zenon, <1>3 DEF TransactionCommit
  <2>2. /\ "commit" \in Ops /\ "commit" # "begin" /\ "commit" \notin {"read", "write"}
        /\ 0 \in RpcKeys \union {0}
    BY DEF Ops
  <2>3. client[c].handle \in Ids
    BY Zenon, <1>1, ClientFields
  <2>4. MaySend(c, "commit", client[c].handle, 0)
    BY Zenon, <1>1, <1>3, <2>2, <2>3, NoneOutstanding DEF MaySend
  <2> QED
    BY Zenon, <1>1, <2>1, <2>4, SendKeeps
<1> QED
  BY Zenon, <1>2, <1>3

-----------------------------------------------------------------------------
(* The theorems.                                                            *)

LEMMA InvInit == RpcInit => RpcInv
<1> SUFFICES ASSUME RpcInit PROVE RpcInv
  OBVIOUS
<1>1. DOMAIN sessions = {} /\ DOMAIN requests = {}
  BY Zenon DEF RpcInit
<1>2. rpcStore \in [RpcKeys -> Stamps]
  BY DEF RpcInit, Stamps
<1>3. client \in [Clients -> Client] /\ \A c \in Clients : ~client[c].waiting /\ ~client[c].open
  <2> DEFINE v == [calls |-> 0, waiting |-> FALSE, handle |-> 0, open |-> FALSE,
                   writes |-> NoWrites, sure |-> TRUE]
  <2>1. 0 \in Ids /\ 0 \in 0..MaxCalls
    BY RpcAssumption DEF Ids
  <2>2. v \in Client /\ ~v.waiting /\ ~v.open
    BY <2>1, FreshSession DEF Client
  <2>3. client = [c \in Clients |-> v]
    BY Zenon DEF RpcInit
  <2> HIDE DEF v
  <2> QED
    BY Zenon, <2>2, <2>3
<1>4. RpcTypeOK
  BY Zenon, <1>1, <1>2, <1>3 DEF RpcTypeOK
<1>5. OneAtATime /\ \A r \in DOMAIN requests : WellFormed(r) /\ KeepsSession(r) /\ SessionExpected(r)
  BY Zenon, <1>1 DEF OneAtATime
<1>6. \A c \in Clients : WaitsForCall(c) /\ NothingElse(c) /\ SessionKnown(c) /\ AnswerRight(c)
  BY Zenon, <1>3 DEF WaitsForCall, NothingElse, SessionKnown, AnswerRight, InTransaction
<1> QED
  BY Zenon, <1>4, <1>5, <1>6 DEF RpcInv

LEMMA InvStutters == RpcInv /\ UNCHANGED rpcVars => RpcInv'
<1> SUFFICES ASSUME RpcInv, UNCHANGED rpcVars PROVE RpcInv'
  OBVIOUS
<1>1. rpcStore' = rpcStore /\ sessions' = sessions /\ requests' = requests /\ client' = client
  BY DEF rpcVars
<1>2. RpcTypeOK'
  BY Zenon, <1>1, Typed, StaysTyped DEF RpcInv
<1>3. OneAtATime'
  BY Zenon, <1>1 DEF RpcInv, OneAtATime
<1>4. ASSUME NEW u \in DOMAIN requests' PROVE WellFormed(u)' /\ KeepsSession(u)' /\ SessionExpected(u)'
  BY Zenon, <1>1 DEF RpcInv, WellFormed, KeepsSession, SessionExpected, Of
<1>5. ASSUME NEW d \in Clients PROVE WaitsForCall(d)' /\ NothingElse(d)' /\ SessionKnown(d)' /\ AnswerRight(d)'
  <2>1. WaitsForCall(d) /\ SessionLeft(<<d, client[d].handle>>)
    BY Zenon, <1>1 DEF RpcInv, SessionLeft
  <2> QED
    BY Zenon, <1>1, <2>1, ClientLeft DEF WaitsForCall
<1> QED
  BY Zenon, <1>2, <1>3, <1>4, <1>5 DEF RpcInv

LEMMA InvStep == RpcInv /\ [RpcNext]_rpcVars => RpcInv'
<1>1. ASSUME RpcInv, NEW r \in DOMAIN requests, LockSession(r) \/ ServeRequest(r) \/ Lose(r) PROVE RpcInv'
  BY Zenon, <1>1, LockKeeps, HandleKeeps, LoseKeeps
<1>2. ASSUME RpcInv, NEW s \in DOMAIN sessions, Evict(s) PROVE RpcInv'
  BY Zenon, <1>2, EvictKeeps
<1>3. ASSUME RpcInv, NEW c \in Clients, ClientNext(c) PROVE RpcInv'
  BY ZenonT(60), <1>3, TransactionInitKeeps, CallKeeps, TransactionCommitKeeps, ReturnKeeps, DisconnectKeeps
     DEF ClientNext
<1> QED
  BY Zenon, <1>1, <1>2, <1>3, InvStutters DEF RpcNext, ServerNext

LEMMA RpcInvariant == RpcSpec => []RpcInv
BY InvInit, InvStep, PTL DEF RpcSpec

\* The Flight server's tables hold sessions and requests of known clients, and
\* every value stored, staged or answered is absent or named after a call
\* (transaction_init, read, write and commit of flight_server.cpp).
THEOREM RpcTypeCorrect == RpcSpec => []RpcTypeOK
<1>1. RpcInv => RpcTypeOK
  BY Zenon DEF RpcInv
<1> QED BY <1>1, RpcInvariant, PTL

\* The rpcStore changes when a write outside of transactions or a commit is served.
LEMMA StoreChanges ==
    ASSUME RpcInv, RpcNext, rpcStore' # rpcStore
    PROVE  \E q \in DOMAIN requests :
              \/ requests[q].op = "write" /\ ServeWrite(q)
              \/ requests[q].op = "commit" /\ requests[q].stage = "locked" /\ ServeCommit(q)
<1>1. ASSUME NEW c \in Clients, ClientNext(c) PROVE rpcStore' = rpcStore
  BY Zenon, <1>1 DEF ClientNext, TransactionInit, Read, Write, TransactionCommit, Return, Disconnect, Sends
<1>2. ASSUME NEW s \in DOMAIN sessions, Evict(s) PROVE rpcStore' = rpcStore
  BY Zenon, <1>2 DEF Evict
<1>3. ASSUME NEW q \in DOMAIN requests, Lose(q) \/ LockSession(q) PROVE rpcStore' = rpcStore
  <2>1. CASE Lose(q)
    BY Zenon, <2>1 DEF Lose
  <2>2. CASE LockSession(q)
    <3>1. LockBegin(q) \/ LockCommit(q) \/ LockCall(q)
      BY <2>2 DEF LockSession
    <3> QED
      BY Zenon, <3>1 DEF LockBegin, LockCommit, LockCall
  <2> QED
    BY Zenon, <1>3, <2>1, <2>2
<1>4. PICK q \in DOMAIN requests : ServeRequest(q)
  BY Zenon, <1>1, <1>2, <1>3 DEF RpcNext, ServerNext
<1>5. requests[q].op \in Ops /\ requests[q].stage = "locked"
  BY Zenon, <1>4, AtServer, RequestFields DEF ServeRequest
<1>6. \/ ServeBegin(q) \/ ServeRead(q)
      \/ requests[q].op = "write" /\ ServeWrite(q)
      \/ requests[q].op = "commit" /\ ServeCommit(q)
  BY Zenon, <1>4, <1>5 DEF ServeRequest, Ops
<1>7. (ServeBegin(q) \/ ServeRead(q)) => rpcStore' = rpcStore
  BY Zenon DEF ServeBegin, ServeRead
<1> QED
  BY Zenon, <1>5, <1>6, <1>7

\* ukv_transaction_commit over Flight: a commit that takes effect applies all
\* the writes its client was told of and nothing else, whatever requests are
\* late, whichever sessions were evicted and connections lost meanwhile.
THEOREM RpcWholeCommits == RpcSpec => WholeCommits
<1> DEFINE Whole(r) ==
      (/\ requests[r].op = "commit" /\ requests[r].stage = "locked" /\ requests[r].sure
       /\ Of(r) \notin DOMAIN sessions' /\ rpcStore' # rpcStore)
          => rpcStore' = [k \in RpcKeys |-> IF k \in DOMAIN requests[r].expect THEN requests[r].expect[k]
                                      ELSE rpcStore[k]]
<1>1. ASSUME RpcInv, RpcNext, NEW r \in DOMAIN requests PROVE Whole(r)
  <2> SUFFICES ASSUME requests[r].op = "commit", requests[r].stage = "locked", requests[r].sure,
                      Of(r) \notin DOMAIN sessions', rpcStore' # rpcStore
               PROVE  rpcStore' = [k \in RpcKeys |-> IF k \in DOMAIN requests[r].expect
                                               THEN requests[r].expect[k] ELSE rpcStore[k]]
    BY Zenon
  <2>1. WellFormed(r) /\ SessionExpected(r) /\ requests[r].op # "begin" /\ requests[r].id # 0
    <3>1. requests[r].op # "begin"
      OBVIOUS
    <3> QED
      BY Zenon, <1>1, <3>1, AtServer DEF WellFormed
  <2>2. Of(r) \in DOMAIN sessions /\ sessions[Of(r)].writes = requests[r].expect
    BY Zenon, <1>1, <2>1, SessionThere DEF SessionExpected
  <2>3. PICK q \in DOMAIN requests :
           \/ requests[q].op = "write" /\ ServeWrite(q)
           \/ requests[q].op = "commit" /\ requests[q].stage = "locked" /\ ServeCommit(q)
    BY Zenon, <1>1, StoreChanges
  <2>4. ASSUME requests[q].op = "write", ServeWrite(q) PROVE FALSE
    <3>1. requests[q].id = 0 => sessions' = sessions
      BY Zenon, <2>4 DEF ServeWrite
    <3>2. requests[q].id # 0 => rpcStore' = rpcStore
      BY Zenon, <2>4 DEF ServeWrite
    <3> QED
      BY Zenon, <2>2, <3>1, <3>2
  <2>5. requests[q].op = "commit" /\ ServeCommit(q)
    BY Zenon, <2>3, <2>4
  <2>6. sessions' = Without(sessions, Of(q)) /\ rpcStore' = [k \in RpcKeys |-> Visible(Of(q), k)]
    BY Zenon, <2>5 DEF ServeCommit
  <2>7. Of(q) = Of(r)
    <3>1. DOMAIN sessions' = DOMAIN sessions \ {Of(q)}
      BY Zenon, <2>6 DEF Without, Restrict
    <3> QED
      BY Zenon, <2>2, <3>1
  <2>8. rpcStore' = [k \in RpcKeys |-> Visible(Of(r), k)]
    BY Zenon, <2>6, <2>7
  <2> QED
    BY Zenon, <2>2, <2>8 DEF Visible
<1>2. RpcInv /\ [RpcNext]_rpcVars => [\A r \in DOMAIN requests : Whole(r)]_rpcVars
  <2> HIDE DEF Whole
  <2> QED
    BY Zenon, <1>1
<1>3. RpcSpec => [][\A r \in DOMAIN requests : Whole(r)]_rpcVars
  <2> HIDE DEF Whole
  <2> QED
    BY <1>2, RpcInvariant, PTL DEF RpcSpec
<1> QED BY <1>3, PTL DEF WholeCommits

\* ukv_read over Flight inside a transaction returns the transaction's own write
\* of the key, if it made one that was not lost unnoticed.
THEOREM RpcReadsOwnWrites == RpcSpec => ReadsOwnWrites
<1> DEFINE Own(c) ==
      LET r == requests[<<c, client[c].calls>>] IN
      (/\ client[c].waiting /\ ~client'[c].waiting
       /\ r.op = "read" /\ r.id # 0 /\ r.stage = "answered" /\ client'[c].open
       /\ r.key \in DOMAIN client[c].writes /\ client[c].sure)
          => r.value = client[c].writes[r.key]
<1>1. ASSUME RpcInv, NEW c \in Clients PROVE Own(c)
  <2> DEFINE r == requests[LastCall(c)]
  <2> SUFFICES ASSUME client[c].waiting, r.op = "read", r.id # 0, r.stage = "answered",
                      r.key \in DOMAIN client[c].writes, client[c].sure
               PROVE  r.value = client[c].writes[r.key]
    BY Zenon DEF LastCall
  <2>1. WaitsForCall(c) /\ AnswerRight(c)
    BY Zenon, <1>1 DEF RpcInv
  <2>2. r.op # "begin"
    OBVIOUS
  <2>3. InTransaction(c)
    BY Zenon, <2>1, <2>2 DEF WaitsForCall, InTransaction
  <2> QED
    BY Zenon, <2>1, <2>3 DEF AnswerRight
<1>2. RpcInv /\ [RpcNext]_rpcVars => [\A c \in Clients : Own(c)]_rpcVars
  <2> HIDE DEF Own
  <2> QED
    BY Zenon, <1>1
<1>3. RpcSpec => [][\A c \in Clients : Own(c)]_rpcVars
  <2> HIDE DEF Own
  <2> QED
    BY <1>2, RpcInvariant, PTL DEF RpcSpec
<1> QED BY <1>3 DEF ReadsOwnWrites
=============================================================================
