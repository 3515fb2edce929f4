------------------------------- MODULE Graph -------------------------------
(***************************************************************************)
(* The graph modality (src/modality_graph.cpp).  The neighborhood of a     *)
(* vertex is one value of the underlying collection: the outgoing and then *)
(* the incoming neighborships, each part sorted by neighbor and edge id.   *)
(* An edge is therefore stored twice, once in the value of either end, and *)
(* every update reads the values of all the vertices it touches, changes   *)
(* them in memory and writes them back in one batch.                       *)
(*                                                                         *)
(* The parts of a value are sets here: std::lower_bound finds in a sorted  *)
(* array exactly what is in it.  The order matters in one place, the loop  *)
(* of ukv_graph_remove_vertices over an array it erases from (Visited).    *)
(* A value of no bytes is apart from a header with two zero degrees only   *)
(* in what is written back for it.  The graph is in one collection, and    *)
(* ukv_graph_remove_vertices gets one vertex and the role "any", the way   *)
(* remove_vertex of the C++ SDK passes them: with a stride of zero, by     *)
(* which the loop at line 789 only sees that vertex, now missing, again.   *)
(*                                                                         *)
(* The engine is external: keys are read one by one, a batch of writes is  *)
(* atomic, and a transaction commits only if no key it watched was written *)
(* since, which is what module UMem establishes of engine_umem.cpp.        *)
(***************************************************************************)
EXTENDS Integers, FiniteSets, Sequences

CONSTANTS
    Vertices,        \* ukv_key_t of vertices
    EdgeIds,         \* ukv_key_t of edges
    Edges,           \* the edges clients use, <<source, target, id>>
    EdgeBatches,     \* what clients pass to one call
    VertexBatches,
    Removable,       \* the vertices clients remove
    Threads,
    HeadThreads,     \* the threads that work outside transactions
    HeadAlone,       \* nothing is written by others during a call of theirs
    MaxCalls,        \* bound on the calls made
    Missing,         \* no value under the key
    Blank,           \* a value of no bytes
    Unread           \* no entry for the vertex in a call or a transaction

Ship == Vertices \X EdgeIds
Entry == [out : SUBSET Ship, in : SUBSET Ship]
Value == Entry \cup {Missing, Blank}

ASSUME GraphAssumption ==
    /\ Vertices \subseteq Int /\ EdgeIds \subseteq Int
    /\ Edges \subseteq Vertices \X Vertices \X EdgeIds
    /\ EdgeBatches \subseteq SUBSET Edges
    /\ VertexBatches \subseteq SUBSET Vertices
    /\ Removable \subseteq Vertices
    /\ HeadThreads \subseteq Threads
    /\ HeadAlone \in BOOLEAN
    /\ MaxCalls \in Nat
    /\ Missing \notin Entry /\ Blank \notin Entry /\ Missing # Blank
    /\ Unread \notin Value

VARIABLES
    store,      \* the committed values
    changes,    \* per thread: the writes of its transaction
    watched,    \* per thread: the keys its transaction watches
    stale,      \* per thread: whether one of those was written since
    op,         \* per thread: the call in flight
    batch,      \* per thread: its edges
    centers,    \* per thread: its vertices
    todo,       \* per thread: the vertices it has still to read
    entries,    \* per thread: the values it has read
    asked,      \* history, per thread: what its transaction adds and removes
    calls       \* calls made so far

txn == <<changes, watched, stale>>
call == <<op, batch, centers, todo, entries>>
vars == <<store, changes, watched, stale, op, batch, centers, todo, entries,
          asked, calls>>

NoEntries == [v \in Vertices |-> Unread]
NoneAsked == [add |-> {}, del |-> {}]
Requests == [add : SUBSET Edges, del : SUBSET (Vertices \X Vertices \X EdgeIds)]
Calls == {"none", "find", "upsert", "remove", "vertices", "export", "erase"}

TypeOK ==
    /\ store \in [Vertices -> Value]
    /\ changes \in [Threads -> [Vertices -> Value \cup {Unread}]]
    /\ watched \in [Threads -> SUBSET Vertices]
    /\ stale \in [Threads -> BOOLEAN]
    /\ op \in [Threads -> Calls]
    /\ batch \in [Threads -> SUBSET Edges]
    /\ centers \in [Threads -> SUBSET Vertices]
    /\ todo \in [Threads -> SUBSET Vertices]
    /\ entries \in [Threads -> [Vertices -> Value \cup {Unread}]]
    /\ asked \in [Threads -> Requests]
    /\ calls \in Nat

Init ==
    /\ store = [v \in Vertices |-> Missing]
    /\ changes = [t \in Threads |-> NoEntries]
    /\ watched = [t \in Threads |-> {}]
    /\ stale = [t \in Threads |-> FALSE]
    /\ op = [t \in Threads |-> "none"]
    /\ batch = [t \in Threads |-> {}]
    /\ centers = [t \in Threads |-> {}]
    /\ todo = [t \in Threads |-> {}]
    /\ entries = [t \in Threads |-> NoEntries]
    /\ asked = [t \in Threads |-> NoneAsked]
    /\ calls = 0

-----------------------------------------------------------------------------
(* Values.                                                                  *)

\* neighbors(value, role): nothing for a value shorter than the header.
Out(value) == IF value \in {Missing, Blank} THEN {} ELSE value.out
In(value) == IF value \in {Missing, Blank} THEN {} ELSE value.in

Neighbors(value) == {s[1] : s \in Out(value) \cup In(value)}

Ends(edges) == {e[1] : e \in edges} \cup {e[2] : e \in edges}
ShipsOut(v, edges) == {<<e[2], e[3]>> : e \in {d \in edges : d[1] = v}}
ShipsIn(v, edges) == {<<e[1], e[3]>> : e \in {d \in edges : d[2] = v}}

\* Variant: the incoming part is updated only for vertices that had a value.
InsertedOnce(v, value, edges) ==
    [out |-> Out(value) \cup ShipsOut(v, edges),
     in |-> IF value = Missing /\ ShipsOut(v, edges) # {} THEN {}
            ELSE In(value) \cup ShipsIn(v, edges)]

\* insert_into_entry, for both ends of every edge of the batch.
Inserted(v, value, edges) ==
    [out |-> Out(value) \cup ShipsOut(v, edges),
     in |-> In(value) \cup ShipsIn(v, edges)]

\* erase_from_entry with an edge id, for both ends of every edge.
Erased(v, value, edges) ==
    IF value \in {Missing, Blank} THEN value
    ELSE [out |-> value.out \ ShipsOut(v, edges), in |-> value.in \ ShipsIn(v, edges)]

\* erase_from_entry without an edge id, in both roles.
Detached(from, value) ==
    IF value \in {Missing, Blank} THEN value
    ELSE [out |-> {s \in value.out : s[1] \notin from},
          in |-> {s \in value.in : s[1] \notin from}]

Before(r, s) == r[1] < s[1] \/ (r[1] = s[1] /\ r[2] < s[2])
Sorted(ships) ==
    CHOOSE a \in [1..Cardinality(ships) -> ships] :
       \A i, j \in DOMAIN a : i < j => Before(a[i], a[j])
Ships(value) == Sorted(value.out) \o Sorted(value.in)

\* The memory of the array once the loops of c were erased from its outgoing
\* and then from its incoming part: each time the tail moves down, and what it
\* leaves behind stays.
Moved(c, value) ==
    LET a == Ships(value)
        loops(ships) == Cardinality({s \in ships : s[1] = c})
        last(n) == SubSeq(a, Len(a) - n + 1, Len(a))
    IN  SelectSeq(a, LAMBDA s : s[1] # c) \o last(loops(value.in)) \o last(loops(value.out))

\* The neighbors that the loop of ukv_graph_remove_vertices comes by.  Its
\* bounds are fixed at the start; from the first loop of c on it reads what
\* erase_from_entry has moved.
Visited(c, value) ==
    IF c \notin Neighbors(value) THEN Neighbors(value)
    ELSE LET a == Ships(value)
             b == Moved(c, value)
             first == CHOOSE i \in DOMAIN a : a[i][1] = c /\ \A j \in 1..(i - 1) : a[j][1] # c
         IN  {a[i][1] : i \in 1..first} \cup {b[i][1] : i \in (first + 1)..Len(a)}

\* export_edge_tuples, for the role "any": an incoming loop is left out, and
\* taken off the degree, if an outgoing one was listed.
HasLoop(v, value) == \E s \in Out(value) : s[1] = v
TuplesOut(v, value) == {<<v, s[1], s[2]>> : s \in Out(value)}

\* Variant: loops are listed in both parts.
TuplesInAll(v, value) == {<<s[1], v, s[2]>> : s \in In(value)}

TuplesIn(v, value) ==
    {<<s[1], v, s[2]>> : s \in {r \in In(value) : ~(r[1] = v /\ HasLoop(v, value))}}

Degree(v, value) ==
    Cardinality(Out(value)) + Cardinality(In(value))
       - Cardinality({r \in In(value) : r[1] = v /\ HasLoop(v, value)})

-----------------------------------------------------------------------------
(* Calls: they list the vertices to read, and read them in their order.     *)

HeadBusy == \E t \in HeadThreads : op[t] # "none"

Starts(t, name, edges, vertices, reads) ==
    /\ op[t] = "none"
    /\ t \in HeadThreads /\ HeadAlone => ~HeadBusy
    /\ calls < MaxCalls
    /\ calls' = calls + 1
    /\ op' = [op EXCEPT ![t] = name]
    /\ batch' = [batch EXCEPT ![t] = edges]
    /\ centers' = [centers EXCEPT ![t] = vertices]
    /\ todo' = [todo EXCEPT ![t] = reads]
    /\ UNCHANGED <<store, txn, entries, asked>>

UpsertEdges(t, edges) == Starts(t, "upsert", edges, {}, Ends(edges))
RemoveEdges(t, edges) == Starts(t, "remove", edges, {}, Ends(edges))
UpsertVertices(t, vertices) == Starts(t, "vertices", {}, vertices, vertices)
FindEdges(t, vertices) == Starts(t, "find", {}, vertices, vertices)
RemoveVertex(t, v) == Starts(t, "export", {}, {v}, {v})

\* The call returns.
Done(t) ==
    /\ op' = [op EXCEPT ![t] = "none"]
    /\ batch' = [batch EXCEPT ![t] = {}]
    /\ centers' = [centers EXCEPT ![t] = {}]
    /\ todo' = [todo EXCEPT ![t] = {}]
    /\ entries' = [entries EXCEPT ![t] = NoEntries]

\* Writes over what was there; what a thread sees of the graph.
Overlay(writes, values) ==
    [v \in Vertices |-> IF writes[v] = Unread THEN values[v] ELSE writes[v]]
View(t) == Overlay(changes[t], store)

\* Variant: the key is not watched.
ReadUnwatched(t) ==
    /\ \E v \in todo[t] :
          /\ \A u \in todo[t] : v <= u
          /\ entries' = [entries EXCEPT ![t] = [@ EXCEPT ![v] = View(t)[v]]]
          /\ todo' = [todo EXCEPT ![t] = @ \ {v}]
          /\ UNCHANGED watched
    /\ UNCHANGED <<store, changes, stale, op, batch, centers, asked, calls>>

\* One key of a ukv_read.  pull_and_link_for_updates always watches.
Read(t) ==
    /\ \E v \in todo[t] :
          /\ \A u \in todo[t] : v <= u
          /\ entries' = [entries EXCEPT ![t] = [@ EXCEPT ![v] = View(t)[v]]]
          /\ todo' = [todo EXCEPT ![t] = @ \ {v}]
          /\ watched' = IF t \in HeadThreads THEN watched
                        ELSE [watched EXCEPT ![t] = @ \cup {v}]
    /\ UNCHANGED <<store, changes, stale, op, batch, centers, asked, calls>>

HasRead(t, name) == op[t] = name /\ todo[t] = {}

Found(t) ==
    /\ HasRead(t, "find")
    /\ Done(t)
    /\ UNCHANGED <<store, txn, asked, calls>>

\* ukv_graph_remove_vertices, between its two reads: the vertex and all its
\* neighbors are to be updated.  The degree of a missing vertex is zero.
Exported(t) ==
    /\ HasRead(t, "export")
    /\ \E v \in centers[t] : todo' = [todo EXCEPT ![t] = {v} \cup Neighbors(entries[t][v])]
    /\ op' = [op EXCEPT ![t] = "erase"]
    /\ entries' = [entries EXCEPT ![t] = NoEntries]
    /\ UNCHANGED <<store, txn, batch, centers, asked, calls>>

-----------------------------------------------------------------------------
(* The end of an update: what is written back, and what was asked for.      *)

\* pull_and_link_for_updates takes a missing value for one of no bytes.  Both
\* point into the tape of the read, which is NULL if there is not a byte on it:
\* then they are missing once they are written.
Linked(t, v) ==
    IF entries[t][v] \in Entry THEN entries[t][v]
    ELSE IF \E u \in Vertices : entries[t][u] \in Entry THEN Blank
    ELSE Missing

\* Every entry that was read is written, whether it changed or not: the
\* result of std::partition is not used.
Rewritten(t) ==
    [v \in Vertices |->
       IF entries[t][v] = Unread THEN Unread
       ELSE IF op[t] = "upsert" THEN Inserted(v, entries[t][v], batch[t])
       ELSE Erased(v, Linked(t, v), batch[t])]

\* Only the vertices that had no value are written, with an empty one.
Created(t) ==
    [v \in Vertices |->
       IF entries[t][v] = Missing THEN Blank ELSE Unread]

\* A neighbor that joined between the two reads is not among the entries:
\* offset_in_sorted then gives the next entry, which has nothing to lose but
\* relations with c, or the end of the array, which ends the process or has
\* no effect.
Detachment(t) ==
    [v \in Vertices |->
       IF entries[t][v] = Unread THEN Unread
       ELSE IF v \in centers[t] THEN Missing
       ELSE IF \E c \in centers[t] : v \in Visited(c, entries[t][c])
            THEN Detached(centers[t], Linked(t, v))
       ELSE Linked(t, v)]

Result(t) ==
    IF op[t] = "vertices" THEN Created(t)
    ELSE IF op[t] = "erase" THEN Detachment(t)
    ELSE Rewritten(t)

AllEdges == Vertices \X Vertices \X EdgeIds
Incident(vs) == {e \in AllEdges : e[1] \in vs \/ e[2] \in vs}
Asks(t) ==
    [add |-> IF op[t] = "upsert" THEN batch[t] ELSE {},
     del |-> IF op[t] = "erase" THEN Incident(centers[t])
             ELSE IF op[t] = "remove" THEN batch[t] ELSE {}]

Updates(t) == op[t] \in {"upsert", "remove", "vertices", "erase"} /\ todo[t] = {}

\* The writes of a transaction stay with it.
TxnWrite(t) ==
    /\ t \notin HeadThreads
    /\ Updates(t)
    /\ changes' = [changes EXCEPT ![t] = Overlay(Result(t), changes[t])]
    /\ asked' = [asked EXCEPT ![t] =
          [add |-> (asked[t].add \ Asks(t).del) \cup Asks(t).add,
           del |-> asked[t].del \cup Asks(t).del]]
    /\ Done(t)
    /\ UNCHANGED <<store, watched, stale, calls>>

\* A batch of writes becomes visible; transactions that watch one of the keys
\* can not commit any more.
Publish(writes) == store' = Overlay(writes, store)
Hit(t, writes) == \E v \in watched[t] : writes[v] # Unread

HeadWrite(t) ==
    /\ t \in HeadThreads
    /\ Updates(t)
    /\ Publish(Result(t))
    /\ stale' = [u \in Threads |-> stale[u] \/ Hit(u, Result(t))]
    /\ Done(t)
    /\ UNCHANGED <<changes, watched, asked, calls>>

-----------------------------------------------------------------------------
(* ukv_transaction_commit, and the end of a transaction that was refused or *)
(* given up.                                                                *)

Closes(t) ==
    /\ changes' = [changes EXCEPT ![t] = NoEntries]
    /\ watched' = [watched EXCEPT ![t] = {}]
    /\ asked' = [asked EXCEPT ![t] = NoneAsked]

InTxn(t) ==
    /\ t \notin HeadThreads
    /\ op[t] = "none"
    /\ watched[t] # {} \/ changes[t] # NoEntries

Commit(t) ==
    /\ InTxn(t)
    /\ ~stale[t]
    /\ HeadAlone => ~HeadBusy
    /\ Publish(changes[t])
    /\ stale' = [u \in Threads |-> u # t /\ (stale[u] \/ Hit(u, changes[t]))]
    /\ Closes(t)
    /\ UNCHANGED <<call, calls>>

TxnFree(t) ==
    /\ InTxn(t)
    /\ stale' = [stale EXCEPT ![t] = FALSE]
    /\ Closes(t)
    /\ UNCHANGED <<store, call, calls>>

Next ==
    \E t \in Threads :
       \/ \E edges \in EdgeBatches : UpsertEdges(t, edges) \/ RemoveEdges(t, edges)
       \/ \E vertices \in VertexBatches : UpsertVertices(t, vertices) \/ FindEdges(t, vertices)
       \/ \E v \in Removable : RemoveVertex(t, v)
       \/ Read(t) \/ Found(t) \/ Exported(t)
       \/ TxnWrite(t) \/ HeadWrite(t)
       \/ Commit(t) \/ TxnFree(t)

Spec == Init /\ [][Next]_vars

-----------------------------------------------------------------------------
(* Properties.                                                              *)

SymmetricIn(values) ==
    \A u, v \in Vertices, e \in EdgeIds :
       <<v, e>> \in Out(values[u]) <=> <<u, e>> \in In(values[v])

\* An edge is known to both of its ends or to none: the two copies that
\* insert_into_entry and erase_from_entry make never part, although reads,
\* writes and commits of several threads interleave.
Symmetric == SymmetricIn(store)

EdgesIn(values) == {e \in AllEdges : <<e[2], e[3]>> \in Out(values[e[1]])}

\* A commit changes the edges of the graph by exactly what the calls of its
\* transaction asked for, and a call outside transactions by what it was
\* asked for: no update of another thread is lost or brought back.
Applies(request) ==
    EdgesIn(store') = (EdgesIn(store) \ request.del) \cup request.add
ChangesAsAsked ==
    [][\A t \in Threads :
          /\ Commit(t) => Applies(asked[t])
          /\ HeadWrite(t) => Applies(Asks(t))]_vars

\* "Removes vertices and all related edges from the graph."
\* (include/ukv/graph.h:358): no vertex is related to one that does not exist.
RemovedWithEdges ==
    \A c, v \in Vertices : store[c] = Missing => c \notin Neighbors(store[v])

\* ukv_graph_find_edges lists every edge of a vertex once, loops included,
\* although a loop is in both parts of its value, and counts what it lists.
FindsEachEdgeOnce ==
    \A v \in Vertices :
       /\ TuplesOut(v, store[v]) \cap TuplesIn(v, store[v]) = {}
       /\ TuplesOut(v, store[v]) \cup TuplesIn(v, store[v]) = EdgesIn(store) \cap Incident({v})
       /\ Degree(v, store[v]) = Cardinality(EdgesIn(store) \cap Incident({v}))

-----------------------------------------------------------------------------
(* The inductive invariant behind Symmetric and ChangesAsAsked.             *)

Pulled(t) == {v \in Vertices : entries[t][v] # Unread}

\* What a call has read or is going to read.
CallCovers(t) ==
    /\ op[t] = "none" => todo[t] = {} /\ Pulled(t) = {}
    /\ op[t] \in {"upsert", "remove"} => Pulled(t) \cup todo[t] = Ends(batch[t])
    /\ op[t] \in {"export", "erase"} => \E c \in Removable : centers[t] = {c}
    /\ op[t] \in {"export", "erase"} => centers[t] \subseteq Pulled(t) \cup todo[t]

\* A transaction watches what it has read, what it changes, both ends of the
\* edges it adds and an end of those it removes.  Calls outside transactions
\* leave nothing behind.
Watches(t) ==
    IF t \in HeadThreads
    THEN changes[t] = NoEntries /\ watched[t] = {}
    ELSE /\ Pulled(t) \subseteq watched[t]
         /\ \A v \in Vertices : changes[t][v] # Unread => v \in watched[t]
         /\ op[t] = "erase" => centers[t] \subseteq watched[t]
         /\ \A e \in asked[t].add : e[1] \in watched[t] /\ e[2] \in watched[t]
         /\ \A e \in asked[t].del : e[1] \in watched[t] \/ e[2] \in watched[t]

\* Its commit would not be refused; a call outside transactions is alone.
Valid(t) == IF t \in HeadThreads THEN HeadAlone ELSE ~stale[t]

\* While it is valid, a thread sees a symmetric graph, the committed one with
\* what it asked for, and what its call has read is still there.
Sees(t) ==
    /\ SymmetricIn(View(t))
    /\ EdgesIn(View(t)) \subseteq Edges
    /\ t \notin HeadThreads => EdgesIn(View(t)) = (EdgesIn(store) \ asked[t].del) \cup asked[t].add
    /\ \A v \in Pulled(t) : entries[t][v] = View(t)[v]
    /\ op[t] = "erase" => \A c \in centers[t] : Neighbors(View(t)[c]) \subseteq Pulled(t) \cup todo[t]

\* At most one call is in flight outside transactions.
OneHeadCall == \A t, u \in HeadThreads : op[t] # "none" /\ op[u] # "none" => t = u

GraphInv ==
    /\ TypeOK
    /\ Symmetric
    /\ EdgesIn(store) \subseteq Edges
    /\ OneHeadCall
    /\ \A t \in Threads : CallCovers(t) /\ Watches(t) /\ (Valid(t) => Sees(t))

\* No vertex that clients remove has a loop.
LoopFree == \A v \in Removable, e \in EdgeIds : <<v, v, e>> \notin Edges
=============================================================================
