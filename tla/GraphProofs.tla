---------------------------- MODULE GraphProofs ----------------------------
(***************************************************************************)
(* What the operations of the graph modality do to the values they read;   *)
(* type correctness; and that the two copies of an edge never part and     *)
(* updates change the graph by what was asked for, for any number of       *)
(* threads, vertices and edges: the invariant GraphInv of module Graph is  *)
(* inductive if no vertex that is removed has a loop and calls outside     *)
(* transactions are alone.  At the end: what ukv_graph_find_edges lists of *)
(* a vertex, and how many it counts, for any symmetric graph of finitely   *)
(* many edges.                                                             *)
(***************************************************************************)
EXTENDS Graph, FiniteSetTheorems, TLAPS

Values == [Vertices -> Value]
Writes == [Vertices -> Value \cup {Unread}]

\* The parts of a value are sets of relations (neighbors).
LEMMA PartsTyped ==
    ASSUME NEW value \in Value
    PROVE  Out(value) \subseteq Ship /\ In(value) \subseteq Ship
BY Zenon, GraphAssumption DEF Value, Entry, Out, In

\* Writing over values gives values, and writing over writes gives writes.
LEMMA OverlayTyped ==
    ASSUME NEW writes \in Writes
    PROVE  /\ \A values \in Values : Overlay(writes, values) \in Values
           /\ \A more \in Writes : Overlay(writes, more) \in Writes
BY Zenon DEF Overlay, Values, Writes

\* Later writes over earlier ones over values.
LEMMA OverlayTwice ==
    ASSUME NEW later \in Writes, NEW earlier \in Writes, NEW values \in Values
    PROVE  Overlay(Overlay(later, earlier), values)
              = Overlay(later, Overlay(earlier, values))
BY Zenon DEF Overlay, Values, Writes

LEMMA InsertedTyped ==
    ASSUME NEW v \in Vertices, NEW value \in Value, NEW edges \in SUBSET Edges
    PROVE  Inserted(v, value, edges) \in Entry
<1>1. ShipsOut(v, edges) \subseteq Ship
  BY GraphAssumption DEF ShipsOut, Ship
<1>2. ShipsIn(v, edges) \subseteq Ship
  BY GraphAssumption DEF ShipsIn, Ship
<1> QED
  BY Zenon, <1>1, <1>2, PartsTyped DEF Inserted, Entry

LEMMA InsertedParts ==
    ASSUME NEW v \in Vertices, NEW value \in Value, NEW edges \in SUBSET Edges
    PROVE  /\ Out(Inserted(v, value, edges)) = Out(value) \cup ShipsOut(v, edges)
           /\ In(Inserted(v, value, edges)) = In(value) \cup ShipsIn(v, edges)
<1> DEFINE new == Inserted(v, value, edges)
<1>1. new \notin {Missing, Blank}
  BY Zenon, InsertedTyped, GraphAssumption
<1>2. /\ new.out = Out(value) \cup ShipsOut(v, edges)
      /\ new.in = In(value) \cup ShipsIn(v, edges)
  BY Zenon DEF Inserted
<1> HIDE DEF new
<1>3. Out(new) = new.out /\ In(new) = new.in
  BY Zenon, <1>1 DEF Out, In
<1> QED
  BY Zenon, <1>2, <1>3 DEF new

\* A value that is missing or has no bytes has no relations.
LEMMA NoParts ==
    ASSUME NEW value \in {Missing, Blank}
    PROVE  Out(value) = {} /\ In(value) = {}
BY Zenon DEF Out, In

LEMMA EntryParts ==
    ASSUME NEW value \in Entry
    PROVE  /\ value \notin {Missing, Blank}
           /\ Out(value) = value.out /\ In(value) = value.in
BY Zenon, GraphAssumption DEF Out, In

LEMMA ErasedParts ==
    ASSUME NEW v \in Vertices, NEW value \in Value, NEW edges \in SUBSET Edges
    PROVE  /\ Erased(v, value, edges) \in Value
           /\ Out(Erased(v, value, edges)) = Out(value) \ ShipsOut(v, edges)
           /\ In(Erased(v, value, edges)) = In(value) \ ShipsIn(v, edges)
<1>1. CASE value \in {Missing, Blank}
  BY Zenon, <1>1, NoParts DEF Erased
<1>2. CASE value \in Entry
  <2> DEFINE new == [out |-> value.out \ ShipsOut(v, edges), in |-> value.in \ ShipsIn(v, edges)]
  <2>1. Erased(v, value, edges) = new
    BY Zenon, <1>2, EntryParts DEF Erased
  <2>2. new \in Entry
    BY Zenon, <1>2 DEF Entry
  <2>3. new.out = value.out \ ShipsOut(v, edges) /\ new.in = value.in \ ShipsIn(v, edges)
    BY Zenon
  <2> HIDE DEF new
  <2> QED
    BY Zenon, <1>2, <2>1, <2>2, <2>3, EntryParts DEF Value
<1> QED
  BY Zenon, <1>1, <1>2 DEF Value

LEMMA DetachedParts ==
    ASSUME NEW from \in SUBSET Vertices, NEW value \in Value
    PROVE  /\ Detached(from, value) \in Value
           /\ Out(Detached(from, value)) = {s \in Out(value) : s[1] \notin from}
           /\ In(Detached(from, value)) = {s \in In(value) : s[1] \notin from}
<1>1. CASE value \in {Missing, Blank}
  BY Zenon, <1>1, NoParts DEF Detached
<1>2. CASE value \in Entry
  <2> DEFINE new == [out |-> {s \in value.out : s[1] \notin from},
                     in |-> {s \in value.in : s[1] \notin from}]
  <2>1. Detached(from, value) = new
    BY Zenon, <1>2, EntryParts DEF Detached
  <2>2. new \in Entry
    BY Zenon, <1>2 DEF Entry
  <2>3. /\ new.out = {s \in value.out : s[1] \notin from}
        /\ new.in = {s \in value.in : s[1] \notin from}
    BY Zenon
  <2> HIDE DEF new
  <2> QED
    BY Zenon, <1>2, <2>1, <2>2, <2>3, EntryParts DEF Value
<1> QED
  BY Zenon, <1>1, <1>2 DEF Value

\* Linking what was read changes no relation (pull_and_link_for_updates).
LEMMA LinkedParts ==
    ASSUME NEW t \in Threads, NEW v \in Vertices, entries[t][v] \in Value
    PROVE  /\ Linked(t, v) \in Value
           /\ Out(Linked(t, v)) = Out(entries[t][v])
           /\ In(Linked(t, v)) = In(entries[t][v])
<1>1. CASE entries[t][v] \in Entry
  BY Zenon, <1>1 DEF Linked
<1>2. CASE entries[t][v] \notin Entry
  <2>1. entries[t][v] \in {Missing, Blank} /\ Linked(t, v) \in {Missing, Blank}
    BY Zenon, <1>2 DEF Linked, Value
  <2> QED
    BY Zenon, <2>1, NoParts DEF Value
<1> QED
  BY Zenon, <1>1, <1>2

\* An edge is among the outgoing relations of its source.
LEMMA EdgeIsShip ==
    ASSUME NEW values, NEW u \in Vertices, NEW w \in Vertices, NEW e \in EdgeIds
    PROVE  <<u, w, e>> \in EdgesIn(values) <=> <<w, e>> \in Out(values[u])
BY Zenon DEF EdgesIn, AllEdges

\* Sets of edges are compared edge by edge.
LEMMA SameEdges ==
    ASSUME NEW S \in SUBSET AllEdges, NEW R \in SUBSET AllEdges,
           \A u, w \in Vertices, e \in EdgeIds : <<u, w, e>> \in S <=> <<u, w, e>> \in R
    PROVE  S = R
BY DEF AllEdges

LEMMA EdgesTyped ==
    ASSUME NEW values
    PROVE  EdgesIn(values) \in SUBSET AllEdges
BY Zenon DEF EdgesIn

LEMMA IncidentEdge ==
    ASSUME NEW c, NEW u \in Vertices, NEW w \in Vertices, NEW e \in EdgeIds
    PROVE  <<u, w, e>> \in Incident({c}) <=> u = c \/ w = c
BY Zenon DEF Incident, AllEdges

\* The relations a batch of edges makes.
LEMMA ShipsOfBatch ==
    ASSUME NEW edges \in SUBSET Edges,
           NEW u \in Vertices, NEW w \in Vertices, NEW e \in EdgeIds
    PROVE  /\ <<w, e>> \in ShipsOut(u, edges) <=> <<u, w, e>> \in edges
           /\ <<u, e>> \in ShipsIn(w, edges) <=> <<u, w, e>> \in edges
           /\ <<u, w, e>> \in edges => u \in Ends(edges) /\ w \in Ends(edges)
<1> edges \subseteq Vertices \X Vertices \X EdgeIds
  BY Zenon, GraphAssumption
<1>1. <<w, e>> \in ShipsOut(u, edges) <=> <<u, w, e>> \in edges
  BY DEF ShipsOut
<1>2. <<u, e>> \in ShipsIn(w, edges) <=> <<u, w, e>> \in edges
  BY DEF ShipsIn
<1>3. <<u, w, e>> \in edges => u \in Ends(edges) /\ w \in Ends(edges)
  BY DEF Ends
<1> QED
  BY Zenon, <1>1, <1>2, <1>3

\* ukv_graph_upsert_edges: both ends of every edge get it.
LEMMA UpsertEffect ==
    ASSUME NEW values \in Values, SymmetricIn(values),
           NEW edges \in SUBSET Edges, NEW new \in Values,
           \A v \in Vertices :
              new[v] = IF v \in Ends(edges) THEN Inserted(v, values[v], edges) ELSE values[v]
    PROVE  SymmetricIn(new) /\ EdgesIn(new) = EdgesIn(values) \cup edges
<1>1. ASSUME NEW u \in Vertices, NEW w \in Vertices, NEW e \in EdgeIds
      PROVE  /\ <<w, e>> \in Out(new[u]) <=> <<w, e>> \in Out(values[u]) \/ <<u, w, e>> \in edges
             /\ <<u, e>> \in In(new[w]) <=> <<u, e>> \in In(values[w]) \/ <<u, w, e>> \in edges
  <2>1. <<w, e>> \in Out(new[u]) <=> <<w, e>> \in Out(values[u]) \/ <<u, w, e>> \in edges
    <3>1. CASE u \in Ends(edges)
      <4>1. Out(new[u]) = Out(values[u]) \cup ShipsOut(u, edges)
        BY <3>1, InsertedParts DEF Values
      <4> QED
        BY Zenon, <4>1, ShipsOfBatch
    <3>2. CASE u \notin Ends(edges)
      BY Zenon, <3>2, ShipsOfBatch
    <3> QED
      BY Zenon, <3>1, <3>2
  <2>2. <<u, e>> \in In(new[w]) <=> <<u, e>> \in In(values[w]) \/ <<u, w, e>> \in edges
    <3>1. CASE w \in Ends(edges)
      <4>1. In(new[w]) = In(values[w]) \cup ShipsIn(w, edges)
        BY Zenon, <3>1, InsertedParts DEF Values
      <4> QED
        BY Zenon, <4>1, ShipsOfBatch
    <3>2. CASE w \notin Ends(edges)
      BY Zenon, <3>2, ShipsOfBatch
    <3> QED
      BY Zenon, <3>1, <3>2
  <2> QED
    BY Zenon, <2>1, <2>2
<1>2. SymmetricIn(new)
  BY Zenon, <1>1 DEF SymmetricIn
<1>3. ASSUME NEW u \in Vertices, NEW w \in Vertices, NEW e \in EdgeIds
      PROVE  <<u, w, e>> \in EdgesIn(new) <=> <<u, w, e>> \in EdgesIn(values) \cup edges
  BY Zenon, <1>1, EdgeIsShip
<1>4. EdgesIn(new) \in SUBSET AllEdges /\ EdgesIn(values) \cup edges \in SUBSET AllEdges
  BY Zenon, EdgesTyped, GraphAssumption DEF AllEdges
<1>5. EdgesIn(new) = EdgesIn(values) \cup edges
  <2> DEFINE S == EdgesIn(new)
             R == EdgesIn(values) \cup edges
  <2>1. \A u, w \in Vertices, e \in EdgeIds : <<u, w, e>> \in S <=> <<u, w, e>> \in R
    BY Zenon, <1>3
  <2>2. S \in SUBSET AllEdges /\ R \in SUBSET AllEdges
    BY Zenon, <1>4
  <2> HIDE DEF S, R
  <2>3. S = R
    BY Zenon, <2>1, <2>2, SameEdges
  <2> QED
    BY Zenon, <2>3 DEF S, R
<1> QED
  BY Zenon, <1>2, <1>5

\* ukv_graph_remove_edges: both ends of every edge lose it.
LEMMA RemoveEffect ==
    ASSUME NEW values \in Values, SymmetricIn(values),
           NEW edges \in SUBSET Edges, NEW new \in Values,
           \A v \in Vertices :
              IF v \in Ends(edges)
              THEN /\ Out(new[v]) = Out(values[v]) \ ShipsOut(v, edges)
                   /\ In(new[v]) = In(values[v]) \ ShipsIn(v, edges)
              ELSE new[v] = values[v]
    PROVE  SymmetricIn(new) /\ EdgesIn(new) = EdgesIn(values) \ edges
<1>1. ASSUME NEW u \in Vertices, NEW w \in Vertices, NEW e \in EdgeIds
      PROVE  /\ <<w, e>> \in Out(new[u]) <=> <<w, e>> \in Out(values[u]) /\ <<u, w, e>> \notin edges
             /\ <<u, e>> \in In(new[w]) <=> <<u, e>> \in In(values[w]) /\ <<u, w, e>> \notin edges
  <2>1. <<w, e>> \in Out(new[u]) <=> <<w, e>> \in Out(values[u]) /\ <<u, w, e>> \notin edges
    <3>1. CASE u \in Ends(edges)
      <4>1. Out(new[u]) = Out(values[u]) \ ShipsOut(u, edges)
        BY Zenon, <3>1
      <4> QED
        BY Zenon, <4>1, ShipsOfBatch
    <3>2. CASE u \notin Ends(edges)
      BY Zenon, <3>2, ShipsOfBatch
    <3> QED
      BY Zenon, <3>1, <3>2
  <2>2. <<u, e>> \in In(new[w]) <=> <<u, e>> \in In(values[w]) /\ <<u, w, e>> \notin edges
    <3>1. CASE w \in Ends(edges)
      <4>1. In(new[w]) = In(values[w]) \ ShipsIn(w, edges)
        BY Zenon, <3>1
      <4> QED
        BY Zenon, <4>1, ShipsOfBatch
    <3>2. CASE w \notin Ends(edges)
      BY Zenon, <3>2, ShipsOfBatch
    <3> QED
      BY Zenon, <3>1, <3>2
  <2> QED
    BY Zenon, <2>1, <2>2
<1>2. SymmetricIn(new)
  BY Zenon, <1>1 DEF SymmetricIn
<1>3. ASSUME NEW u \in Vertices, NEW w \in Vertices, NEW e \in EdgeIds
      PROVE  <<u, w, e>> \in EdgesIn(new) <=> <<u, w, e>> \in EdgesIn(values) \ edges
  BY Zenon, <1>1, EdgeIsShip
<1>4. EdgesIn(new) \in SUBSET AllEdges /\ EdgesIn(values) \ edges \in SUBSET AllEdges
  BY Zenon, EdgesTyped
<1>5. EdgesIn(new) = EdgesIn(values) \ edges
  <2> DEFINE S == EdgesIn(new)
             R == EdgesIn(values) \ edges
  <2>1. \A u, w \in Vertices, e \in EdgeIds : <<u, w, e>> \in S <=> <<u, w, e>> \in R
    BY Zenon, <1>3
  <2>2. S \in SUBSET AllEdges /\ R \in SUBSET AllEdges
    BY Zenon, <1>4
  <2> HIDE DEF S, R
  <2>3. S = R
    BY Zenon, <2>1, <2>2, SameEdges
  <2> QED
    BY Zenon, <2>3 DEF S, R
<1> QED
  BY Zenon, <1>2, <1>5

\* ukv_graph_upsert_vertices changes no edge.
LEMMA CreateEffect ==
    ASSUME NEW values \in Values, SymmetricIn(values), NEW new \in Values,
           \A v \in Vertices :
              new[v] = values[v] \/ (values[v] = Missing /\ new[v] = Blank)
    PROVE  SymmetricIn(new) /\ EdgesIn(new) = EdgesIn(values)
<1>1. \A v \in Vertices : Out(new[v]) = Out(values[v]) /\ In(new[v]) = In(values[v])
  BY Zenon, NoParts
<1>2. SymmetricIn(new)
  BY Zenon, <1>1 DEF SymmetricIn
<1>3. EdgesIn(new) = EdgesIn(values)
  <2>1. \A u, w \in Vertices, e \in EdgeIds :
           <<u, w, e>> \in EdgesIn(new) <=> <<u, w, e>> \in EdgesIn(values)
    BY Zenon, <1>1, EdgeIsShip
  <2> QED
    BY Zenon, <2>1, EdgesTyped, SameEdges
<1> QED
  BY Zenon, <1>2, <1>3

\* ukv_graph_remove_vertices, once all neighbors have lost the vertex.
LEMMA DetachEffect ==
    ASSUME NEW values \in Values, SymmetricIn(values),
           NEW c \in Vertices, NEW new \in Values,
           \A v \in Vertices :
              IF v = c THEN new[v] = Missing
              ELSE IF v \in Neighbors(values[c])
              THEN /\ Out(new[v]) = {s \in Out(values[v]) : s[1] # c}
                   /\ In(new[v]) = {s \in In(values[v]) : s[1] # c}
              ELSE Out(new[v]) = Out(values[v]) /\ In(new[v]) = In(values[v])
    PROVE  SymmetricIn(new) /\ EdgesIn(new) = EdgesIn(values) \ Incident({c})
<1>1. ASSUME NEW u \in Vertices, NEW w \in Vertices, NEW e \in EdgeIds
      PROVE  /\ <<w, e>> \in Out(new[u]) <=> <<w, e>> \in Out(values[u]) /\ u # c /\ w # c
             /\ <<u, e>> \in In(new[w]) <=> <<u, e>> \in In(values[w]) /\ u # c /\ w # c
  <2>1. <<w, e>> \in Out(new[u]) <=> <<w, e>> \in Out(values[u]) /\ u # c /\ w # c
    <3>1. CASE u = c
      BY Zenon, <3>1 DEF Out
    <3>2. CASE u # c /\ u \in Neighbors(values[c])
      <4>1. Out(new[u]) = {s \in Out(values[u]) : s[1] # c}
        BY Zenon, <3>2
      <4> QED
        BY Zenon, <4>1, <3>2
    <3>3. CASE u # c /\ u \notin Neighbors(values[c])
      <4>1. Out(new[u]) = Out(values[u])
        BY Zenon, <3>3
      <4>2. w = c => <<u, e>> \notin In(values[c])
        BY Zenon, <3>3 DEF Neighbors
      <4> QED
        BY Zenon, <4>1, <4>2, <3>3 DEF SymmetricIn
    <3> QED
      BY Zenon, <3>1, <3>2, <3>3
  <2>2. <<u, e>> \in In(new[w]) <=> <<u, e>> \in In(values[w]) /\ u # c /\ w # c
    <3>1. CASE w = c
      BY Zenon, <3>1 DEF In
    <3>2. CASE w # c /\ w \in Neighbors(values[c])
      <4>1. In(new[w]) = {s \in In(values[w]) : s[1] # c}
        BY Zenon, <3>2
      <4> QED
        BY Zenon, <4>1, <3>2
    <3>3. CASE w # c /\ w \notin Neighbors(values[c])
      <4>1. In(new[w]) = In(values[w])
        BY Zenon, <3>3
      <4>2. u = c => <<w, e>> \notin Out(values[c])
        BY Zenon, <3>3 DEF Neighbors
      <4> QED
        BY Zenon, <4>1, <4>2, <3>3 DEF SymmetricIn
    <3> QED
      BY Zenon, <3>1, <3>2, <3>3
  <2> QED
    BY Zenon, <2>1, <2>2
<1>2. SymmetricIn(new)
  BY Zenon, <1>1 DEF SymmetricIn
<1>3. ASSUME NEW u \in Vertices, NEW w \in Vertices, NEW e \in EdgeIds
      PROVE  <<u, w, e>> \in EdgesIn(new) <=> <<u, w, e>> \in EdgesIn(values) \ Incident({c})
  <2>1. <<u, w, e>> \in EdgesIn(new) <=> <<w, e>> \in Out(new[u])
    BY Zenon, EdgeIsShip
  <2>2. <<u, w, e>> \in EdgesIn(values) <=> <<w, e>> \in Out(values[u])
    BY Zenon, EdgeIsShip
  <2>3. <<u, w, e>> \in Incident({c}) <=> u = c \/ w = c
    BY Zenon, IncidentEdge
  <2> QED
    BY Zenon, <1>1, <2>1, <2>2, <2>3
<1>4. EdgesIn(new) \in SUBSET AllEdges /\ EdgesIn(values) \ Incident({c}) \in SUBSET AllEdges
  BY Zenon, EdgesTyped
<1>5. EdgesIn(new) = EdgesIn(values) \ Incident({c})
  <2> DEFINE S == EdgesIn(new)
             R == EdgesIn(values) \ Incident({c})
  <2>1. \A u, w \in Vertices, e \in EdgeIds : <<u, w, e>> \in S <=> <<u, w, e>> \in R
    BY Zenon, <1>3
  <2>2. S \in SUBSET AllEdges /\ R \in SUBSET AllEdges
    BY Zenon, <1>4
  <2> HIDE DEF S, R
  <2>3. S = R
    BY Zenon, <2>1, <2>2, SameEdges
  <2> QED
    BY Zenon, <2>3 DEF S, R
<1> QED
  BY Zenon, <1>2, <1>5

\* The changes that a transaction made to base are confined to the vertices of
\* W, and others write outside of W.
Unaffected(base, own, writes, W, add, del) ==
    /\ SymmetricIn(base) /\ SymmetricIn(Overlay(writes, base))
    /\ SymmetricIn(Overlay(own, base))
    /\ \A v \in W : writes[v] = Unread
    /\ \A v \in Vertices : own[v] # Unread => v \in W
    /\ \A e \in add : e[1] \in W /\ e[2] \in W
    /\ \A e \in del : e[1] \in W \/ e[2] \in W
    /\ EdgesIn(Overlay(own, base)) = (EdgesIn(base) \ del) \cup add

\* Writes of another thread to vertices that are not watched leave what a
\* transaction sees symmetric, and the same relative to what is committed.
LEMMA StableView ==
    ASSUME NEW base \in Values, NEW own \in Writes, NEW writes \in Writes,
           NEW W \in SUBSET Vertices, NEW add \in SUBSET AllEdges, NEW del \in SUBSET AllEdges,
           Unaffected(base, own, writes, W, add, del)
    PROVE  LET new == Overlay(writes, base)
           IN  /\ SymmetricIn(Overlay(own, new))
               /\ EdgesIn(Overlay(own, new)) = (EdgesIn(new) \ del) \cup add
               /\ \A v \in W : Overlay(own, new)[v] = Overlay(own, base)[v]
<1> USE DEF Unaffected
<1> DEFINE new == Overlay(writes, base)
           seen == Overlay(own, base)
           sees == Overlay(own, new)
<1>1. \A v \in W : new[v] = base[v] /\ sees[v] = seen[v]
  BY Zenon DEF Overlay
<1>2. \A v \in Vertices \ W : seen[v] = base[v] /\ sees[v] = new[v]
  BY Zenon DEF Overlay
<1>3. SymmetricIn(base) /\ SymmetricIn(new) /\ SymmetricIn(seen)
  BY Zenon
<1>4. EdgesIn(seen) = (EdgesIn(base) \ del) \cup add
  BY Zenon
<1> HIDE DEF new, seen, sees
<1>5. SymmetricIn(sees)
  <2> SUFFICES ASSUME NEW u \in Vertices, NEW w \in Vertices, NEW e \in EdgeIds
               PROVE  <<w, e>> \in Out(sees[u]) <=> <<u, e>> \in In(sees[w])
    BY Zenon DEF SymmetricIn
  <2>1. /\ <<w, e>> \in Out(base[u]) <=> <<u, e>> \in In(base[w])
        /\ <<w, e>> \in Out(new[u]) <=> <<u, e>> \in In(new[w])
        /\ <<w, e>> \in Out(seen[u]) <=> <<u, e>> \in In(seen[w])
    BY Zenon, <1>3 DEF SymmetricIn
  <2> QED
    BY Zenon, <2>1, <1>1, <1>2
<1>6. ASSUME NEW u \in Vertices, NEW w \in Vertices, NEW e \in EdgeIds
      PROVE  <<u, w, e>> \in EdgesIn(sees) <=> <<u, w, e>> \in (EdgesIn(new) \ del) \cup add
  <2> DEFINE x == <<u, w, e>>
  <2>1. /\ x \in EdgesIn(base) <=> <<w, e>> \in Out(base[u])
        /\ x \in EdgesIn(new) <=> <<w, e>> \in Out(new[u])
        /\ x \in EdgesIn(seen) <=> <<w, e>> \in Out(seen[u])
        /\ x \in EdgesIn(sees) <=> <<w, e>> \in Out(sees[u])
    BY Zenon, EdgeIsShip
  <2>2. x \in EdgesIn(seen) <=> (x \in EdgesIn(base) /\ x \notin del) \/ x \in add
    BY Zenon, <1>4
  <2>3. /\ x \in add => u \in W /\ w \in W
        /\ x \in del => u \in W \/ w \in W
    <3>1. x[1] = u /\ x[2] = w
      BY Zenon
    <3> QED
      BY Zenon, <3>1
  <2>4. x \in EdgesIn(base) <=> <<u, e>> \in In(base[w])
    BY Zenon, <2>1, <1>3 DEF SymmetricIn
  <2>5. x \in EdgesIn(new) <=> <<u, e>> \in In(new[w])
    BY Zenon, <2>1, <1>3 DEF SymmetricIn
  <2> SUFFICES x \in EdgesIn(sees) <=> x \in (EdgesIn(new) \ del) \cup add
    BY Zenon
  <2> HIDE DEF x
  <2>6. CASE u \in W
    BY Zenon, <2>6, <2>1, <2>2, <1>1
  <2>7. CASE u \notin W
    <3>1. x \notin add /\ (x \in EdgesIn(sees) <=> x \in EdgesIn(new))
      BY Zenon, <2>7, <2>1, <2>3, <1>2
    <3>2. ASSUME x \in del PROVE x \notin EdgesIn(new)
      <4>1. w \in W
        BY Zenon, <3>2, <2>7, <2>3
      <4>2. x \in EdgesIn(new) <=> x \in EdgesIn(base)
        BY Zenon, <4>1, <2>4, <2>5, <1>1
      <4>3. x \in EdgesIn(seen) <=> x \in EdgesIn(base)
        BY Zenon, <2>7, <2>1, <1>2
      <4> QED
        BY Zenon, <4>2, <4>3, <2>2, <3>1, <3>2
    <3> QED
      BY Zenon, <3>1, <3>2
  <2> QED
    BY Zenon, <2>6, <2>7
<1>7. EdgesIn(sees) = (EdgesIn(new) \ del) \cup add
  <2> DEFINE R == (EdgesIn(new) \ del) \cup add
  <2>1. R \in SUBSET AllEdges /\ EdgesIn(sees) \in SUBSET AllEdges
    BY Zenon, EdgesTyped
  <2>2. \A u, w \in Vertices, e \in EdgeIds : <<u, w, e>> \in EdgesIn(sees) <=> <<u, w, e>> \in R
    BY Zenon, <1>6
  <2> HIDE DEF R
  <2>3. EdgesIn(sees) = R
    BY Zenon, <2>1, <2>2, SameEdges
  <2> QED
    BY Zenon, <2>3 DEF R
<1>8. \A v \in W : sees[v] = seen[v]
  BY Zenon, <1>1
<1> QED
  BY Zenon, <1>5, <1>7, <1>8 DEF new, seen, sees


LEMMA ViewTyped ==
    ASSUME TypeOK, NEW t \in Threads
    PROVE  View(t) \in Values
BY Zenon, OverlayTyped DEF TypeOK, View, Values, Writes

\* Every call writes back values.
LEMMA ResultTyped ==
    ASSUME TypeOK, NEW t \in Threads
    PROVE  Result(t) \in Writes
<1> DEFINE E(v) == entries[t][v]
<1>1. \A v \in Vertices : E(v) # Unread => E(v) \in Value
  BY Zenon DEF TypeOK
<1>2. batch[t] \in SUBSET Edges /\ centers[t] \in SUBSET Vertices
  BY Zenon DEF TypeOK
<1>3. Created(t) \in Writes
  BY Zenon DEF Created, Writes, Value
<1>4. Detachment(t) \in Writes
  BY Zenon, <1>1, <1>2, DetachedParts, LinkedParts DEF Detachment, Writes, Value
<1>5. Rewritten(t) \in Writes
  BY Zenon, <1>1, <1>2, InsertedTyped, ErasedParts, LinkedParts DEF Rewritten, Writes, Value
<1> QED
  BY Zenon, <1>3, <1>4, <1>5 DEF Result

LEMMA AsksTyped ==
    ASSUME TypeOK, NEW t \in Threads
    PROVE  /\ Asks(t).add \in SUBSET Edges
           /\ Asks(t).del \in SUBSET AllEdges
BY Zenon, GraphAssumption DEF Asks, TypeOK, Incident, AllEdges

LEMMA NeighborsTyped ==
    ASSUME NEW value \in Value
    PROVE  Neighbors(value) \in SUBSET Vertices
BY Zenon, PartsTyped DEF Neighbors, Ship

LEMMA EndsTyped ==
    ASSUME NEW edges \in SUBSET Edges
    PROVE  Ends(edges) \in SUBSET Vertices
BY GraphAssumption DEF Ends

TypeInv == TypeOK /\ \A t \in Threads : CallCovers(t)

LEMMA TypeInit == Init => TypeInv
<1> SUFFICES ASSUME Init PROVE TypeInv
  BY Zenon
<1>1. NoEntries \in Writes
  BY Zenon DEF NoEntries, Writes
<1>2. TypeOK
  BY Zenon, <1>1 DEF Init, TypeOK, Writes, Value, NoneAsked, Requests, Calls
<1>3. \A t \in Threads : CallCovers(t)
  BY Zenon DEF Init, CallCovers, Pulled, NoEntries
<1> QED
  BY Zenon, <1>2, <1>3 DEF TypeInv

\* A call that starts has read nothing and knows what it is going to read.
LEMMA StartsTyped ==
    ASSUME TypeInv, NEW t \in Threads, NEW name \in Calls,
           NEW edges \in SUBSET Edges, NEW vertices \in SUBSET Vertices,
           NEW reads \in SUBSET Vertices, Starts(t, name, edges, vertices, reads),
           name # "none",
           name \in {"upsert", "remove"} => reads = Ends(edges),
           name \in {"export", "erase"} =>
              reads = vertices /\ \E c \in Removable : vertices = {c}
    PROVE  TypeInv'
<1>1. TypeOK'
  BY DEF TypeInv, Starts, TypeOK, txn
<1>2. ASSUME NEW u \in Threads PROVE CallCovers(u)'
  <2>1. Pulled(u)' = Pulled(u)
    BY Zenon DEF Starts, Pulled
  <2>2. CASE u = t
    <3>1. Pulled(t) = {}
      BY Zenon DEF TypeInv, CallCovers, Starts
    <3> QED
      BY <2>1, <2>2, <3>1 DEF TypeInv, TypeOK, CallCovers, Starts
  <2>3. CASE u # t
    <3>1. CallCovers(u)
      BY Zenon DEF TypeInv
    <3> QED
      BY Zenon, <3>1, <2>1, <2>3 DEF TypeInv, TypeOK, CallCovers, Starts
  <2> QED
    BY Zenon, <2>2, <2>3
<1> QED
  BY Zenon, <1>1, <1>2 DEF TypeInv

\* A call that returns has nothing left to read.
LEMMA DoneTyped ==
    ASSUME TypeInv, NEW t \in Threads, Done(t),
           store' \in Values, changes' \in [Threads -> Writes],
           watched' = watched, stale' \in [Threads -> BOOLEAN],
           asked' \in [Threads -> Requests], calls' = calls
    PROVE  TypeInv'
<1>0. NoEntries \in Writes
  BY Zenon DEF NoEntries, Writes
<1>1. TypeOK'
  BY Zenon, <1>0 DEF TypeInv, Done, TypeOK, Values, Writes, Calls
<1>2. ASSUME NEW u \in Threads PROVE CallCovers(u)'
  <2>1. CASE u = t
    BY Zenon, <2>1 DEF Done, CallCovers, Pulled, NoEntries, TypeInv, TypeOK
  <2>2. CASE u # t
    <3>1. CallCovers(u) /\ Pulled(u)' = Pulled(u)
      BY Zenon, <2>2 DEF TypeInv, Done, Pulled, TypeOK
    <3> QED
      BY Zenon, <3>1, <2>2 DEF Done, CallCovers, TypeInv, TypeOK
  <2> QED
    BY Zenon, <2>1, <2>2
<1> QED
  BY Zenon, <1>1, <1>2 DEF TypeInv

LEMMA ReadTyped ==
    ASSUME TypeInv, NEW t \in Threads, Read(t)
    PROVE  TypeInv'
<1>1. PICK v \in todo[t] :
         /\ entries' = [entries EXCEPT ![t] = [@ EXCEPT ![v] = View(t)[v]]]
         /\ todo' = [todo EXCEPT ![t] = @ \ {v}]
         /\ watched' = IF t \in HeadThreads THEN watched
                       ELSE [watched EXCEPT ![t] = @ \cup {v}]
  BY Zenon DEF Read
<1>2. v \in Vertices /\ View(t)[v] \in Value /\ View(t)[v] # Unread
  BY ViewTyped, GraphAssumption DEF TypeInv, TypeOK, Values
<1>3. TypeOK'
  BY <1>1, <1>2 DEF TypeInv, TypeOK, Read
<1>4. ASSUME NEW u \in Threads PROVE CallCovers(u)'
  <2>0. CallCovers(u) /\ op' = op /\ batch' = batch /\ centers' = centers
    BY Zenon DEF TypeInv, Read
  <2>1. CASE u = t
    <3>1. Pulled(t)' = Pulled(t) \cup {v}
      BY Zenon, <1>1, <1>2 DEF Pulled, TypeInv, TypeOK
    <3>2. todo'[t] = todo[t] \ {v} /\ v \in todo[t]
      BY Zenon, <1>1 DEF TypeInv, TypeOK
    <3> QED
      BY Zenon, <2>0, <2>1, <3>1, <3>2 DEF CallCovers
  <2>2. CASE u # t
    <3>1. Pulled(u)' = Pulled(u) /\ todo'[u] = todo[u]
      BY Zenon, <1>1, <2>2 DEF Pulled, TypeInv, TypeOK
    <3> QED
      BY Zenon, <2>0, <3>1 DEF CallCovers
  <2> QED
    BY Zenon, <2>1, <2>2
<1> QED
  BY Zenon, <1>3, <1>4 DEF TypeInv

LEMMA ExportedTyped ==
    ASSUME TypeInv, NEW t \in Threads, Exported(t)
    PROVE  TypeInv'
<1>1. PICK v \in centers[t] :
         todo' = [todo EXCEPT ![t] = {v} \cup Neighbors(entries[t][v])]
  BY Zenon DEF Exported
<1>2. /\ v \in Vertices /\ entries[t][v] \in Value
      /\ \E c \in Removable : centers[t] = {c}
  BY DEF Exported, HasRead, TypeInv, TypeOK, CallCovers, Pulled
<1>3. Neighbors(entries[t][v]) \in SUBSET Vertices
  BY Zenon, <1>2, NeighborsTyped
<1>4. NoEntries \in Writes
  BY Zenon DEF NoEntries, Writes
<1>5. TypeOK'
  BY ZenonT(60), <1>1, <1>2, <1>3, <1>4 DEF Exported, TypeInv, TypeOK, txn, Writes, Calls
<1>6. ASSUME NEW u \in Threads PROVE CallCovers(u)'
  <2>1. CASE u = t
    BY <1>1, <1>2, <2>1 DEF CallCovers, Exported, Pulled, NoEntries, TypeInv, TypeOK
  <2>2. CASE u # t
    <3>1. CallCovers(u) /\ Pulled(u)' = Pulled(u) /\ todo'[u] = todo[u] /\ op'[u] = op[u]
      BY Zenon, <1>1, <2>2 DEF Exported, Pulled, TypeInv, TypeOK
    <3> QED
      BY Zenon, <3>1 DEF Exported, CallCovers
  <2> QED
    BY Zenon, <2>1, <2>2
<1> QED
  BY Zenon, <1>5, <1>6 DEF TypeInv

LEMMA WriteTyped ==
    ASSUME TypeInv, NEW t \in Threads, TxnWrite(t) \/ HeadWrite(t)
    PROVE  TypeInv'
<1> TypeOK
  BY Zenon DEF TypeInv
<1>1. Result(t) \in Writes
  BY Zenon, ResultTyped
<1>2. store \in Values /\ \A u \in Threads : changes[u] \in Writes
  BY Zenon DEF TypeOK, Values, Writes
<1>3. CASE TxnWrite(t)
  <2>1. Overlay(Result(t), changes[t]) \in Writes
    BY Zenon, <1>1, <1>2, OverlayTyped
  <2>2. changes' \in [Threads -> Writes]
    BY Zenon, <1>2, <1>3, <2>1 DEF TxnWrite, TypeOK, Writes
  <2>3. asked' \in [Threads -> Requests]
    BY Zenon, <1>3, AsksTyped DEF TxnWrite, TypeOK, Requests, AllEdges
  <2> QED
    BY Zenon, <1>2, <1>3, <2>2, <2>3, DoneTyped DEF TxnWrite, TypeOK
<1>4. CASE HeadWrite(t)
  <2>1. Overlay(Result(t), store) \in Values
    BY Zenon, <1>1, <1>2, OverlayTyped
  <2>2. stale' \in [Threads -> BOOLEAN]
    BY Zenon, <1>4 DEF HeadWrite, TypeOK
  <2> QED
    BY Zenon, <1>2, <1>4, <2>1, <2>2, DoneTyped DEF HeadWrite, Publish, TypeOK, Writes
<1> QED
  BY Zenon, <1>3, <1>4

LEMMA CloseTyped ==
    ASSUME TypeInv, NEW t \in Threads, Commit(t) \/ TxnFree(t)
    PROVE  TypeInv'
<1> TypeOK
  BY Zenon DEF TypeInv
<1>1. store \in Values /\ NoEntries \in Writes /\ \A u \in Threads : changes[u] \in Writes
  BY Zenon DEF TypeOK, Values, Writes, NoEntries
<1>2. Overlay(changes[t], store) \in Values
  BY Zenon, <1>1, OverlayTyped
<1>3. store' \in Values
  BY Zenon, <1>1, <1>2 DEF Commit, TxnFree, Publish
<1>4. stale' \in [Threads -> BOOLEAN]
  BY Zenon DEF Commit, TxnFree, TypeOK
<1>5. /\ changes' = [changes EXCEPT ![t] = NoEntries]
      /\ watched' = [watched EXCEPT ![t] = {}]
      /\ asked' = [asked EXCEPT ![t] = NoneAsked]
      /\ call' = call /\ calls' = calls
  BY Zenon DEF Commit, TxnFree, Closes, call
<1>6. TypeOK'
  BY Zenon, <1>1, <1>3, <1>4, <1>5 DEF TypeOK, Values, Writes, NoneAsked, Requests, call
<1>7. \A u \in Threads : CallCovers(u)'
  BY <1>5 DEF TypeInv, CallCovers, Pulled, call
<1> QED
  BY Zenon, <1>6, <1>7 DEF TypeInv

LEMMA TypeStep ==
    ASSUME TypeInv, [Next]_vars
    PROVE  TypeInv'
<1>1. ASSUME NEW t \in Threads, NEW edges \in EdgeBatches,
             UpsertEdges(t, edges) \/ RemoveEdges(t, edges)
      PROVE  TypeInv'
  BY <1>1, StartsTyped, EndsTyped, GraphAssumption DEF UpsertEdges, RemoveEdges, Calls
<1>2. ASSUME NEW t \in Threads, NEW vertices \in VertexBatches,
             UpsertVertices(t, vertices) \/ FindEdges(t, vertices)
      PROVE  TypeInv'
  BY Zenon, <1>2, StartsTyped, GraphAssumption DEF UpsertVertices, FindEdges, Calls
<1>3. ASSUME NEW t \in Threads, NEW v \in Removable, RemoveVertex(t, v)
      PROVE  TypeInv'
  BY <1>3, StartsTyped, GraphAssumption DEF RemoveVertex, Calls
<1>4. ASSUME NEW t \in Threads, Found(t) PROVE TypeInv'
  BY Zenon, <1>4, DoneTyped DEF Found, txn, TypeInv, TypeOK, Values, Writes
<1>5. ASSUME NEW t \in Threads, Read(t) PROVE TypeInv'
  BY Zenon, <1>5, ReadTyped
<1>6. ASSUME NEW t \in Threads, Exported(t) PROVE TypeInv'
  BY Zenon, <1>6, ExportedTyped
<1>7. ASSUME NEW t \in Threads, TxnWrite(t) \/ HeadWrite(t) PROVE TypeInv'
  BY Zenon, <1>7, WriteTyped
<1>8. ASSUME NEW t \in Threads, Commit(t) \/ TxnFree(t) PROVE TypeInv'
  BY Zenon, <1>8, CloseTyped
<1>9. CASE UNCHANGED vars
  BY Zenon, <1>9 DEF vars, TypeInv, TypeOK, CallCovers, Pulled
<1> QED
  BY Zenon, <1>1, <1>2, <1>3, <1>4, <1>5, <1>6, <1>7, <1>8, <1>9 DEF Next

\* The store, the transactions and the calls in flight keep their shape: a
\* call never looks for a value it has not read.
THEOREM GraphTypeCorrect == Spec => []TypeOK
<1>1. TypeInv /\ [Next]_vars => TypeInv'
  BY Zenon, TypeStep
<1>2. TypeInv => TypeOK
  BY Zenon DEF TypeInv
<1> QED
  BY <1>1, <1>2, TypeInit, PTL DEF Spec

-----------------------------------------------------------------------------
(* What the calls of a thread do to what it sees.                           *)

LEMMA NoChangesView ==
    ASSUME TypeOK, NEW t \in Threads, changes[t] = NoEntries
    PROVE  View(t) = store
BY Zenon DEF View, Overlay, NoEntries, TypeOK

\* Written back over what the thread saw, the result of a call is a symmetric
\* graph with the edges that were asked for.
LEMMA ResultEffect ==
    ASSUME LoopFree, TypeInv, NEW t \in Threads, Updates(t), Sees(t)
    PROVE  LET new == Overlay(Result(t), View(t))
           IN  /\ SymmetricIn(new)
               /\ EdgesIn(new) = (EdgesIn(View(t)) \ Asks(t).del) \cup Asks(t).add
<1> DEFINE new == Overlay(Result(t), View(t))
<1> TypeOK
  BY Zenon DEF TypeInv
<1>1. View(t) \in Values /\ Result(t) \in Writes /\ new \in Values
  BY Zenon, ViewTyped, ResultTyped, OverlayTyped
<1>2. /\ SymmetricIn(View(t))
      /\ \A v \in Pulled(t) : entries[t][v] = View(t)[v]
      /\ todo[t] = {}
  BY Zenon DEF Sees, Updates
<1>3. \A v \in Vertices : new[v] = IF Result(t)[v] = Unread THEN View(t)[v] ELSE Result(t)[v]
  BY Zenon DEF Overlay
<1>4. /\ batch[t] \in SUBSET Edges
      /\ \A v \in Vertices : v \in Pulled(t) <=> entries[t][v] # Unread
      /\ \A v \in Vertices : entries[t][v] \in Value \cup {Unread}
  BY Zenon DEF TypeOK, Pulled
<1> HIDE DEF new
<1>5. CASE op[t] \in {"upsert", "remove"}
  <2>1. Pulled(t) = Ends(batch[t])
    BY Zenon, <1>2, <1>5 DEF TypeInv, CallCovers
  <2>2. Result(t) = Rewritten(t)
    BY Zenon, <1>5 DEF Result
  <2>3. CASE op[t] = "upsert"
    <3>1. \A v \in Vertices : new[v] =
             IF v \in Ends(batch[t]) THEN Inserted(v, View(t)[v], batch[t]) ELSE View(t)[v]
      <4> SUFFICES ASSUME NEW v \in Vertices
                   PROVE  new[v] = IF v \in Ends(batch[t])
                             THEN Inserted(v, View(t)[v], batch[t]) ELSE View(t)[v]
        BY Zenon
      <4>1. Result(t)[v] = IF v \in Ends(batch[t])
               THEN Inserted(v, View(t)[v], batch[t]) ELSE Unread
        BY Zenon, <1>2, <1>4, <2>1, <2>2, <2>3 DEF Rewritten
      <4>2. Inserted(v, View(t)[v], batch[t]) # Unread
        BY SMTT(60), <1>1, <1>4, InsertedTyped, GraphAssumption DEF Values, Value
      <4> QED
        BY Zenon, <4>1, <4>2, <1>3
    <3>2. SymmetricIn(new) /\ EdgesIn(new) = EdgesIn(View(t)) \cup batch[t]
      BY <3>1, <1>1, <1>2, <1>4, UpsertEffect
    <3>3. Asks(t).add = batch[t] /\ Asks(t).del = {}
      BY Zenon, <2>3 DEF Asks
    <3> QED
      BY Zenon, <3>2, <3>3 DEF new
  <2>4. CASE op[t] = "remove"
    <3>1. \A v \in Vertices :
             IF v \in Ends(batch[t])
             THEN /\ Out(new[v]) = Out(View(t)[v]) \ ShipsOut(v, batch[t])
                  /\ In(new[v]) = In(View(t)[v]) \ ShipsIn(v, batch[t])
             ELSE new[v] = View(t)[v]
      <4>1. ASSUME NEW v \in Vertices, v \in Ends(batch[t])
            PROVE  /\ Out(new[v]) = Out(View(t)[v]) \ ShipsOut(v, batch[t])
                   /\ In(new[v]) = In(View(t)[v]) \ ShipsIn(v, batch[t])
        <5>1. entries[t][v] = View(t)[v] /\ entries[t][v] # Unread /\ entries[t][v] \in Value
          BY Zenon, <4>1, <1>2, <1>4, <2>1
        <5>2. Result(t)[v] = Erased(v, Linked(t, v), batch[t])
          BY Zenon, <5>1, <2>2, <2>4 DEF Rewritten
        <5>3. /\ Linked(t, v) \in Value
              /\ Out(Linked(t, v)) = Out(View(t)[v]) /\ In(Linked(t, v)) = In(View(t)[v])
          BY Zenon, <5>1, LinkedParts
        <5>4. /\ Result(t)[v] \in Value
              /\ Out(Result(t)[v]) = Out(View(t)[v]) \ ShipsOut(v, batch[t])
              /\ In(Result(t)[v]) = In(View(t)[v]) \ ShipsIn(v, batch[t])
          <6>1. PICK x \in Value : x = Linked(t, v)
            BY Zenon, <5>3
          <6>2. /\ Erased(v, x, batch[t]) \in Value
                /\ Out(Erased(v, x, batch[t])) = Out(x) \ ShipsOut(v, batch[t])
                /\ In(Erased(v, x, batch[t])) = In(x) \ ShipsIn(v, batch[t])
            BY SMTT(30), <1>4, ErasedParts
          <6> QED
            BY Zenon, <6>1, <6>2, <5>2, <5>3
        <5> QED
          BY Zenon, <5>4, <1>3, GraphAssumption
      <4>2. ASSUME NEW v \in Vertices, v \notin Ends(batch[t]) PROVE new[v] = View(t)[v]
        <5>1. Result(t)[v] = Unread
          BY Zenon, <4>2, <1>4, <2>1, <2>2 DEF Rewritten
        <5> QED
          BY Zenon, <5>1, <1>3
      <4> QED
        BY Zenon, <4>1, <4>2
    <3>2. SymmetricIn(new) /\ EdgesIn(new) = EdgesIn(View(t)) \ batch[t]
      BY <3>1, <1>1, <1>2, <1>4, RemoveEffect
    <3>3. Asks(t).add = {} /\ Asks(t).del = batch[t]
      BY Zenon, <2>4 DEF Asks
    <3> QED
      BY Zenon, <3>2, <3>3 DEF new
  <2> QED
    BY Zenon, <1>5, <2>3, <2>4
<1>6. CASE op[t] = "vertices"
  <2>1. \A v \in Vertices : \/ new[v] = View(t)[v]
                            \/ View(t)[v] = Missing /\ new[v] = Blank
    <3>1. Result(t) = Created(t)
      BY Zenon, <1>6 DEF Result
    <3> QED
      BY Zenon, <3>1, <1>2, <1>3, <1>4, GraphAssumption DEF Created, Value
  <2>2. SymmetricIn(new) /\ EdgesIn(new) = EdgesIn(View(t))
    BY Zenon, <2>1, <1>1, <1>2, CreateEffect
  <2>3. Asks(t).add = {} /\ Asks(t).del = {}
    BY Zenon, <1>6 DEF Asks
  <2> QED
    BY Zenon, <2>2, <2>3 DEF new
<1>7. CASE op[t] = "erase"
  <2>1. PICK c \in Removable : centers[t] = {c}
    BY Zenon, <1>7 DEF TypeInv, CallCovers
  <2>2. c \in Vertices /\ c \in Pulled(t) /\ entries[t][c] = View(t)[c]
    BY Zenon, <1>2, <1>7, <2>1, GraphAssumption DEF TypeInv, CallCovers
  <2>3. Neighbors(View(t)[c]) \subseteq Pulled(t)
    BY Zenon, <1>2, <1>7, <2>1 DEF Sees
  <2>4. c \notin Neighbors(View(t)[c])
    <3> SUFFICES ASSUME NEW s \in Out(View(t)[c]) \cup In(View(t)[c]), s[1] = c PROVE FALSE
      BY Zenon DEF Neighbors
    <3>1. PICK e \in EdgeIds : s = <<c, e>>
      BY <1>1, <2>2, PartsTyped DEF Values, Ship
    <3>2. <<c, e>> \in Out(View(t)[c])
      BY Zenon, <1>2, <2>2, <3>1 DEF SymmetricIn
    <3>3. <<c, c, e>> \in Edges
      BY Zenon, <2>2, <3>2, EdgeIsShip DEF Sees
    <3> QED
      BY Zenon, <3>3 DEF LoopFree
  <2>5. Visited(c, entries[t][c]) = Neighbors(View(t)[c])
    BY Zenon, <2>2, <2>4 DEF Visited
  <2>6. ASSUME NEW v \in Vertices
        PROVE  IF v = c THEN new[v] = Missing
               ELSE IF v \in Neighbors(View(t)[c])
               THEN /\ Out(new[v]) = {s \in Out(View(t)[v]) : s[1] # c}
                    /\ In(new[v]) = {s \in In(View(t)[v]) : s[1] # c}
               ELSE Out(new[v]) = Out(View(t)[v]) /\ In(new[v]) = In(View(t)[v])
    <3>1. Result(t) = Detachment(t)
      BY Zenon, <1>7 DEF Result
    <3>2. CASE v \notin Pulled(t)
      <4>1. Result(t)[v] = Unread
        BY Zenon, <3>1, <3>2, <1>4 DEF Detachment
      <4> QED
        BY Zenon, <4>1, <3>2, <1>3, <2>2, <2>3
    <3>3. CASE v \in Pulled(t)
      <4>1. entries[t][v] = View(t)[v] /\ entries[t][v] # Unread /\ entries[t][v] \in Value
        BY Zenon, <3>3, <1>2, <1>4
      <4>2. /\ Linked(t, v) \in Value
            /\ Out(Linked(t, v)) = Out(View(t)[v]) /\ In(Linked(t, v)) = In(View(t)[v])
        BY Zenon, <4>1, LinkedParts
      <4>3. Result(t)[v] = IF v = c THEN Missing
                           ELSE IF v \in Neighbors(View(t)[c]) THEN Detached({c}, Linked(t, v))
                           ELSE Linked(t, v)
        BY <3>1, <4>1, <2>1, <2>5 DEF Detachment
      <4>4. /\ Detached({c}, Linked(t, v)) \in Value
            /\ Out(Detached({c}, Linked(t, v))) = {s \in Out(View(t)[v]) : s[1] \notin {c}}
            /\ In(Detached({c}, Linked(t, v))) = {s \in In(View(t)[v]) : s[1] \notin {c}}
        <5>1. PICK x \in Value : x = Linked(t, v)
          BY Zenon, <4>2
        <5>2. PICK from \in SUBSET Vertices : from = {c}
          BY Zenon, <2>2
        <5>3. /\ Detached(from, x) \in Value
              /\ Out(Detached(from, x)) = {s \in Out(x) : s[1] \notin from}
              /\ In(Detached(from, x)) = {s \in In(x) : s[1] \notin from}
          BY Zenon, DetachedParts
        <5> QED
          BY Zenon, <5>1, <5>2, <5>3, <4>2
      <4>5. Missing # Unread /\ Detached({c}, Linked(t, v)) # Unread /\ Linked(t, v) # Unread
        BY Zenon, <4>2, <4>4, GraphAssumption DEF Value
      <4>6. new[v] = IF v = c THEN Missing
                     ELSE IF v \in Neighbors(View(t)[c]) THEN Detached({c}, Linked(t, v))
                     ELSE Linked(t, v)
        BY Zenon, <4>3, <4>5, <1>3
      <4> QED
        BY Zenon, <4>2, <4>4, <4>6
    <3> QED
      BY Zenon, <3>2, <3>3
  <2>7. SymmetricIn(new) /\ EdgesIn(new) = EdgesIn(View(t)) \ Incident({c})
    BY Zenon, <2>6, <1>1, <1>2, <2>2, DetachEffect
  <2>8. Asks(t).add = {} /\ Asks(t).del = Incident({c})
    BY Zenon, <1>7, <2>1 DEF Asks
  <2> QED
    BY Zenon, <2>7, <2>8 DEF new
<1> QED
  BY Zenon, <1>5, <1>6, <1>7 DEF Updates

\* What it writes, it has read.
LEMMA ResultPulled ==
    ASSUME TypeInv, NEW t \in Threads, NEW v \in Vertices, Result(t)[v] # Unread
    PROVE  v \in Pulled(t)
BY Zenon, GraphAssumption DEF Result, Created, Detachment, Rewritten, Pulled, Value

-----------------------------------------------------------------------------
(* Threads that do not move.                                                *)

Good(t) == Watches(t) /\ (Valid(t) => Sees(t))

\* The state of a thread other than whether it is stale.
Still(u) ==
    /\ changes'[u] = changes[u] /\ watched'[u] = watched[u] /\ asked'[u] = asked[u]
    /\ op'[u] = op[u] /\ centers'[u] = centers[u] /\ todo'[u] = todo[u]
    /\ entries'[u] = entries[u]

LEMMA ThreadFrame ==
    ASSUME NEW u \in Threads, Good(u), Still(u), store' = store, stale'[u] = stale[u]
    PROVE  Good(u)'
<1>1. View(u)' = View(u) /\ Pulled(u)' = Pulled(u)
  BY Zenon DEF View, Still, Overlay, Pulled
<1>2. Watches(u)' <=> Watches(u)
  BY Zenon, <1>1 DEF Watches, Still, NoEntries
<1>3. Sees(u)' <=> Sees(u)
  BY Zenon, <1>1 DEF Sees, Still, SymmetricIn, EdgesIn
<1> QED
  BY Zenon, <1>2, <1>3 DEF Good, Valid

\* What others publish does not reach a transaction that is still valid: it
\* watches all it has read or asked for.
LEMMA Published ==
    ASSUME GraphInv, NEW u \in Threads, NEW writes \in Writes, Still(u),
           store' = Overlay(writes, store), SymmetricIn(store'), EdgesIn(store') \subseteq Edges,
           stale'[u] = (stale[u] \/ Hit(u, writes)),
           u \in HeadThreads => op[u] = "none"
    PROVE  Good(u)'
<1> TypeOK
  BY Zenon DEF GraphInv
<1>0. CallCovers(u) /\ Watches(u) /\ (Valid(u) => Sees(u))
  BY Zenon DEF GraphInv
<1>1. Pulled(u)' = Pulled(u)
  BY Zenon DEF Still, Pulled
<1>2. Watches(u)'
  BY Zenon, <1>0, <1>1 DEF Watches, Still, NoEntries
<1>3. ASSUME u \in HeadThreads PROVE Sees(u)'
  <2>1. changes'[u] = NoEntries /\ op'[u] = "none" /\ Pulled(u)' = {}
    BY Zenon, <1>0, <1>1, <1>3 DEF Watches, CallCovers, Still
  <2>2. store' \in Values
    BY Zenon, OverlayTyped DEF TypeOK, Values
  <2>3. View(u)' = store'
    BY Zenon, <2>1, <2>2 DEF View, Overlay, NoEntries, Values
  <2> QED
    BY Zenon, <1>3, <2>1, <2>3 DEF Sees
<1>4. ASSUME u \notin HeadThreads, Valid(u)' PROVE Sees(u)'
  <2>1. Valid(u) /\ ~Hit(u, writes)
    BY Zenon, <1>4 DEF Valid, TypeOK
  <2>2. Sees(u) /\ SymmetricIn(store)
    BY Zenon, <1>0, <2>1 DEF GraphInv, Symmetric
  <2>3. /\ watched[u] \in SUBSET Vertices /\ store \in Values /\ changes[u] \in Writes
        /\ asked[u].add \in SUBSET Edges /\ asked[u].add \in SUBSET AllEdges
        /\ asked[u].del \in SUBSET AllEdges
    BY Zenon, GraphAssumption DEF TypeOK, Values, Writes, Requests, AllEdges
  <2>4. \A v \in watched[u] : writes[v] = Unread
    BY Zenon, <2>1 DEF Hit
  <2>5. /\ SymmetricIn(Overlay(changes[u], store))
        /\ EdgesIn(Overlay(changes[u], store)) = (EdgesIn(store) \ asked[u].del) \cup asked[u].add
    BY Zenon, <1>4, <2>2 DEF Sees, View
  <2>6. /\ \A v \in Vertices : changes[u][v] # Unread => v \in watched[u]
        /\ \A e \in asked[u].add : e[1] \in watched[u] /\ e[2] \in watched[u]
        /\ \A e \in asked[u].del : e[1] \in watched[u] \/ e[2] \in watched[u]
    BY Zenon, <1>0, <1>4 DEF Watches
  <2> DEFINE sees == Overlay(changes[u], store')
  <2>7. /\ SymmetricIn(sees)
        /\ EdgesIn(sees) = (EdgesIn(store') \ asked[u].del) \cup asked[u].add
        /\ \A v \in watched[u] : sees[v] = Overlay(changes[u], store)[v]
    <3> DEFINE own == changes[u]
               W == watched[u]
               add == asked[u].add
               del == asked[u].del
               base == store
    <3>1. /\ base \in Values /\ own \in Writes /\ W \in SUBSET Vertices
          /\ add \in SUBSET AllEdges /\ del \in SUBSET AllEdges
      BY Zenon, <2>3
    <3>2. Unaffected(base, own, writes, W, add, del)
      BY Zenon, <2>2, <2>4, <2>5, <2>6 DEF Unaffected
    <3> SUFFICES LET new == Overlay(writes, base)
                 IN  /\ SymmetricIn(Overlay(own, new))
                     /\ EdgesIn(Overlay(own, new)) = (EdgesIn(new) \ del) \cup add
                     /\ \A v \in W : Overlay(own, new)[v] = Overlay(own, base)[v]
      BY Zenon
    <3> HIDE DEF own, W, add, del, base
    <3> QED
      BY <3>1, <3>2, StableView
  <2>8. View(u)' = sees
    BY Zenon DEF View, Still, Overlay
  <2> HIDE DEF sees
  <2>9. EdgesIn(sees) \subseteq Edges
    BY Zenon, <2>3, <2>7
  <2>10. \A v \in watched[u] : sees[v] = View(u)[v]
    BY Zenon, <2>7 DEF View
  <2>11. \A v \in Pulled(u)' : entries'[u][v] = sees[v]
    BY Zenon, <1>0, <1>1, <1>4, <2>2, <2>10 DEF Watches, Sees, Still
  <2>12. op'[u] = "erase" => \A c \in centers'[u] : Neighbors(sees[c]) \subseteq Pulled(u)' \cup todo'[u]
    BY Zenon, <1>0, <1>1, <1>4, <2>2, <2>10 DEF Watches, Sees, Still
  <2> QED
    BY Zenon, <2>7, <2>8, <2>9, <2>11, <2>12 DEF Sees, Still
<1> QED
  BY Zenon, <1>2, <1>3, <1>4 DEF Good

-----------------------------------------------------------------------------
(* Steps.                                                                   *)

LEMMA InvParts ==
    ASSUME TypeInv', Symmetric', (EdgesIn(store) \subseteq Edges)', OneHeadCall',
           \A t \in Threads : Good(t)'
    PROVE  GraphInv'
BY Zenon DEF TypeInv, Good, GraphInv

LEMMA StartsKeeps ==
    ASSUME HeadAlone, GraphInv, TypeInv', NEW t \in Threads, NEW name, NEW edges, NEW vertices,
           NEW reads, Starts(t, name, edges, vertices, reads), name # "erase"
    PROVE  GraphInv'
<1> TypeOK
  BY Zenon DEF GraphInv
<1>1. OneHeadCall'
  BY Zenon, GraphAssumption DEF OneHeadCall, Starts, HeadBusy, TypeOK, GraphInv
<1>2. ASSUME NEW u \in Threads PROVE Good(u)'
  <2>1. Good(u) /\ CallCovers(u)
    BY Zenon DEF GraphInv, Good
  <2>2. CASE u = t
    <3>1. Pulled(t) = {} /\ Pulled(t)' = {} /\ View(t)' = View(t)
      BY Zenon, <2>1, <2>2 DEF CallCovers, Starts, Pulled, View, txn, Overlay
    <3>2. op'[t] = name
      BY Zenon DEF Starts, TypeOK
    <3>3. Watches(t)'
      BY Zenon, <2>1, <2>2, <3>1, <3>2 DEF Good, Watches, Starts, txn, NoEntries
    <3>4. Sees(t) => Sees(t)'
      BY Zenon, <3>1, <3>2 DEF Sees, Starts, txn, SymmetricIn, EdgesIn
    <3> QED
      BY Zenon, <2>1, <2>2, <3>3, <3>4 DEF Good, Valid, Starts, txn
  <2>3. CASE u # t
    <3>1. Still(u) /\ store' = store /\ stale'[u] = stale[u]
      BY Zenon, <2>3 DEF Starts, Still, txn, TypeOK
    <3> QED
      BY Zenon, <2>1, <3>1, ThreadFrame
  <2> QED
    BY Zenon, <2>2, <2>3
<1>3. Symmetric' /\ (EdgesIn(store) \subseteq Edges)'
  BY Zenon DEF Starts, GraphInv, Symmetric, SymmetricIn, EdgesIn
<1> QED
  BY Zenon, <1>1, <1>2, <1>3, InvParts

\* A call only reads on, returns without writing or goes to its second read.
LEMMA CallKeeps ==
    ASSUME HeadAlone, GraphInv, TypeInv', NEW t \in Threads,
           Read(t) \/ Found(t) \/ Exported(t)
    PROVE  GraphInv'
<1> TypeOK
  BY Zenon DEF GraphInv
<1>1. /\ store' = store /\ changes' = changes /\ stale' = stale /\ asked' = asked
      /\ \A u \in Threads \ {t} : Still(u)
  BY SMTT(60) DEF Read, Found, Exported, Done, Still, txn, TypeOK
<1>2. OneHeadCall'
  <2>1. \A u \in Threads : op'[u] # "none" => op[u] # "none"
    BY Zenon DEF Read, Found, Exported, Done, HasRead, TypeOK
  <2> QED
    BY Zenon, <2>1, GraphAssumption DEF OneHeadCall, GraphInv
<1>3. ASSUME NEW u \in Threads, u # t PROVE Good(u)'
  BY Zenon, <1>1, <1>3, ThreadFrame DEF GraphInv, Good
<1>4. Good(t)'
  <2>1. Good(t) /\ CallCovers(t)
    BY Zenon DEF GraphInv, Good
  <2>2. View(t)' = View(t) /\ (Valid(t)' <=> Valid(t))
    BY Zenon, <1>1 DEF View, Overlay, Valid
  <2>3. SymmetricIn(View(t)') <=> SymmetricIn(View(t))
    BY Zenon, <2>2 DEF SymmetricIn
  <2>4. EdgesIn(View(t)') = EdgesIn(View(t)) /\ EdgesIn(store') = EdgesIn(store)
    BY Zenon, <1>1, <2>2 DEF EdgesIn
  <2>5. CASE Read(t)
    <3>1. PICK v \in todo[t] :
             /\ entries' = [entries EXCEPT ![t] = [@ EXCEPT ![v] = View(t)[v]]]
             /\ todo' = [todo EXCEPT ![t] = @ \ {v}]
             /\ watched' = IF t \in HeadThreads THEN watched
                           ELSE [watched EXCEPT ![t] = @ \cup {v}]
      BY Zenon, <2>5 DEF Read
    <3>2. v \in Vertices /\ View(t)[v] # Unread
      BY ViewTyped, GraphAssumption DEF TypeOK, Values, Value
    <3>3. /\ Pulled(t)' = Pulled(t) \cup {v}
          /\ \A w \in Vertices : entries'[t][w] = IF w = v THEN View(t)[v] ELSE entries[t][w]
      BY Zenon, <3>1, <3>2 DEF Pulled, TypeOK
    <3>4. /\ todo'[t] = todo[t] \ {v} /\ op' = op /\ centers' = centers
          /\ watched'[t] = IF t \in HeadThreads THEN watched[t] ELSE watched[t] \cup {v}
      BY Zenon, <2>5, <3>1 DEF Read, TypeOK
    <3>5. Watches(t)'
      BY Zenon, <2>1, <1>1, <3>3, <3>4 DEF Good, Watches, NoEntries
    <3>6. Sees(t) => Sees(t)'
      <4>1. Sees(t) => \A w \in Pulled(t)' : entries'[t][w] = View(t)[w]
        BY Zenon, <3>2, <3>3 DEF Sees, Pulled
      <4> QED
        BY Zenon, <4>1, <1>1, <2>2, <2>3, <2>4, <3>3, <3>4 DEF Sees
    <3> QED
      BY Zenon, <2>1, <2>2, <3>5, <3>6 DEF Good
  <2>6. CASE Found(t)
    <3>1. Pulled(t)' = {} /\ op'[t] = "none" /\ watched' = watched
      BY <2>6 DEF Found, Done, Pulled, NoEntries, txn, TypeOK
    <3>2. Watches(t)'
      BY Zenon, <2>1, <1>1, <3>1 DEF Good, Watches, NoEntries
    <3>3. Sees(t) => Sees(t)'
      BY Zenon, <1>1, <2>2, <2>3, <2>4, <3>1 DEF Sees
    <3> QED
      BY Zenon, <2>1, <2>2, <3>2, <3>3 DEF Good
  <2>7. CASE Exported(t)
    <3>1. PICK v \in centers[t] :
             todo' = [todo EXCEPT ![t] = {v} \cup Neighbors(entries[t][v])]
      BY Zenon, <2>7 DEF Exported
    <3>2. /\ Pulled(t)' = {} /\ op'[t] = "erase" /\ watched' = watched /\ centers' = centers
          /\ todo'[t] = {v} \cup Neighbors(entries[t][v])
      BY Zenon, <2>7, <3>1 DEF Exported, Pulled, NoEntries, txn, TypeOK
    <3>3. centers[t] = {v} /\ v \in Pulled(t)
      BY Zenon, <2>1, <2>7 DEF CallCovers, Exported, HasRead
    <3>4. Watches(t)'
      BY Zenon, <2>1, <1>1, <3>2, <3>3 DEF Good, Watches, NoEntries
    <3>5. Sees(t) => Sees(t)'
      <4>1. Sees(t) => entries[t][v] = View(t)[v]
        BY Zenon, <3>3 DEF Sees
      <4> QED
        BY Zenon, <4>1, <1>1, <2>2, <2>3, <2>4, <3>2, <3>3 DEF Sees
    <3> QED
      BY Zenon, <2>1, <2>2, <3>4, <3>5 DEF Good
  <2> QED
    BY Zenon, <2>5, <2>6, <2>7
<1>5. Symmetric' /\ (EdgesIn(store) \subseteq Edges)'
  BY Zenon, <1>1 DEF GraphInv, Symmetric, SymmetricIn, EdgesIn
<1> QED
  BY Zenon, <1>2, <1>3, <1>4, <1>5, InvParts

LEMMA TxnWriteKeeps ==
    ASSUME HeadAlone, LoopFree, GraphInv, TypeInv', NEW t \in Threads, TxnWrite(t)
    PROVE  GraphInv'
<1> TypeOK
  BY Zenon DEF GraphInv
<1> TypeInv
  BY Zenon DEF GraphInv, TypeInv
<1>0. \A u \in Threads \ {t} : Still(u)
  BY Zenon DEF TxnWrite, Done, Still, TypeOK
<1>1. /\ store' = store /\ stale' = stale /\ watched' = watched /\ Done(t)
      /\ t \notin HeadThreads /\ Updates(t)
  BY Zenon DEF TxnWrite
<1>2. OneHeadCall'
  <2>1. \A u \in Threads : op'[u] # "none" => op[u] # "none"
    BY Zenon, <1>1 DEF Done, TypeOK
  <2> QED
    BY Zenon, <2>1, GraphAssumption DEF OneHeadCall, GraphInv
<1>3. ASSUME NEW u \in Threads, u # t PROVE Good(u)'
  BY Zenon, <1>0, <1>1, <1>3, ThreadFrame DEF GraphInv, Good
<1>4. Good(t)'
  <2>1. CallCovers(t) /\ Watches(t) /\ (Valid(t) => Sees(t))
    BY Zenon DEF GraphInv
  <2>2. /\ changes'[t] = Overlay(Result(t), changes[t])
        /\ asked'[t].add = (asked[t].add \ Asks(t).del) \cup Asks(t).add
        /\ asked'[t].del = asked[t].del \cup Asks(t).del
        /\ op'[t] = "none" /\ Pulled(t)' = {}
    BY Zenon DEF TxnWrite, Done, Pulled, NoEntries, TypeOK
  <2>3. Watches(t)'
    <3>1. Pulled(t) \subseteq watched[t] /\ todo[t] = {}
      BY Zenon, <1>1, <2>1 DEF Watches, Updates
    <3>2. \A v \in Vertices : changes'[t][v] # Unread => v \in watched[t]
      BY Zenon, <1>1, <2>1, <2>2, <3>1, ResultPulled DEF Overlay, Watches
    <3>3. \A e \in Asks(t).add : e[1] \in watched[t] /\ e[2] \in watched[t]
      <4>1. Asks(t).add = IF op[t] = "upsert" THEN batch[t] ELSE {}
        BY Zenon DEF Asks
      <4>2. op[t] = "upsert" => Ends(batch[t]) \subseteq watched[t]
        BY Zenon, <2>1, <3>1 DEF CallCovers
      <4> QED
        BY Zenon, <4>1, <4>2 DEF Ends
    <3>4. \A e \in Asks(t).del : e[1] \in watched[t] \/ e[2] \in watched[t]
      <4>1. Asks(t).del = IF op[t] = "erase" THEN Incident(centers[t])
                          ELSE IF op[t] = "remove" THEN batch[t] ELSE {}
        BY Zenon DEF Asks
      <4>2. /\ op[t] = "remove" => Ends(batch[t]) \subseteq watched[t]
            /\ op[t] = "erase" => centers[t] \subseteq watched[t]
        BY Zenon, <1>1, <2>1, <3>1 DEF CallCovers, Watches
      <4> QED
        BY Zenon, <4>1, <4>2 DEF Ends, Incident
    <3>5. /\ \A e \in asked'[t].add : e[1] \in watched[t] /\ e[2] \in watched[t]
          /\ \A e \in asked'[t].del : e[1] \in watched[t] \/ e[2] \in watched[t]
      BY Zenon, <1>1, <2>1, <2>2, <3>3, <3>4 DEF Watches
    <3> QED
      BY Zenon, <1>1, <2>2, <3>2, <3>5 DEF Watches
  <2>4. ASSUME Sees(t) PROVE Sees(t)'
    <3> DEFINE new == Overlay(Result(t), View(t))
    <3>1. View(t)' = new
      <4>1. Result(t) \in Writes /\ changes[t] \in Writes /\ store \in Values
        BY Zenon, ResultTyped DEF TypeOK, Writes, Values
      <4>2. Overlay(Overlay(Result(t), changes[t]), store) = new
        BY Zenon, <4>1, OverlayTwice DEF View
      <4>3. View(t)' = Overlay(changes'[t], store)
        BY Zenon, <1>1 DEF View, Overlay
      <4> QED
        BY Zenon, <2>2, <4>2, <4>3
    <3>2. /\ SymmetricIn(new)
          /\ EdgesIn(new) = (EdgesIn(View(t)) \ Asks(t).del) \cup Asks(t).add
      BY Zenon, <1>1, <2>4, ResultEffect
    <3>3. /\ EdgesIn(View(t)) = (EdgesIn(store) \ asked[t].del) \cup asked[t].add
          /\ EdgesIn(View(t)) \subseteq Edges
      BY Zenon, <1>1, <2>4 DEF Sees
    <3> HIDE DEF new
    <3>4. EdgesIn(new) \subseteq Edges
      BY Zenon, <3>2, <3>3, AsksTyped
    <3>5. EdgesIn(new) = (EdgesIn(store) \ asked'[t].del) \cup asked'[t].add
      BY Zenon, <2>2, <3>2, <3>3
    <3> QED
      BY Zenon, <1>1, <2>2, <3>1, <3>2, <3>4, <3>5 DEF Sees
  <2> QED
    BY Zenon, <1>1, <2>1, <2>3, <2>4 DEF Good, Valid
<1>5. Symmetric' /\ (EdgesIn(store) \subseteq Edges)'
  BY Zenon, <1>1 DEF GraphInv, Symmetric, SymmetricIn, EdgesIn
<1> QED
  BY Zenon, <1>2, <1>3, <1>4, <1>5, InvParts

LEMMA HeadWriteKeeps ==
    ASSUME HeadAlone, LoopFree, GraphInv, TypeInv', NEW t \in Threads, HeadWrite(t)
    PROVE  GraphInv' /\ Applies(Asks(t))
<1> TypeOK
  BY Zenon DEF GraphInv
<1> TypeInv
  BY Zenon DEF GraphInv, TypeInv
<1>0. \A u \in Threads \ {t} : Still(u)
  BY Zenon DEF HeadWrite, Done, Still, TypeOK
<1>1. /\ store' = Overlay(Result(t), store) /\ Done(t)
      /\ t \in HeadThreads /\ Updates(t)
      /\ changes' = changes /\ watched' = watched /\ asked' = asked
  BY Zenon DEF HeadWrite, Publish
<1>2. CallCovers(t) /\ Watches(t) /\ Sees(t) /\ View(t) = store
  BY Zenon, <1>1, NoChangesView DEF GraphInv, Valid, Watches
<1>3. /\ SymmetricIn(store')
      /\ EdgesIn(store') = (EdgesIn(store) \ Asks(t).del) \cup Asks(t).add
  <2>1. LET new == Overlay(Result(t), View(t))
        IN  /\ SymmetricIn(new)
            /\ EdgesIn(new) = (EdgesIn(View(t)) \ Asks(t).del) \cup Asks(t).add
    BY Zenon, <1>1, <1>2, ResultEffect
  <2> QED
    BY Zenon, <1>1, <1>2, <2>1
<1>4. EdgesIn(store') \subseteq Edges
  BY Zenon, <1>3, AsksTyped DEF GraphInv
<1>5. OneHeadCall'
  <2>1. \A u \in Threads : op'[u] # "none" => op[u] # "none"
    BY Zenon, <1>1 DEF Done, TypeOK
  <2> QED
    BY Zenon, <2>1, GraphAssumption DEF OneHeadCall, GraphInv
<1>6. ASSUME NEW u \in Threads, u # t PROVE Good(u)'
  <2>1. u \in HeadThreads => op[u] = "none"
    BY Zenon, <1>1, <1>6 DEF OneHeadCall, GraphInv, Updates
  <2>2. Still(u) /\ Result(t) \in Writes
    BY Zenon, <1>0, <1>6, ResultTyped
  <2>3. stale'[u] = (stale[u] \/ Hit(u, Result(t)))
    BY Zenon DEF HeadWrite
  <2> QED
    BY Zenon, <1>1, <1>3, <1>4, <2>1, <2>2, <2>3, Published
<1>7. Good(t)'
  <2>1. op'[t] = "none" /\ Pulled(t)' = {} /\ changes'[t] = NoEntries
    BY Zenon, <1>1, <1>2 DEF Done, Pulled, NoEntries, TypeOK, Watches
  <2>2. View(t)' = store'
    BY Zenon, <1>1, <2>1 DEF View, Overlay, NoEntries
  <2> QED
    BY Zenon, <1>1, <1>2, <1>3, <1>4, <2>1, <2>2 DEF Good, Watches, Sees, NoEntries
<1>8. GraphInv'
  BY Zenon, <1>3, <1>4, <1>5, <1>6, <1>7, InvParts DEF Symmetric
<1> QED
  BY Zenon, <1>3, <1>8 DEF Applies

LEMMA CloseKeeps ==
    ASSUME HeadAlone, GraphInv, TypeInv', NEW t \in Threads, Commit(t) \/ TxnFree(t)
    PROVE  GraphInv' /\ (Commit(t) => Applies(asked[t]))
<1> TypeOK
  BY Zenon DEF GraphInv
<1>0. \A u \in Threads \ {t} : Still(u)
  BY Zenon DEF Commit, TxnFree, Closes, Still, call, TypeOK
<1>1. t \notin HeadThreads /\ op[t] = "none"
  BY Zenon DEF Commit, TxnFree, InTxn
<1>2. changes'[t] = NoEntries /\ watched'[t] = {} /\ asked'[t] = NoneAsked
  BY Zenon DEF Commit, TxnFree, Closes, TypeOK
<1>3. op' = op /\ entries' = entries
  BY Zenon DEF Commit, TxnFree, call
<1>4. ASSUME SymmetricIn(store'), EdgesIn(store') \subseteq Edges, store' \in Values
      PROVE  Good(t)'
  <2>1. View(t)' = store'
    BY Zenon, <1>2, <1>4 DEF View, Overlay, NoEntries, Values
  <2>2. asked'[t].add = {} /\ asked'[t].del = {}
    BY <1>2 DEF NoneAsked
  <2>3. EdgesIn(store') = (EdgesIn(store') \ asked'[t].del) \cup asked'[t].add
    BY Zenon, <2>2
  <2>4. CallCovers(t)
    BY Zenon DEF GraphInv
  <2>5. Pulled(t)' = {} /\ op'[t] = "none"
    BY Zenon, <1>1, <1>3, <2>4 DEF CallCovers, Pulled
  <2>6. \A v \in Vertices : changes'[t][v] = Unread
    BY Zenon, <1>2 DEF NoEntries
  <2>7. Watches(t)'
    BY Zenon, <1>1, <2>2, <2>5, <2>6 DEF Watches
  <2>8. Sees(t)'
    BY Zenon, <1>4, <2>1, <2>3, <2>5 DEF Sees
  <2> QED
    BY Zenon, <2>7, <2>8 DEF Good
<1>5. store \in Values /\ changes[t] \in Writes
  BY Zenon DEF TypeOK, Values, Writes
<1>6. OneHeadCall'
  BY Zenon, <1>3 DEF GraphInv, OneHeadCall
<1>7. CASE Commit(t)
  <2>1. /\ store' = Overlay(changes[t], store) /\ ~stale[t] /\ ~HeadBusy
        /\ \A u \in Threads : stale'[u] = (u # t /\ (stale[u] \/ Hit(u, changes[t])))
    BY Zenon, <1>7 DEF Commit, Publish
  <2>2. Sees(t) /\ store' = View(t)
    BY Zenon, <1>1, <2>1 DEF GraphInv, Valid, View
  <2>3. /\ SymmetricIn(store') /\ EdgesIn(store') \subseteq Edges
        /\ EdgesIn(store') = (EdgesIn(store) \ asked[t].del) \cup asked[t].add
    BY Zenon, <1>1, <2>2 DEF Sees
  <2>4. store' \in Values
    BY Zenon, <1>5, <2>1, OverlayTyped
  <2>5. ASSUME NEW u \in Threads, u # t PROVE Good(u)'
    <3>1. u \in HeadThreads => op[u] = "none"
      BY Zenon, <2>1 DEF HeadBusy
    <3>2. Still(u) /\ stale'[u] = (stale[u] \/ Hit(u, changes[t]))
      BY Zenon, <1>0, <2>1, <2>5 DEF TypeOK
    <3> QED
      BY Zenon, <1>5, <2>1, <2>3, <3>1, <3>2, Published
  <2>6. GraphInv'
    BY Zenon, <1>4, <1>6, <2>3, <2>4, <2>5, InvParts DEF Symmetric
  <2> QED
    BY Zenon, <2>3, <2>6 DEF Applies
<1>8. ASSUME TxnFree(t) PROVE GraphInv'
  <2>1. store' = store /\ \A u \in Threads \ {t} : stale'[u] = stale[u]
    BY Zenon, <1>8 DEF TxnFree, TypeOK
  <2>2. SymmetricIn(store') /\ EdgesIn(store') \subseteq Edges
    BY Zenon, <2>1 DEF GraphInv, Symmetric
  <2>3. ASSUME NEW u \in Threads, u # t PROVE Good(u)'
    BY Zenon, <1>0, <2>1, <2>3, ThreadFrame DEF GraphInv, Good
  <2> QED
    BY Zenon, <1>4, <1>6, <1>5, <2>1, <2>2, <2>3, InvParts DEF Symmetric
<1> QED
  BY Zenon, <1>7, <1>8

LEMMA GraphInit == Init => GraphInv
<1> SUFFICES ASSUME Init PROVE GraphInv
  BY Zenon
<1>1. TypeInv
  BY Zenon, TypeInit
<1>2. \A v \in Vertices : Out(store[v]) = {} /\ In(store[v]) = {}
  BY Zenon DEF Init, Out, In
<1>3. Symmetric /\ EdgesIn(store) = {}
  <2>1. EdgesIn(store) = {}
    BY Zenon, <1>2 DEF EdgesIn, AllEdges
  <2> QED
    BY Zenon, <1>2, <2>1 DEF Symmetric, SymmetricIn
<1>4. OneHeadCall
  BY Zenon, GraphAssumption DEF Init, OneHeadCall
<1>5. ASSUME NEW t \in Threads PROVE Good(t)
  <2>1. View(t) = store /\ Pulled(t) = {} /\ op[t] = "none"
    BY Zenon, <1>1, NoChangesView DEF Init, Pulled, NoEntries, TypeInv
  <2> QED
    BY Zenon, <1>3, <2>1 DEF Init, Good, Watches, Sees, Symmetric, NoEntries, NoneAsked
<1> QED
  BY Zenon, <1>1, <1>3, <1>4, <1>5 DEF GraphInv, TypeInv, Good

\* The step of the action property.
AsAsked == \A t \in Threads :
    /\ Commit(t) => Applies(asked[t])
    /\ HeadWrite(t) => Applies(Asks(t))

LEMMA GraphStep ==
    ASSUME HeadAlone, LoopFree, GraphInv, [Next]_vars
    PROVE  GraphInv' /\ AsAsked
<1>0. TypeInv'
  BY Zenon, TypeStep DEF GraphInv, TypeInv
<1>1. ASSUME NEW t \in Threads, NEW edges \in EdgeBatches,
             UpsertEdges(t, edges) \/ RemoveEdges(t, edges)
      PROVE  GraphInv'
  BY Zenon, <1>0, <1>1, StartsKeeps DEF UpsertEdges, RemoveEdges
<1>2. ASSUME NEW t \in Threads, NEW vertices \in VertexBatches,
             UpsertVertices(t, vertices) \/ FindEdges(t, vertices)
      PROVE  GraphInv'
  BY Zenon, <1>0, <1>2, StartsKeeps DEF UpsertVertices, FindEdges
<1>3. ASSUME NEW t \in Threads, NEW v \in Removable, RemoveVertex(t, v)
      PROVE  GraphInv'
  BY Zenon, <1>0, <1>3, StartsKeeps DEF RemoveVertex
<1>4. ASSUME NEW t \in Threads, Read(t) \/ Found(t) \/ Exported(t)
      PROVE  GraphInv'
  BY Zenon, <1>0, <1>4, CallKeeps
<1>5. ASSUME NEW t \in Threads, TxnWrite(t) \/ HeadWrite(t) PROVE GraphInv'
  BY Zenon, <1>0, <1>5, TxnWriteKeeps, HeadWriteKeeps
<1>6. ASSUME NEW t \in Threads, Commit(t) \/ TxnFree(t) PROVE GraphInv'
  BY Zenon, <1>0, <1>6, CloseKeeps
<1>7. ASSUME UNCHANGED vars PROVE GraphInv'
  <2>1. \A t \in Threads : Still(t) /\ store' = store /\ stale'[t] = stale[t]
    BY Zenon, <1>7 DEF vars, Still
  <2>2. \A t \in Threads : Good(t)'
    BY Zenon, <2>1, ThreadFrame DEF GraphInv, Good
  <2>3. OneHeadCall' /\ Symmetric' /\ (EdgesIn(store) \subseteq Edges)'
    BY Zenon, <1>7 DEF vars, OneHeadCall, Symmetric, SymmetricIn, EdgesIn, GraphInv
  <2> QED
    BY Zenon, <1>0, <2>2, <2>3, InvParts
<1>8. GraphInv'
  BY Zenon, <1>1, <1>2, <1>3, <1>4, <1>5, <1>6, <1>7 DEF Next
<1>9. AsAsked
  BY Zenon, <1>0, HeadWriteKeeps, CloseKeeps DEF AsAsked
<1> QED
  BY Zenon, <1>8, <1>9

\* Both ends of an edge know it or none does, whatever the interleaving of
\* reads, writes and commits (update_neighborhoods, remove_vertices), as long
\* as calls outside transactions are alone and no vertex with a loop is removed.
THEOREM GraphSymmetric == HeadAlone /\ LoopFree => (Spec => []Symmetric)
<1> SUFFICES ASSUME HeadAlone /\ LoopFree PROVE Spec => []Symmetric
  BY Zenon
<1>1. GraphInv /\ [Next]_vars => GraphInv'
  BY Zenon, GraphStep
<1>2. GraphInv => Symmetric
  BY Zenon DEF GraphInv
<1> QED
  BY GraphInit, <1>1, <1>2, PTL DEF Spec

\* Under the same assumptions a commit changes the edges of the graph by
\* exactly what the calls of its transaction asked for, and a call outside
\* transactions by what it was asked for: no update is lost.
THEOREM GraphChangesAsAsked == HeadAlone /\ LoopFree => (Spec => ChangesAsAsked)
<1> SUFFICES ASSUME HeadAlone /\ LoopFree PROVE Spec => ChangesAsAsked
  BY Zenon
<1>1. GraphInv /\ [Next]_vars => GraphInv'
  BY Zenon, GraphStep
<1>2. GraphInv /\ [Next]_vars => [AsAsked]_vars
  BY Zenon, GraphStep
<1>3. ChangesAsAsked <=> [][AsAsked]_vars
  BY PTL DEF ChangesAsAsked, AsAsked
<1> QED
  BY GraphInit, <1>1, <1>2, <1>3, PTL DEF Spec

-----------------------------------------------------------------------------
(* Looking up the edges of a vertex.                                        *)

\* What is found one to one is counted alike.
LEMMA SameCount ==
    ASSUME NEW S, NEW T, IsFiniteSet(S), NEW f \in [T -> S],
           \A x, y \in T : f[x] = f[y] => x = y,
           \A s \in S : \E x \in T : f[x] = s
    PROVE  IsFiniteSet(T) /\ Cardinality(T) = Cardinality(S)
<1>1. f \in Injection(T, S) /\ f \in Surjection(T, S)
  BY Zenon DEF Injection, Surjection, IsInjective
<1> QED
  BY Zenon, <1>1, FS_Injection

\* The incoming relations that are listed.
Listed(v, value) == {r \in In(value) : ~(r[1] = v /\ HasLoop(v, value))}

\* Neither part of the list repeats a relation: it is as long as the relations
\* it is made of.
LEMMA TuplesCount ==
    ASSUME NEW v \in Vertices, NEW value \in Value,
           IsFiniteSet(TuplesOut(v, value)), IsFiniteSet(TuplesIn(v, value))
    PROVE  /\ IsFiniteSet(Out(value)) /\ IsFiniteSet(Listed(v, value))
           /\ Cardinality(Out(value)) = Cardinality(TuplesOut(v, value))
           /\ Cardinality(Listed(v, value)) = Cardinality(TuplesIn(v, value))
<1> DEFINE listed == Listed(v, value)
           outs == [s \in Out(value) |-> <<v, s[1], s[2]>>]
           ins == [s \in listed |-> <<s[1], v, s[2]>>]
<1>1. Out(value) \subseteq Vertices \X EdgeIds /\ listed \subseteq Vertices \X EdgeIds
  BY Zenon, PartsTyped DEF Ship, Listed
<1>2. /\ outs \in [Out(value) -> TuplesOut(v, value)]
      /\ ins \in [listed -> TuplesIn(v, value)]
  BY Zenon DEF TuplesOut, TuplesIn, Listed
<1>3. \A x, y \in Out(value) : outs[x] = outs[y] => x = y
  BY <1>1
<1>4. \A x, y \in listed : ins[x] = ins[y] => x = y
  BY <1>1
<1>5. /\ \A e \in TuplesOut(v, value) : \E x \in Out(value) : outs[x] = e
      /\ \A e \in TuplesIn(v, value) : \E x \in listed : ins[x] = e
  BY Zenon DEF TuplesOut, TuplesIn, Listed
<1> HIDE DEF listed, outs, ins
<1>6. IsFiniteSet(Out(value)) /\ Cardinality(Out(value)) = Cardinality(TuplesOut(v, value))
  BY Zenon, <1>2, <1>3, <1>5, SameCount
<1>7. IsFiniteSet(listed) /\ Cardinality(listed) = Cardinality(TuplesIn(v, value))
  BY ZenonT(60), <1>2, <1>4, <1>5, SameCount
<1> QED
  BY Zenon, <1>6, <1>7 DEF listed

\* In a symmetric graph the two parts of the list are the edges of the vertex.
LEMMA TuplesAreEdges ==
    ASSUME NEW values \in Values, SymmetricIn(values), NEW v \in Vertices
    PROVE  /\ TuplesOut(v, values[v]) \cap TuplesIn(v, values[v]) = {}
           /\ TuplesOut(v, values[v]) \cup TuplesIn(v, values[v])
                = EdgesIn(values) \cap Incident({v})
<1> DEFINE outs == TuplesOut(v, values[v])
           ins == TuplesIn(v, values[v])
           edges == EdgesIn(values) \cap Incident({v})
<1>1. values[v] \in Value
  BY Zenon DEF Values
<1>2. Out(values[v]) \subseteq Vertices \X EdgeIds /\ In(values[v]) \subseteq Vertices \X EdgeIds
  BY Zenon, <1>1, PartsTyped DEF Ship
<1>3. /\ outs \in SUBSET AllEdges /\ ins \in SUBSET AllEdges
      /\ edges \in SUBSET AllEdges
  <2>1. outs \in SUBSET AllEdges
    BY <1>2 DEF TuplesOut, AllEdges
  <2>2. ins \in SUBSET AllEdges
    BY <1>2 DEF TuplesIn, AllEdges
  <2> QED
    BY Zenon, <2>1, <2>2, EdgesTyped
<1>4. ASSUME NEW u \in Vertices, NEW w \in Vertices, NEW e \in EdgeIds
      PROVE  /\ <<u, w, e>> \in outs <=> u = v /\ <<w, e>> \in Out(values[v])
             /\ <<u, w, e>> \in ins <=>
                   /\ w = v /\ <<u, e>> \in In(values[v])
                   /\ ~(u = v /\ HasLoop(v, values[v]))
             /\ <<u, w, e>> \in edges <=>
                   <<w, e>> \in Out(values[u]) /\ (u = v \/ w = v)
  <2>1. <<u, w, e>> \in outs <=> u = v /\ <<w, e>> \in Out(values[v])
    BY <1>2 DEF TuplesOut
  <2>2. <<u, w, e>> \in ins <=>
           /\ w = v /\ <<u, e>> \in In(values[v])
           /\ ~(u = v /\ HasLoop(v, values[v]))
    <3> DEFINE loop == HasLoop(v, values[v])
    <3> HIDE DEF loop
    <3>1. ins = {<<s[1], v, s[2]>> : s \in {r \in In(values[v]) : ~(r[1] = v /\ loop)}}
      BY Zenon DEF TuplesIn, loop
    <3> HIDE DEF ins
    <3>2. <<u, w, e>> \in ins <=> w = v /\ <<u, e>> \in In(values[v]) /\ ~(u = v /\ loop)
      BY <1>2, <3>1
    <3> QED
      BY Zenon, <3>2 DEF loop
  <2>3. <<u, w, e>> \in edges <=> <<w, e>> \in Out(values[u]) /\ (u = v \/ w = v)
    BY Zenon, EdgeIsShip, IncidentEdge
  <2> QED
    BY Zenon, <2>1, <2>2, <2>3
<1>5. \A e \in EdgeIds : <<v, e>> \in Out(values[v]) => HasLoop(v, values[v])
  BY DEF HasLoop
<1>6. ASSUME NEW u \in Vertices, NEW w \in Vertices, NEW e \in EdgeIds
      PROVE  /\ ~(<<u, w, e>> \in outs /\ <<u, w, e>> \in ins)
             /\ <<u, w, e>> \in outs \cup ins <=> <<u, w, e>> \in edges
  <2>1. <<w, e>> \in Out(values[u]) <=> <<u, e>> \in In(values[w])
    BY Zenon DEF SymmetricIn
  <2> HIDE DEF outs, ins, edges
  <2> QED
    BY Zenon, <1>4, <1>5, <2>1
<1>7. outs \cup ins = edges
  <2> HIDE DEF outs, ins, edges
  <2>1. outs \cup ins \in SUBSET AllEdges
    BY Zenon, <1>3
  <2>2. \A u, w \in Vertices, e \in EdgeIds : <<u, w, e>> \in outs \cup ins <=> <<u, w, e>> \in edges
    BY Zenon, <1>6
  <2> QED
    BY Zenon, <1>3, <2>1, <2>2, SameEdges
<1>8. outs \cap ins = {}
  <2> HIDE DEF outs, ins, edges
  <2> SUFFICES ASSUME NEW d \in outs, d \in ins PROVE FALSE
    BY Zenon
  <2>1. d \in AllEdges
    BY Zenon, <1>3
  <2>2. \E u, w \in Vertices, e \in EdgeIds : d = <<u, w, e>>
    BY <2>1 DEF AllEdges
  <2> QED
    BY Zenon, <1>6, <2>2
<1> QED
  BY Zenon, <1>7, <1>8

LEMMA DegreeCounts ==
    ASSUME NEW values \in Values, SymmetricIn(values), NEW v \in Vertices,
           IsFiniteSet(EdgesIn(values))
    PROVE  Degree(v, values[v]) = Cardinality(EdgesIn(values) \cap Incident({v}))
<1> DEFINE value == values[v]
           outs == TuplesOut(v, value)
           ins == TuplesIn(v, value)
           edges == EdgesIn(values) \cap Incident({v})
           listed == Listed(v, value)
           loops == {r \in In(value) : r[1] = v /\ HasLoop(v, value)}
<1>1. outs \cap ins = {} /\ outs \cup ins = edges
  BY Zenon, TuplesAreEdges
<1>2. value \in Value
  BY Zenon DEF Values
<1>3. IsFiniteSet(edges)
  BY Zenon, FS_Subset
<1> HIDE DEF outs, ins, edges
<1>4. IsFiniteSet(outs) /\ IsFiniteSet(ins)
  <2>1. outs \in SUBSET edges /\ ins \in SUBSET edges
    BY Zenon, <1>1
  <2> QED
    BY Zenon, <1>3, <2>1, FS_Subset
<1>5. /\ IsFiniteSet(Out(value)) /\ IsFiniteSet(listed)
      /\ Cardinality(Out(value)) = Cardinality(outs)
      /\ Cardinality(listed) = Cardinality(ins)
  BY Zenon, <1>2, <1>4, TuplesCount DEF outs, ins
<1>6. Cardinality(edges) = Cardinality(outs) + Cardinality(ins)
  <2>1. Cardinality(edges) = Cardinality(outs) + Cardinality(ins) - Cardinality({})
    <3>1. Cardinality(outs \cup ins)
            = Cardinality(outs) + Cardinality(ins) - Cardinality(outs \cap ins)
      BY Zenon, <1>4, FS_Union
    <3> QED
      BY Zenon, <1>1, <3>1
  <2>2. Cardinality({}) = 0
    BY Zenon, FS_EmptySet
  <2>3. Cardinality(outs) \in Nat /\ Cardinality(ins) \in Nat
    BY Zenon, <1>4, FS_CardinalityType
  <2> QED
    BY <2>1, <2>2, <2>3
<1>7. Cardinality(In(value)) = Cardinality(listed) + Cardinality(loops) /\ Cardinality(loops) \in Nat
  <2>1. listed \cup loops = In(value) /\ listed \cap loops = {}
    BY Zenon DEF Listed
  <2>2. IsFiniteSet(loops)
    <3>1. CASE HasLoop(v, value)
      <4>1. \A r \in loops : <<v, r[2]>> \in Out(value) /\ r = <<v, r[2]>>
        <5> SUFFICES ASSUME NEW r \in loops PROVE <<v, r[2]>> \in Out(value) /\ r = <<v, r[2]>>
          BY Zenon
        <5>1. r \in In(value) /\ r[1] = v
          BY Zenon
        <5>2. r \in Vertices \X EdgeIds
          BY Zenon, <1>2, <5>1, PartsTyped DEF Ship
        <5>3. r = <<v, r[2]>> /\ r[2] \in EdgeIds
          BY <5>1, <5>2
        <5>4. <<v, r[2]>> \in Out(values[v]) <=> <<v, r[2]>> \in In(values[v])
          BY Zenon, <5>3 DEF SymmetricIn
        <5> QED
          BY Zenon, <5>1, <5>3, <5>4
      <4>2. loops \subseteq Out(value)
        BY Zenon, <4>1
      <4> QED
        BY Zenon, <1>5, <4>2, FS_Subset
    <3>2. CASE ~HasLoop(v, value)
      <4>1. loops = {}
        BY Zenon, <3>2
      <4> QED
        BY Zenon, <4>1, FS_EmptySet
    <3> QED
      BY Zenon, <3>1, <3>2
  <2> HIDE DEF listed, loops
  <2>3. Cardinality(In(value)) = Cardinality(listed) + Cardinality(loops) - Cardinality({})
    <3>1. Cardinality(listed \cup loops)
            = Cardinality(listed) + Cardinality(loops) - Cardinality(listed \cap loops)
      BY Zenon, <1>5, <2>2, FS_Union
    <3> QED
      BY Zenon, <2>1, <3>1
  <2>4. Cardinality({}) = 0
    BY Zenon, FS_EmptySet
  <2>5. Cardinality(listed) \in Nat /\ Cardinality(loops) \in Nat
    BY Zenon, <1>5, <2>2, FS_CardinalityType
  <2> QED
    BY <2>3, <2>4, <2>5
<1>8. Degree(v, value) = Cardinality(Out(value)) + Cardinality(In(value)) - Cardinality(loops)
  BY Zenon DEF Degree
<1>9. Cardinality(outs) \in Nat /\ Cardinality(ins) \in Nat
  BY Zenon, <1>4, FS_CardinalityType
<1> HIDE DEF value, listed, loops
<1>10. Degree(v, value) = Cardinality(edges)
  BY <1>5, <1>6, <1>7, <1>8, <1>9
<1> QED
  BY Zenon, <1>10 DEF value, edges

\* ukv_graph_find_edges lists every edge of a vertex once, loops included, and
\* counts what it lists (export_edge_tuples), in every state that calls and
\* transactions of any number of threads reach.
THEOREM GraphFindsEachEdgeOnce ==
    ASSUME HeadAlone, LoopFree, IsFiniteSet(Edges)
    PROVE  Spec => []FindsEachEdgeOnce
<1>1. GraphInv /\ [Next]_vars => GraphInv'
  BY Zenon, GraphStep
<1>2. GraphInv => FindsEachEdgeOnce
  <2> SUFFICES ASSUME GraphInv PROVE FindsEachEdgeOnce
    BY Zenon
  <2>1. store \in Values /\ SymmetricIn(store)
    BY Zenon DEF GraphInv, TypeOK, Symmetric, Values
  <2>2. IsFiniteSet(EdgesIn(store))
    BY Zenon, FS_Subset DEF GraphInv
  <2> QED
    BY Zenon, <2>1, <2>2, TuplesAreEdges, DegreeCounts DEF FindsEachEdgeOnce
<1> QED
  BY GraphInit, <1>1, <1>2, PTL DEF Spec
=============================================================================
