--------------------------- MODULE MCPathsVectors ---------------------------
(* The two modalities that scan whole collections and the memory they work *)
(* in, for TLC: a behaviour is one of Paths, of Vectors or of Arena.       *)
EXTENDS Paths, Vectors, Arena, TLC

VARIABLE modality

vars == <<pathsVars, vectorsVars, arenaVars, tapeVars, modality>>

MCHash == [p \in PathNames |-> IF p \in {"a", "b"} THEN 1 ELSE IF p = "c" THEN 2 ELSE 3]

Put(path, val) == [path |-> path, val |-> val]
Del(path) == [path |-> path, val |-> Missing]
Call(tasks, dont_watch) == [tasks |-> tasks, dont_watch |-> dont_watch]

(* Values are their lengths. *)
MCWrites == {
    Call(<<Put("a", 0), Put("b", 2)>>, TRUE),
    Call(<<Put("b", 40), Put("c", 2), Put("d", 0)>>, FALSE),
    Call(<<Del("a")>>, TRUE),
    Call(<<Put("d", 2), Put("d", 0), Del("c")>>, FALSE),
    Call(<<Del("b"), Del("c"), Put("b", 0)>>, FALSE)}
MCReads == {<<"b", "c", "b", "a">>}
MCPatterns == {
    [form |-> "prefix", paths |-> {"a", "b", "c", "d"}],
    [form |-> "regex", paths |-> {"b", "d"}],
    [form |-> "bad", paths |-> {}]}

(* The third vector is so far from the query that its L2 distance wraps. *)
MCVectorWrites == {
    <<[key |-> 0, vector |-> <<500, 10>>], [key |-> 1, vector |-> <<19, -19>>]>>,
    <<[key |-> 2, vector |-> <<1000, 0>>]>>,
    <<[key |-> 3, vector |-> <<-800, 300>>], [key |-> 3, vector |-> <<-1270, -5>>]>>,
    <<[key |-> 1, vector |-> <<0, 700>>], [key |-> 4, vector |-> <<1270, 1270>>]>>}
MCSearches == {[query |-> q, limit |-> l, metric |-> m, threshold |-> t] :
                 q \in {<<1000, 100>>}, l \in 1..3, m \in {"dot", "l2"}, t \in {0, 2000}}
MCJunk == {[key |-> 0, metric |-> -20000], [key |-> 0, metric |-> 20000]}

(* What a match meets is what plain writes and commits leave alike: while  *)
(* there is one, no transaction is open.                                   *)
MCPaths == match'.at # "none" => \A c \in Clients : ~txn'[c].open

Init ==
    /\ PathsInit /\ VectorsInit /\ ArenaInit /\ TapeInit
    /\ modality \in {"paths", "vectors", "arena", "tape"}

Next ==
    /\ \/ modality = "paths" /\ PathsNext /\ MCPaths /\ UNCHANGED <<vectorsVars, arenaVars, tapeVars>>
       \/ modality = "vectors" /\ VectorsNext /\ UNCHANGED <<pathsVars, arenaVars, tapeVars>>
       \/ modality = "arena" /\ ArenaNext /\ UNCHANGED <<pathsVars, vectorsVars, tapeVars>>
       \/ modality = "tape" /\ TapeNext /\ UNCHANGED <<pathsVars, vectorsVars, arenaVars>>
    /\ UNCHANGED modality

Spec == Init /\ [][Next]_vars

Symmetry == Permutations(Clients)
=============================================================================
