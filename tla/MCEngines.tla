------------------------------ MODULE MCEngines -----------------------------
(***************************************************************************)
(* The engines over RocksDB and LevelDB, two questions in one run:         *)
(* transactions that commit and crash (Rocks), or the snapshots and        *)
(* collections behind the handles of clients (RocksHandles, Level).        *)
(***************************************************************************)
EXTENDS Rocks, Level, TLC

CONSTANTS t1, t2, main, other, third, n, m, k, l, a, s1

MCThreads == {t1, t2}
MCFamilies == {main, other, third}
MCKeys == {k}
MCValues == {a}
MCNames == {n, m}
MCSymmetry == {p @@ q : p \in Permutations(MCThreads), q \in Permutations(MCNames)}

\* Writing one place, and moving its value to the other; the third is for the
\* handles.
MCPut == [p \in Places |-> IF p[1] = main THEN a ELSE Unchanged]
MCMove == [p \in Places |-> CASE p[1] = main -> Missing [] p[1] = other -> a [] OTHER -> Unchanged]
MCBatches == {MCPut, MCMove}
MCReadSets == {{p \in Places : p[1] # third}}

MCCells == {<<main, k>>, <<main, l>>, <<other, k>>}
MCSnapshots == {s1}

ASSUME HandlesAssumption == ConstantsApart

VARIABLE part

MCInit ==
    /\ part \in {"transactions", "handles"}
    /\ Init
    /\ EnginesInit
    /\ part = "transactions" => linked = "rocks"

\* The second key of the main collection is for LevelDB, which reads key by key.
\* While there is a snapshot there is one collection of a name, at most.
MCHandles ==
    linked = "rocks" =>
        /\ contents'[<<main, l>>] = Missing
        /\ snapshots' # {} => Len(columns') <= 1

MCNext ==
    /\ UNCHANGED part
    /\ \/ part = "transactions" /\ Next /\ UNCHANGED allVars
       \/ part = "handles" /\ EnginesNext /\ MCHandles /\ UNCHANGED vars

MCSpec == MCInit /\ [][MCNext]_<<part, vars, allVars>>
=============================================================================
