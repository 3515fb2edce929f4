------------------------------- MODULE MCStl --------------------------------
(* The instance of Stl: two threads, two collections and two batches.      *)
EXTENDS Stl, TLC

CONSTANTS t1, t2, v

MCThreads == {t1, t2}
MCCollections == {0, 1}
MCNames == {"n"}
MCPlaces == {<<0, 0>>, <<0, 1>>, <<1, 0>>}
MCValues == {v}

Puts == [p \in MCPlaces |-> IF p = <<0, 1>> THEN Unchanged ELSE v]
Moves == [p \in MCPlaces |->
            CASE p = <<0, 0>> -> Missing [] p = <<0, 1>> -> EmptyValue [] OTHER -> Unchanged]
MCBatches == {Puts, Moves}

MCSymmetry == Permutations(MCThreads)
=============================================================================
