------------------------------ MODULE MCGraph ------------------------------
(* Instances of Graph for TLC.                                              *)
EXTENDS Graph, TLC

CONSTANTS t1, t2, t3

MCSymmetry == Permutations(Threads \ HeadThreads)

\* A loop, two edges out of its vertex, and one that comes back.
MCEdges == {<<1, 1, 7>>, <<1, 2, 7>>, <<3, 1, 7>>}
MCSingles == {{e} : e \in Edges}
=============================================================================
