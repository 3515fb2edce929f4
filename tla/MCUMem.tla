------------------------------- MODULE MCUMem -------------------------------
(* Model values and symmetry for the checks of UMem.                         *)
EXTENDS UMem, TLC

CONSTANTS t1, t2, t3, a, b

MCTwoThreads == {t1, t2}
MCThreads == {t1, t2, t3}
MCOneValue == {a}
MCSymmetry == Permutations(Threads)
MCSingletons == {{k} : k \in Keys}
MCWhole == {Keys}
MCNone == {}
=============================================================================
