----------------------------- MODULE MCUMemDisk -----------------------------
(* Model values for the checks of UMemDisk.                                  *)
EXTENDS UMemDisk, TLC

CONSTANTS t1, t2, a, h1, h2

MCOneThread == {t1}
MCTwoThreads == {t1, t2}
MCOneValue == {a}
MCDeletions == {NullRange}
MCHandles == {Main, h1, h2}
MCSymmetry ==
    {p @@ q : p \in Permutations(Threads), q \in Permutations(Handles \ {Main})}

\* Two files behind the default one are written in turn; outside of saved
\* commits only the first of them gets other pairs, alone or, by a commit,
\* together with the default one.
MCNext ==
    /\ Next
    /\ UNCHANGED <<up, names, saving>> /\ pairs' # pairs =>
          /\ 1 \in DOMAIN names
          /\ \E k \in Keys : pairs'[<<names[1], k>>] # pairs[<<names[1], k>>]
          /\ \A n \in DOMAIN names \ {1}, k \in Keys :
                pairs'[<<names[n], k>>] = pairs[<<names[n], k>>]

MCSpec == Init /\ [][MCNext]_vars
=============================================================================
