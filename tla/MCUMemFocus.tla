---------------------------- MODULE MCUMemFocus ----------------------------
(***************************************************************************)
(* An instance of UMem for TLC.  Two questions in one run, chosen at the   *)
(* start: transactions that read and write single keys under watch, or     *)
(* transactions that scan, next to reads and writes outside of them.       *)
(***************************************************************************)
EXTENDS MCUMem

VARIABLE focus      \* "points" or "scans"

MCInit == Init /\ focus \in {"points", "scans"}

\* One generation less than the scans have, no null ranges; only the first key
\* is erased, or written outside of transactions.
MCPoints ==
    /\ clock' < MaxGeneration
    /\ \A t \in Threads : at'[t] \notin {"scanning", "reading"}
    /\ \A k \in Keys : pairs'[k].val # NullRange
    /\ \A k \in Keys \ Starts :
          /\ \A t \in Threads : changes'[t][k] # Missing
          /\ clock' # clock /\ gen' = gen => pairs'[k] = pairs[k]

\* The transactions only scan, and only the first key gets null ranges.
MCScans ==
    /\ \A t \in Threads : at'[t] # "watched" /\ changes'[t] = NoChanges
    /\ \A k \in Keys \ Starts : pairs'[k].val # NullRange

MCNext ==
    /\ Next
    /\ focus = "points" => MCPoints
    /\ focus = "scans" => MCScans
    /\ UNCHANGED focus

MCSpec == MCInit /\ [][MCNext]_<<vars, focus>>
=============================================================================
