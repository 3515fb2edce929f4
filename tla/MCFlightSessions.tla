------------------------- MODULE MCFlightSessions -------------------------
(* Instances of FlightSessions for TLC.                                    *)
EXTENDS FlightSessions, TLC

\* Calls, sessions and handles are interchangeable.
MCSymmetry ==
    Permutations(Calls) \cup Permutations(Sessions) \cup Permutations(Handles)
=============================================================================
