------------------------- MODULE MCPlacementRequests ------------------------
(* Small instances of PlacementRequests for TLC. *)
EXTENDS PlacementRequests, TLC

\* Applicants, runs and request threads are interchangeable.
Symmetry == Permutations(Applicants) \cup Permutations(Runs) \cup Permutations(Requests)
=============================================================================
