------------------------ MODULE MCProcessingRequests ------------------------
(* Small instances of ProcessingRequests for TLC. *)
EXTENDS ProcessingRequests, TLC

\* Tasks and requests are interchangeable; skills are not (RInit chooses one).
Symmetry == Permutations(Tasks) \cup Permutations(Requests)
=============================================================================
