---------------------------- MODULE MCPlacement -----------------------------
(* Small instances of Placement for TLC. *)
EXTENDS Placement, TLC

\* Applicants, roles and runs are interchangeable.
Symmetry == Permutations(Applicants) \cup Permutations(Roles) \cup Permutations(Runs)

\* Roles and applicants settle before the first run: leaves the interleavings
\* of runs and decisions.
Settled == (\E n \in Runs : run[n].status # "new") =>
               ready = Applicants /\ \A r \in Roles : roleState[r] = "open"
=============================================================================
