--------------------------- MODULE MCScanSchedules ---------------------------
(* Small instances of ScanSchedules for TLC. *)
EXTENDS ScanSchedules, TLC

\* Passes and targets are interchangeable.
Symmetry == Permutations(Passes) \cup Permutations(Targets)
=============================================================================
