----------------------------- MODULE MCScanRuns -----------------------------
(* Instances of ScanRuns for TLC. *)
EXTENDS ScanRuns, TLC

\* Every vulnerability has the same false-positive signature.
SharedSig == [h \in Hashes |-> CHOOSE g \in Sigs : TRUE]

Symmetry == Permutations(Hashes) \cup Permutations(Workers)
=============================================================================
