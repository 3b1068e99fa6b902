---------------------------- MODULE MCPrGuardrail ----------------------------
(* The small instances of PrGuardrail. *)
EXTENDS PrGuardrail, TLC

CONSTANTS v1, v2, w1, w2, r1

\* Vulnerabilities of the same severity, and the workers, are interchangeable.
Symmetric == Permutations(Blocking) \cup Permutations(Workers)
=============================================================================
