-------------------------- MODULE MCSystemUpdates --------------------------
(* Small instances of SystemUpdates for TLC. *)
EXTENDS SystemUpdates, TLC

CONSTANTS v2, v3, c2, r1, r2

\* Two full releases, and a component release that declares the version of one.
MCVersionOf == [p \in Package |-> IF p = v3 THEN 3 ELSE 2]

Symmetry == Permutations(Request)
=============================================================================
