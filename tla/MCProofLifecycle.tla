-------------------------- MODULE MCProofLifecycle --------------------------
(* Instances of ProofLifecycle for TLC. The refinement and the liveness    *)
(* properties are checked on the same runs, so no symmetry is declared.    *)
EXTENDS ProofLifecycle
=============================================================================
