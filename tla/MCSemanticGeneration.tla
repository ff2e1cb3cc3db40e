------------------------ MODULE MCSemanticGeneration ------------------------
(* Instances of SemanticGeneration for TLC; temporal runs use no symmetry.  *)
EXTENDS SemanticGeneration
=============================================================================
