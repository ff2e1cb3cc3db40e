------------------------ MODULE MCEvidenceRetention ------------------------
EXTENDS EvidenceRetention, TLC
Symmetry == Permutations(Keys) \cup Permutations(Workers)
=============================================================================
