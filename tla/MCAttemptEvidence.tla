-------------------------- MODULE MCAttemptEvidence --------------------------
(* The instance of AttemptEvidence for the redelivered media job.           *)
EXTENDS AttemptEvidence
=============================================================================
