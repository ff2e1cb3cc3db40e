------------------------ MODULE MCEvidenceLiveness ------------------------
(***************************************************************************)
(* Liveness of the two parts that hold on to evidence: the pipeline with   *)
(* its retention, and the capabilities that open what is kept.  They share *)
(* no state here, so a behaviour takes the steps of one of them.           *)
(***************************************************************************)
EXTENDS EvidenceRetention

CONSTANTS Tokens, Requests

VARIABLES part, active, current, review, due, kept, token, uses, request

useVars == <<active, current, review, due, kept, token, uses, request>>
retainedVars == <<pipelineVars, retentionVars>>

Capability == INSTANCE Capabilities

PartInit == /\ part \in {"retention", "capability"}
            /\ RetentionInit /\ Capability!Init

PartNext ==
  \/ part = "retention" /\ Next /\ UNCHANGED <<part, useVars>>
  \/ part = "capability" /\ Capability!Next /\ UNCHANGED <<part, retainedVars>>

\* Each part is fair in the behaviours that are its own; no fair action of
\* the capabilities is enabled before their first step.
PartSpec ==
  /\ PartInit /\ [][PartNext]_<<part, retainedVars, useVars>>
  /\ part = "capability" \/ Fairness
  /\ Capability!Fairness

\* A processing attempt's evaluation ends (RecoverStages).
EvaluationEnds == part = "retention" => ProcessingEnds

\* Evidence that is due gets deleted (enqueueDueDeletions).
RetentionEnds == part = "retention" => DueEvidenceIsDeleted

\* A capability opens each of its endpoints once
\* (authorizeAndConsumeCapability and its siblings).
CapabilityOpensOnce == Capability!CapabilityOpensOnce

\* What a capability opens or writes is authorized at that moment
\* (assertLeaseStillActive, startPracticeSession).
OpensWhileAuthorized == Capability!OpensWhileAuthorized

\* The rows a context lease locks are released, whatever storage does
\* (acquireStreamBeforeDeadline, readBoundedStream).
LeaseIsReleased == Capability!LeaseIsReleased
=============================================================================
