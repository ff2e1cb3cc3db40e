------------------------- MODULE EvidenceRetention -------------------------
(***************************************************************************)
(* Deletion of an attempt's evidence, running beside the provider pipeline *)
(* that produces it: the retention audit, the acceleration by a            *)
(* maintainer's pass, and the handler of evidence.delete, which claims a   *)
(* plan, calls the object store and scrubs the rows in a later             *)
(* transaction.                                                            *)
(***************************************************************************)
EXTENDS ProviderPipeline

CONSTANTS
    DeleteAfterPass  \* repository policy: evidence.deleteAfterMaintainerPass

ASSUME DeleteAfterPassAssumption == DeleteAfterPass \in BOOLEAN

\* The names of rows and objects are told apart.
ASSUME RetentionNamesAssumption ==
    /\ "recording" \notin Keys /\ "deleted" \notin Workers
    /\ None \notin Workers \cup {"deleted", "recording"}

VARIABLES
    deletion,   \* deletion_jobs.state of the attempt's evidence
    deleteJob,  \* an evidence.delete job is queued
    deleter,    \* its handler
    plan        \* objects the handler still has to delete

retentionVars == <<deletion, deleteJob, deleter, plan>>
vars == <<pipelineVars, retentionVars>>

RetentionInit ==
    /\ Init
    /\ deletion = "none" /\ deleteJob = FALSE /\ deleter = "idle" /\ plan = {}

-----------------------------------------------------------------------------
\* accelerateEvidenceDeletionAfterPass: due now, unless already completed.
Accelerate ==
    /\ deletion' = IF deletion = "completed" THEN "completed" ELSE "pending"
    /\ deleteJob' = (deleteJob \/ deletion # "completed")

\* decideReview: approve, reject or manual retry.
DecideReview(to) ==
    /\ status = "review_required" /\ head
    /\ status' = to
    /\ IF to = "passed" /\ DeleteAfterPass
       THEN Accelerate ELSE UNCHANGED <<deletion, deleteJob>>
    /\ UNCHANGED <<reason, head, access, clock, rowVars, objects, jobs, workVars,
                   faultVars, deleter, plan>>

\* Faulty variant: rows left running or failed are not taken up again.
AuditPendingOnly ==
    /\ (clock = 2 /\ deletion = "none") \/ deletion = "pending"
    /\ deletion' = "running"
    /\ deleteJob' = TRUE
    /\ UNCHANGED <<pipelineVars, deleter, plan>>

\* enqueueDueDeletions, every minute: a due attempt gets its deletion row; a
\* pending row, or one claimed or failed an hour ago, gets a job.
AuditRetention ==
    /\ clock = 2 \/ deletion # "none"
    /\ deletion # "completed"
    /\ deletion \in {"running", "failed"} => ~deleteJob /\ deleter = "idle"
    /\ deletion' = "running"
    /\ deleteJob' = TRUE
    /\ UNCHANGED <<pipelineVars, deleter, plan>>

\* claimDeletion: a completed job ends here; the plan names the objects of
\* all rows that are not deleted.
ClaimDeletion ==
    /\ deleteJob /\ deleter = "idle"
    /\ deleteJob' = FALSE
    /\ \/ /\ deletion = "completed"
          /\ UNCHANGED <<deletion, deleter, plan>>
       \/ /\ deletion # "completed"
          /\ deletion' = "running" /\ deleter' = "deleting"
          /\ plan' = {"recording" : r \in {recording} \ {"deleted"}}
                     \cup ({frame} \ {None, "deleted"})
    /\ UNCHANGED pipelineVars

\* An accelerated deadline, written by the database, can lie ahead of the
\* worker's clock: the row goes back to pending, for the next audit.
ClaimTooEarly ==
    /\ deleteJob /\ deleter = "idle"
    /\ deletion # "completed" /\ clock < 2 /\ faults < MaxFaults
    /\ faults' = faults + 1
    /\ deleteJob' = FALSE /\ deletion' = "pending"
    /\ UNCHANGED <<caseVars, rowVars, objects, jobs, workVars, stalls, deleter, plan>>

\* deleteObject; a missing object is fine.
DeleteObject ==
    /\ deleter = "deleting"
    /\ \E o \in plan :
          /\ plan' = plan \ {o}
          /\ objects' = objects \ {o}
    /\ UNCHANGED <<caseVars, rowVars, jobs, workVars, faultVars,
                   deletion, deleteJob, deleter>>

\* completeDeletion: every row of the attempt is scrubbed.
CompleteDeletion ==
    /\ deleter = "deleting" /\ plan = {}
    /\ deleter' = "idle"
    /\ IF deletion = "completed"
       THEN UNCHANGED <<rowVars, deletion>>
       ELSE /\ deletion' = "completed"
            /\ recording' = "deleted"
            /\ transcript' = IF transcript = "none" THEN "none" ELSE "deleted"
            /\ frame' = IF frame = None THEN None ELSE "deleted"
            /\ pair' = IF pair = None THEN None ELSE "deleted"
    /\ UNCHANGED <<caseVars, objects, jobs, workVars, faultVars, deleteJob, plan>>

\* The object store or the database fails, or the worker dies: the row says
\* failed or still running; pg-boss retries the job, or has no retry left.
FailDeletion ==
    /\ deleter = "deleting" /\ faults < MaxFaults
    /\ faults' = faults + 1
    /\ deleter' = "idle" /\ plan' = {}
    /\ deletion' \in {deletion, IF deletion = "completed" THEN deletion ELSE "failed"}
    /\ deleteJob' \in {TRUE, deleteJob}
    /\ UNCHANGED <<caseVars, rowVars, objects, jobs, workVars, stalls>>

DeletionStep == ClaimDeletion \/ DeleteObject \/ CompleteDeletion

Next ==
    \/ PipelineNext /\ UNCHANGED retentionVars
    \/ \E to \in {"passed", "retry_required", "technical_retry"} : DecideReview(to)
    \/ AuditRetention \/ DeletionStep \/ ClaimTooEarly \/ FailDeletion

Spec == RetentionInit /\ [][Next]_vars

\* Handlers, sweep and audit run, and every queue has a poller of its own;
\* faults are finitely many.  Nothing is assumed of GitHub, the installation,
\* the clock or the maintainer.
Fairness ==
    /\ \A w \in Workers : WF_vars(StageStep(w) /\ UNCHANGED retentionVars)
    /\ SF_vars((\E w \in Workers : LoadEvaluation(w)) /\ UNCHANGED retentionVars)
    /\ SF_vars((\E w \in Workers : LoadPolicy(w)) /\ UNCHANGED retentionVars)
    /\ WF_vars(RecoverStages /\ UNCHANGED retentionVars)
    /\ WF_vars(AuditRetention)
    /\ WF_vars(DeletionStep)

FairSpec == Spec /\ Fairness
-----------------------------------------------------------------------------
TypeOK ==
    /\ status \in {"processing", "review_required", "technical_retry", "passed",
                   "retry_required", "invalidated"}
    /\ reason \in {"none", "valid_policy", "provider_manual_review"}
    /\ head \in BOOLEAN /\ access \in BOOLEAN /\ clock \in 0..2
    /\ recording \in {"active", "deleted"}
    /\ transcript \in {"none", "active", "deleted"}
    /\ frame \in Keys \cup {None, "deleted"}
    /\ pair \in Workers \cup {None, "deleted"}
    /\ objects \subseteq Keys \cup {"recording"}
    /\ jobs \subseteq Stages
    /\ pc \in [Workers -> DOMAIN StageOf \cup {"idle"}]
    /\ key \in [Workers -> Keys \cup {None}]
    /\ leased \in [Workers -> BOOLEAN]
    /\ faults \in 0..MaxFaults /\ stalls \in 0..MaxFaults
    /\ deletion \in {"none", "pending", "running", "failed", "completed"}
    /\ deleteJob \in BOOLEAN /\ deleter \in {"idle", "deleting"}
    /\ plan \subseteq objects \cup Keys \cup {"recording"}

\* Once the deletion is completed nothing is left and nothing comes back: no
\* late handler inserts a transcript, a frame or an evaluation for it, and no
\* recording or frame object stays in the store.  An execution whose lease
\* expired between reservation and PUT is the exception for the frame.
NothingOutlivesDeletion ==
    deletion = "completed" =>
        /\ recording = "deleted" /\ "recording" \notin objects
        /\ transcript # "active" /\ frame \notin Keys /\ pair \notin Workers
        /\ stalls = 0 => objects = {}

\* What is in the store can be found by retention: the row names the object.
\* "never an unreferenced ciphertext object", frame-selection.ts:124.
FrameObjectsReferenced == objects \ {"recording"} \subseteq {frame}

\* The same, while no execution has outlived its lease.
LeasedFramesReferenced == stalls = 0 => FrameObjectsReferenced

\* Retention finds and deletes all there is, for good, although pipeline
\* handlers go on meanwhile (retention.ts completeDeletion, frame-selection.ts
\* reserveFrameObject, provider-pipeline-repository.ts persistTranscript).
RetentionInv ==
    /\ TypeOK
    /\ NothingOutlivesDeletion
    /\ LeasedFramesReferenced

\* A policy result is recorded only in a step that still sees the evaluation
\* it was made from and the recording behind it, although the handler loaded
\* both earlier.
PolicyNeedsEvidence ==
    [][reason # "valid_policy" /\ reason' = "valid_policy" =>
          recording = "active" /\ pair \in Workers /\ clock < 2]_vars

\* The first stored evaluation is final: overlapping evaluations neither
\* replace nor duplicate it.
EvaluationIsFinal ==
    [][pair # None => pair' \in {pair, "deleted"}]_vars

\* A processing attempt leaves processing although handlers crash, jobs
\* expire or run out of retries between persisting and queueing, unless the
\* installation goes or the evidence deadline comes near.
ProcessingEnds ==
    (status = "processing" /\ clock = 0)
        ~> (status # "processing" \/ clock # 0 \/ ~access)

\* Evidence that is due, or was approved under deleteAfterMaintainerPass, is
\* deleted although claims die, deletions fail and jobs run out of retries.
DueEvidenceIsDeleted ==
    (clock = 2 \/ deletion # "none") ~> (deletion = "completed")
=============================================================================
