----------------------- MODULE EvidenceRetention_proofs -----------------------
(***************************************************************************)
(* Proofs about the two parts that hold on to evidence, for any number of  *)
(* workers, frame keys, faults, capabilities and requests: retention       *)
(* beside the provider pipeline, and the capabilities that open what is    *)
(* kept.                                                                   *)
(***************************************************************************)
EXTENDS MCEvidenceLiveness, TLAPS

-----------------------------------------------------------------------------
(* Retention: the invariant.  Retention never meets a writer: a deletion   *)
(* exists only once nothing is eligible any more, and the frame under      *)
(* upload is the one exception, which the leases keep ahead of it.         *)

\* The steps of a handler, by stage.
TranscriptSteps == {"replay_transcript", "transcribe", "queue_frames"}
FrameSteps == {"check_frame", "extract", "put", "store_frame", "queue_evaluation"}
\* Where an execution works with the key of a frame object.
HoldsKey == {"check_frame", "put", "store_frame"}
\* Steps that come only after a frame was persisted.
LaterSteps == {"queue_evaluation", "find_pair", "judge", "apply_policy"}

\* A row names its key before the object exists.
WorkersHoldKeys == \A w \in Workers : pc[w] \in HoldsKey => key[w] \in Keys

\* Expiries are counted among the faults.
StallsAreFaults == stalls <= faults

\* A deletion row, job or handler exists only for evidence nobody writes to.
DeletionComesLate ==
  /\ deleteJob \/ deleter = "deleting" => deletion # "none"
  /\ deletion # "none" => clock = 2 \/ status = "passed"

\* The recording's row and object go together with the plan's completion.
RecordingIsPlanned ==
  /\ recording = "deleted" <=> deletion = "completed"
  /\ deleter = "deleting" /\ deletion # "completed" /\ "recording" \in objects
       => "recording" \in plan

\* Deleted rows stay deleted.
RowsFollowDeletion ==
  /\ transcript = "deleted" => deletion = "completed"
  /\ deletion = "completed" =>
    /\ "recording" \notin objects
    /\ transcript # "active" /\ frame \notin Keys /\ pair \notin Workers

\* key_strict_fifo, as long as no lease ran out: one execution per stage.
OneLeasePerStage ==
  /\ \A w \in Workers : Active(w) => leased[w]
  /\ \A v, w \in Workers : pc[v] \in FrameSteps /\ pc[w] \in FrameSteps => v = w
  /\ \A v, w \in Workers : pc[v] \in TranscriptSteps /\ pc[w] \in TranscriptSteps => v = w

\* The row names an object that exists, or retention may have taken it.
Stored == frame \in objects \/ deletion # "none"

\* The pipeline has gone beyond its frame.
Later == \/ {"evaluation", "policy"} \cap jobs # {}
         \/ pair # None
         \/ \E w \in Workers : pc[w] \in LaterSteps

\* What holds of the frame while no execution outlives its lease: an upload
\* under way (put) has its row, comes before any evaluation and before any
\* deletion, so neither a decision nor the retention audit overtakes it.
LeasedFrames ==
  /\ objects \ {"recording"} \subseteq {frame}
  /\ deletion = "completed" => objects = {}
  /\ deleter = "deleting" /\ deletion # "completed" /\ frame \in objects => frame \in plan
  /\ Later => frame # None /\ Stored
  /\ \A w \in Workers :
       /\ pc[w] = "transcribe" => transcript # "active"
       /\ pc[w] \in {"check_frame", "extract"} => transcript # "none"
       /\ pc[w] \in HoldsKey => frame \in {key[w], "deleted"}
       /\ pc[w] = "store_frame" => Stored
       /\ pc[w] = "put" =>
            /\ frame = key[w] /\ key[w] \notin objects /\ deletion = "none"
            /\ transcript = "active" /\ clock < 2
            /\ status \in {"processing", "technical_retry", "invalidated"}

\* The inductive invariant of retention.
RetentionIInv ==
  /\ TypeOK
  /\ WorkersHoldKeys
  /\ StallsAreFaults
  /\ DeletionComesLate
  /\ RecordingIsPlanned
  /\ RowsFollowDeletion
  /\ stalls = 0 => OneLeasePerStage /\ LeasedFrames

\* All steps of a handler.
Steps == {"replay_transcript", "transcribe", "queue_frames", "check_frame", "extract",
          "put", "store_frame", "queue_evaluation", "find_pair", "judge",
              "apply_policy"}

\* The stages of the steps; a lost job of a later stage implies a later step.
LEMMA StagesOf ==
  /\ DOMAIN StageOf = Steps
  /\ \A p \in Steps : StageOf[p] \in Stages
  /\ \A p \in Steps : StageOf[p] \in {"evaluation", "policy"} => p \in LaterSteps
<1>1. DOMAIN StageOf = Steps
  BY DEF StageOf, Steps
<1>2. \A p \in Steps : StageOf[p] \in Stages
  BY DEF StageOf, Steps, Stages
<1>3. \A p \in Steps : StageOf[p] \in {"evaluation", "policy"} => p \in LaterSteps
  BY DEF StageOf, Steps, LaterSteps
<1> QED
  BY <1>1, <1>2, <1>3

\* TypeOK in parts that are preserved separately.
CaseTypes ==
  /\ status \in {"processing", "review_required", "technical_retry", "passed",
                "retry_required", "invalidated"}
  /\ reason \in {"none", "valid_policy", "provider_manual_review"}
  /\ head \in BOOLEAN /\ access \in BOOLEAN /\ clock \in 0..2
DeletionTypes ==
  /\ deletion \in {"none", "pending", "running", "failed", "completed"}
  /\ deleteJob \in BOOLEAN /\ deleter \in {"idle", "deleting"}
  /\ plan \subseteq Keys \cup {"recording"}
RowTypes ==
  /\ recording \in {"active", "deleted"}
  /\ transcript \in {"none", "active", "deleted"}
  /\ frame \in Keys \cup {None, "deleted"}
  /\ pair \in Workers \cup {None, "deleted"}
  /\ objects \subseteq Keys \cup {"recording"}
WorkTypes ==
  /\ pc \in [Workers -> Steps \cup {"idle"}]
  /\ key \in [Workers -> Keys \cup {None}]
  /\ leased \in [Workers -> BOOLEAN]
JobTypes == jobs \subseteq Stages
FaultTypes == faults \in 0..MaxFaults /\ stalls \in 0..MaxFaults /\ stalls <= faults

\* The parts together are the type invariant.
LEMMA TypeParts ==
  TypeOK /\ StallsAreFaults <=> CaseTypes /\ DeletionTypes /\ RowTypes
      /\ WorkTypes /\ JobTypes /\ FaultTypes
BY StagesOf DEF TypeOK, StallsAreFaults, CaseTypes, DeletionTypes, RowTypes,
    WorkTypes, JobTypes, FaultTypes

\* A recording that was just persisted starts the pipeline in the invariant.
LEMMA InitRetention == RetentionInit => RetentionIInv
<1> SUFFICES ASSUME RetentionInit PROVE RetentionIInv
  OBVIOUS
<1> USE RetentionNamesAssumption, PipelineNoneAssumption, MaxFaultsAssumption
    DEF RetentionInit, Init
<1>1. WorkTypes /\ JobTypes
  BY StagesOf DEF WorkTypes, JobTypes, Stages
<1>2. CaseTypes /\ DeletionTypes /\ RowTypes /\ FaultTypes
  <2>1. CaseTypes
    BY DEF CaseTypes
  <2>2. DeletionTypes
    BY DEF DeletionTypes
  <2>3. RowTypes
    BY DEF RowTypes
  <2>4. FaultTypes
    BY DEF FaultTypes
  <2> QED
    BY <2>1, <2>2, <2>3, <2>4
<1>3. TypeOK /\ StallsAreFaults
  BY <1>1, <1>2, TypeParts
<1>4. WorkersHoldKeys /\ DeletionComesLate /\ RecordingIsPlanned /\ RowsFollowDeletion
  BY DEF WorkersHoldKeys, DeletionComesLate, RecordingIsPlanned,
      RowsFollowDeletion, HoldsKey
<1>5. OneLeasePerStage /\ LeasedFrames
  BY DEF OneLeasePerStage, LeasedFrames, Later, Stored, Active, FrameSteps,
      TranscriptSteps,
     HoldsKey, LaterSteps
<1> QED
  BY <1>3, <1>4, <1>5 DEF RetentionIInv

\* Every step keeps the attempt's state well typed (attempts.status).
LEMMA CaseStep ==
  ASSUME CaseTypes, [Next]_vars
  PROVE  CaseTypes'
<1> USE RetentionNamesAssumption, PipelineNoneAssumption, MaxFaultsAssumption
    DEF CaseTypes,
        Finish, Goto, Take, Load, Begin, Expedite, QueueNext, Active, Eligible,
            FrameEligible, Transitionable, ToReview, ToTechnicalRetry,
            PairAvailable, FreshKeys, Accelerate, caseVars, rowVars, workVars,
            faultVars, pipelineVars, retentionVars, vars
<1>1. ASSUME NEW w \in Workers, UNCHANGED retentionVars,
             (LoadTranscript(w) \/ ReplayTranscript(w) \/ StoreTranscript(w)
                 \/ QueueFrames(w))
      PROVE  CaseTypes'
  BY <1>1 DEF LoadTranscript, ReplayTranscript, StoreTranscript, QueueFrames
<1>2. ASSUME NEW w \in Workers, UNCHANGED retentionVars,
             (LoadFrames(w) \/ CheckFrame(w) \/ ReserveFrame(w) \/ PutFrame(w)
                 \/ StoreFrame(w) \/ QueueEvaluation(w))
      PROVE  CaseTypes'
  BY <1>2 DEF LoadFrames, CheckFrame, ReserveFrame, PutFrame, StoreFrame,
      QueueEvaluation
<1>3. ASSUME NEW w \in Workers, UNCHANGED retentionVars,
             (LoadEvaluation(w) \/ FindPair(w) \/ StorePair(w) \/ LoadPolicy(w)
                 \/ ApplyPolicy(w))
      PROVE  CaseTypes'
  BY <1>3 DEF LoadEvaluation, FindPair, StorePair, LoadPolicy, ApplyPolicy
<1>4. ASSUME NEW w \in Workers, UNCHANGED retentionVars,
             (ProviderFails(w) \/ Crash(w) \/ Expire(w))
      PROVE  CaseTypes'
  BY <1>4 DEF ProviderFails, Crash, Expire
<1>5. CASE RecoverStages /\ UNCHANGED retentionVars
  BY <1>5 DEF RecoverStages
<1>6. CASE Supersede /\ UNCHANGED retentionVars
  BY <1>6 DEF Supersede
<1>7. CASE ToggleAccess /\ UNCHANGED retentionVars
  BY <1>7 DEF ToggleAccess
<1>8. CASE DeadlineNears /\ UNCHANGED retentionVars
  BY <1>8 DEF DeadlineNears
<1>9. ASSUME NEW to \in {"passed", "retry_required", "technical_retry"},
    DecideReview(to)
      PROVE  CaseTypes'
  BY <1>9 DEF DecideReview
<1>10. CASE AuditRetention \/ ClaimDeletion \/ DeleteObject \/ CompleteDeletion
    \/ ClaimTooEarly \/ FailDeletion
  BY <1>10 DEF AuditRetention, ClaimDeletion, DeleteObject, CompleteDeletion,
      ClaimTooEarly, FailDeletion
<1>11. CASE UNCHANGED vars
  BY <1>11
<1> QED
  BY <1>1, <1>2, <1>3, <1>4, <1>5, <1>6, <1>7, <1>8, <1>9, <1>10, <1>11
     DEF Next, PipelineNext, StageStep, TranscriptStage, FrameStage,
         EvaluationStage, PolicyStage, DeletionStep

\* Every step keeps the deletion row, job and plan well typed.
LEMMA DelStep ==
  ASSUME DeletionTypes, RowTypes, [Next]_vars
  PROVE  DeletionTypes'
<1> USE RetentionNamesAssumption, PipelineNoneAssumption, MaxFaultsAssumption
    DEF DeletionTypes, RowTypes,
        Finish, Goto, Take, Load, Begin, Expedite, QueueNext, Active, Eligible,
            FrameEligible, Transitionable, ToReview, ToTechnicalRetry,
            PairAvailable, FreshKeys, Accelerate, caseVars, rowVars, workVars,
            faultVars, pipelineVars, retentionVars, vars
<1>1. ASSUME NEW w \in Workers, UNCHANGED retentionVars,
             (LoadTranscript(w) \/ ReplayTranscript(w) \/ StoreTranscript(w)
                 \/ QueueFrames(w))
      PROVE  DeletionTypes'
  BY <1>1 DEF LoadTranscript, ReplayTranscript, StoreTranscript, QueueFrames
<1>2. ASSUME NEW w \in Workers, UNCHANGED retentionVars,
             (LoadFrames(w) \/ CheckFrame(w) \/ ReserveFrame(w) \/ PutFrame(w)
                 \/ StoreFrame(w) \/ QueueEvaluation(w))
      PROVE  DeletionTypes'
  BY <1>2 DEF LoadFrames, CheckFrame, ReserveFrame, PutFrame, StoreFrame,
      QueueEvaluation
<1>3. ASSUME NEW w \in Workers, UNCHANGED retentionVars,
             (LoadEvaluation(w) \/ FindPair(w) \/ StorePair(w) \/ LoadPolicy(w)
                 \/ ApplyPolicy(w))
      PROVE  DeletionTypes'
  BY <1>3 DEF LoadEvaluation, FindPair, StorePair, LoadPolicy, ApplyPolicy
<1>4. ASSUME NEW w \in Workers, UNCHANGED retentionVars,
             (ProviderFails(w) \/ Crash(w) \/ Expire(w))
      PROVE  DeletionTypes'
  BY <1>4 DEF ProviderFails, Crash, Expire
<1>5. CASE (RecoverStages \/ Supersede \/ ToggleAccess
    \/ DeadlineNears) /\ UNCHANGED retentionVars
  BY <1>5 DEF RecoverStages, Supersede, ToggleAccess, DeadlineNears
<1>6. ASSUME NEW to \in {"passed", "retry_required", "technical_retry"},
    DecideReview(to)
      PROVE  DeletionTypes'
  BY <1>6 DEF DecideReview
<1>7. CASE AuditRetention \/ ClaimDeletion \/ DeleteObject \/ CompleteDeletion
    \/ ClaimTooEarly \/ FailDeletion
  BY <1>7 DEF AuditRetention, ClaimDeletion, DeleteObject, CompleteDeletion,
      ClaimTooEarly, FailDeletion
<1>8. CASE UNCHANGED vars
  BY <1>8
<1> QED
  BY <1>1, <1>2, <1>3, <1>4, <1>5, <1>6, <1>7, <1>8
     DEF Next, PipelineNext, StageStep, TranscriptStage, FrameStage,
         EvaluationStage, PolicyStage, DeletionStep

\* Every step keeps the artifact rows and the object store well typed.
LEMMA RowStep ==
  ASSUME RowTypes, WorkTypes, WorkersHoldKeys, [Next]_vars
  PROVE  RowTypes'
<1> USE RetentionNamesAssumption, PipelineNoneAssumption, MaxFaultsAssumption
    DEF WorkersHoldKeys, HoldsKey, RowTypes, WorkTypes,
        Finish, Goto, Take, Load, Begin, Expedite, QueueNext, Active, Eligible,
            FrameEligible, Transitionable, ToReview, ToTechnicalRetry,
            PairAvailable, FreshKeys, Accelerate, caseVars, rowVars, workVars,
            faultVars, pipelineVars, retentionVars, vars
<1>1. ASSUME NEW w \in Workers, UNCHANGED retentionVars,
             (LoadTranscript(w) \/ ReplayTranscript(w) \/ StoreTranscript(w)
                 \/ QueueFrames(w))
      PROVE  RowTypes'
  BY <1>1 DEF LoadTranscript, ReplayTranscript, StoreTranscript, QueueFrames
<1>2. ASSUME NEW w \in Workers, UNCHANGED retentionVars,
             (LoadFrames(w) \/ CheckFrame(w) \/ ReserveFrame(w) \/ PutFrame(w)
                 \/ StoreFrame(w) \/ QueueEvaluation(w))
      PROVE  RowTypes'
  BY <1>2 DEF LoadFrames, CheckFrame, ReserveFrame, PutFrame, StoreFrame,
      QueueEvaluation
<1>3. ASSUME NEW w \in Workers, UNCHANGED retentionVars,
             (LoadEvaluation(w) \/ FindPair(w) \/ StorePair(w) \/ LoadPolicy(w)
                 \/ ApplyPolicy(w))
      PROVE  RowTypes'
  BY <1>3 DEF LoadEvaluation, FindPair, StorePair, LoadPolicy, ApplyPolicy
<1>4. ASSUME NEW w \in Workers, UNCHANGED retentionVars,
             (ProviderFails(w) \/ Crash(w) \/ Expire(w))
      PROVE  RowTypes'
  BY <1>4 DEF ProviderFails, Crash, Expire
<1>5. CASE (RecoverStages \/ Supersede \/ ToggleAccess
    \/ DeadlineNears) /\ UNCHANGED retentionVars
  BY <1>5 DEF RecoverStages, Supersede, ToggleAccess, DeadlineNears
<1>6. ASSUME NEW to \in {"passed", "retry_required", "technical_retry"},
    DecideReview(to)
      PROVE  RowTypes'
  BY <1>6 DEF DecideReview
<1>7. CASE AuditRetention \/ ClaimDeletion \/ DeleteObject \/ CompleteDeletion
    \/ ClaimTooEarly \/ FailDeletion
  BY <1>7 DEF AuditRetention, ClaimDeletion, DeleteObject, CompleteDeletion,
      ClaimTooEarly, FailDeletion
<1>8. CASE UNCHANGED vars
  BY <1>8
<1> QED
  BY <1>1, <1>2, <1>3, <1>4, <1>5, <1>6, <1>7, <1>8
     DEF Next, PipelineNext, StageStep, TranscriptStage, FrameStage,
         EvaluationStage, PolicyStage, DeletionStep

\* Every step keeps the executions well typed, and where one works with a
\* frame it holds a key (reserveFrameObject, loadExistingFrames).
LEMMA WorkStep ==
  ASSUME WorkTypes, RowTypes, WorkersHoldKeys, [Next]_vars
  PROVE  WorkTypes' /\ WorkersHoldKeys'
<1> USE RetentionNamesAssumption, PipelineNoneAssumption, MaxFaultsAssumption
    DEF HoldsKey, WorkTypes, RowTypes, Steps, WorkersHoldKeys,
        Finish, Goto, Take, Load, Begin, Expedite, QueueNext, Active, Eligible,
            FrameEligible, Transitionable, ToReview, ToTechnicalRetry,
            PairAvailable, FreshKeys, Accelerate, caseVars, rowVars, workVars,
            faultVars, pipelineVars, retentionVars, vars
<1>1. ASSUME NEW w \in Workers, UNCHANGED retentionVars,
             (LoadTranscript(w) \/ ReplayTranscript(w) \/ StoreTranscript(w)
                 \/ QueueFrames(w))
      PROVE  WorkTypes' /\ WorkersHoldKeys'
  BY <1>1 DEF LoadTranscript, ReplayTranscript, StoreTranscript, QueueFrames
<1>2. ASSUME NEW w \in Workers, UNCHANGED retentionVars,
             QueueEvaluation(w)
      PROVE  WorkTypes' /\ WorkersHoldKeys'
  BY <1>2 DEF QueueEvaluation
<1>3. ASSUME NEW w \in Workers, LoadFrames(w), UNCHANGED retentionVars
      PROVE  WorkTypes' /\ WorkersHoldKeys'
  <2>1. CASE FrameEligible /\ transcript = "active"
    <3>1. CASE frame \in Keys
      <4>1. pc' = [pc EXCEPT ![w] = "check_frame"] /\ key' = [key EXCEPT ![w] = frame]
            /\ leased' = [leased EXCEPT ![w] = TRUE]
        BY <1>3, <2>1, <3>1 DEF LoadFrames
      <4> QED
        BY <3>1, <4>1
    <3>2. CASE frame \notin Keys
      BY <1>3, <2>1, <3>2 DEF LoadFrames
    <3> QED
      BY <3>1, <3>2
  <2>2. CASE ~(FrameEligible /\ transcript = "active")
    BY <1>3, <2>2 DEF LoadFrames
  <2> QED
    BY <2>1, <2>2
<1>4. ASSUME NEW w \in Workers, UNCHANGED retentionVars,
             CheckFrame(w)
      PROVE  WorkTypes' /\ WorkersHoldKeys'
  BY <1>4 DEF CheckFrame
<1>5. ASSUME NEW w \in Workers, UNCHANGED retentionVars, ReserveFrame(w)
      PROVE  WorkTypes' /\ WorkersHoldKeys'
  <2> PICK k \in FreshKeys : IF FrameEligible /\ frame = None
          THEN /\ Goto(w, "put") /\ key' = [key EXCEPT ![w] = k] /\ UNCHANGED leased
               /\ frame' = k
          ELSE Finish(w) /\ UNCHANGED frame
    BY <1>5 DEF ReserveFrame
  <2>1. CASE FrameEligible /\ frame = None
    BY <2>1
  <2>2. CASE ~(FrameEligible /\ frame = None)
    BY <2>2
  <2> QED
    BY <2>1, <2>2
<1>6. ASSUME NEW w \in Workers, UNCHANGED retentionVars,
             PutFrame(w)
      PROVE  WorkTypes' /\ WorkersHoldKeys'
  BY <1>6 DEF PutFrame
<1>7. ASSUME NEW w \in Workers, UNCHANGED retentionVars,
             StoreFrame(w)
      PROVE  WorkTypes' /\ WorkersHoldKeys'
  BY <1>7 DEF StoreFrame
<1>8. ASSUME NEW w \in Workers, UNCHANGED retentionVars,
             (LoadEvaluation(w) \/ FindPair(w) \/ StorePair(w) \/ LoadPolicy(w)
                 \/ ApplyPolicy(w))
      PROVE  WorkTypes' /\ WorkersHoldKeys'
  BY <1>8 DEF LoadEvaluation, FindPair, StorePair, LoadPolicy, ApplyPolicy
<1>9. ASSUME NEW w \in Workers, UNCHANGED retentionVars,
             (ProviderFails(w) \/ Crash(w) \/ Expire(w))
      PROVE  WorkTypes' /\ WorkersHoldKeys'
  BY <1>9 DEF ProviderFails, Crash, Expire
<1>10. CASE (RecoverStages \/ Supersede \/ ToggleAccess
    \/ DeadlineNears) /\ UNCHANGED retentionVars
  BY <1>10 DEF RecoverStages, Supersede, ToggleAccess, DeadlineNears
<1>11. ASSUME NEW to \in {"passed", "retry_required", "technical_retry"},
    DecideReview(to)
      PROVE  WorkTypes' /\ WorkersHoldKeys'
  BY <1>11 DEF DecideReview
<1>12. CASE AuditRetention \/ ClaimDeletion \/ DeleteObject \/ CompleteDeletion
    \/ ClaimTooEarly \/ FailDeletion
  BY <1>12 DEF AuditRetention, ClaimDeletion, DeleteObject, CompleteDeletion,
      ClaimTooEarly, FailDeletion
<1>13. CASE UNCHANGED vars
  BY <1>13
<1> QED
  BY <1>1, <1>2, <1>3, <1>4, <1>5, <1>6, <1>7, <1>8, <1>9, <1>10, <1>11, <1>12, <1>13
     DEF Next, PipelineNext, StageStep, TranscriptStage, FrameStage,
         EvaluationStage, PolicyStage, DeletionStep

\* Every step queues jobs of the four stages only.
LEMMA JobStep ==
  ASSUME JobTypes, WorkTypes, [Next]_vars
  PROVE  JobTypes'
<1> USE RetentionNamesAssumption, PipelineNoneAssumption, MaxFaultsAssumption
    DEF JobTypes, Stages,
        Finish, Goto, Take, Load, Begin, Expedite, QueueNext, Active, Eligible,
            FrameEligible, Transitionable, ToReview, ToTechnicalRetry,
            PairAvailable, FreshKeys, Accelerate, caseVars, rowVars, workVars,
            faultVars, pipelineVars, retentionVars, vars
<1> USE DEF WorkTypes
<1>1. ASSUME NEW w \in Workers, UNCHANGED retentionVars,
             (LoadTranscript(w) \/ ReplayTranscript(w) \/ StoreTranscript(w)
                 \/ QueueFrames(w))
      PROVE  JobTypes'
  BY <1>1 DEF LoadTranscript, ReplayTranscript, StoreTranscript, QueueFrames
<1>2. ASSUME NEW w \in Workers, UNCHANGED retentionVars,
             (LoadFrames(w) \/ CheckFrame(w) \/ ReserveFrame(w) \/ PutFrame(w)
                 \/ StoreFrame(w) \/ QueueEvaluation(w))
      PROVE  JobTypes'
  BY <1>2 DEF LoadFrames, CheckFrame, ReserveFrame, PutFrame, StoreFrame,
      QueueEvaluation
<1>3. ASSUME NEW w \in Workers, UNCHANGED retentionVars,
             (LoadEvaluation(w) \/ LoadPolicy(w) \/ ApplyPolicy(w))
      PROVE  JobTypes'
  BY <1>3 DEF LoadEvaluation, LoadPolicy, ApplyPolicy
<1>4. ASSUME NEW w \in Workers, UNCHANGED retentionVars,
             FindPair(w)
      PROVE  JobTypes'
  BY <1>4 DEF FindPair
<1>5. ASSUME NEW w \in Workers, UNCHANGED retentionVars,
             StorePair(w)
      PROVE  JobTypes'
  BY <1>5 DEF StorePair
<1>6. ASSUME NEW w \in Workers, UNCHANGED retentionVars,
             ProviderFails(w)
      PROVE  JobTypes'
  BY <1>6 DEF ProviderFails
<1>7. ASSUME NEW w \in Workers, Crash(w), UNCHANGED retentionVars
      PROVE  JobTypes'
  <2>1. pc[w] \in Steps
    BY <1>7 DEF Crash
  <2>2. StageOf[pc[w]] \in Stages
    BY <2>1, StagesOf
  <2>3. jobs' \subseteq jobs \cup {StageOf[pc[w]]}
    BY <1>7 DEF Crash
  <2> QED
    BY <2>2, <2>3
<1>8. ASSUME NEW w \in Workers, Expire(w), UNCHANGED retentionVars
      PROVE  JobTypes'
  <2>1. pc[w] \in Steps
    BY <1>8 DEF Expire
  <2>2. StageOf[pc[w]] \in Stages
    BY <2>1, StagesOf
  <2>3. jobs' \subseteq jobs \cup {StageOf[pc[w]]}
    BY <1>8 DEF Expire
  <2> QED
    BY <2>2, <2>3
<1>9. CASE (RecoverStages \/ Supersede \/ ToggleAccess
    \/ DeadlineNears) /\ UNCHANGED retentionVars
  BY <1>9 DEF RecoverStages, Supersede, ToggleAccess, DeadlineNears
<1>10. ASSUME NEW to \in {"passed", "retry_required", "technical_retry"},
    DecideReview(to)
      PROVE  JobTypes'
  BY <1>10 DEF DecideReview
<1>11. CASE AuditRetention \/ ClaimDeletion \/ DeleteObject
  BY <1>11 DEF AuditRetention, ClaimDeletion, DeleteObject
<1>12. CASE CompleteDeletion
  BY <1>12 DEF CompleteDeletion
<1>13. CASE ClaimTooEarly
  BY <1>13 DEF ClaimTooEarly
<1>14. CASE FailDeletion
  BY <1>14 DEF FailDeletion
<1>15. CASE UNCHANGED vars
  BY <1>15
<1> QED
  BY <1>1, <1>2, <1>3, <1>4, <1>5, <1>6, <1>7, <1>8, <1>9, <1>10, <1>11, <1>12,
      <1>13, <1>14, <1>15
     DEF Next, PipelineNext, StageStep, TranscriptStage, FrameStage,
         EvaluationStage, PolicyStage, DeletionStep

\* Faults and expiries stay within their bounds and are never forgotten.
LEMMA FaultStep ==
  ASSUME FaultTypes, [Next]_vars
  PROVE  FaultTypes' /\ stalls <= stalls'
<1> USE RetentionNamesAssumption, PipelineNoneAssumption, MaxFaultsAssumption
    DEF FaultTypes,
        Finish, Goto, Take, Load, Begin, Expedite, QueueNext, Active, Eligible,
            FrameEligible, Transitionable, ToReview, ToTechnicalRetry,
            PairAvailable, FreshKeys, Accelerate, caseVars, rowVars, workVars,
            faultVars, pipelineVars, retentionVars, vars
<1>1. ASSUME NEW w \in Workers, UNCHANGED retentionVars,
             (LoadTranscript(w) \/ ReplayTranscript(w) \/ StoreTranscript(w)
                 \/ QueueFrames(w))
      PROVE  FaultTypes' /\ stalls <= stalls'
  BY <1>1 DEF LoadTranscript, ReplayTranscript, StoreTranscript, QueueFrames
<1>2. ASSUME NEW w \in Workers, UNCHANGED retentionVars,
             (LoadFrames(w) \/ CheckFrame(w) \/ ReserveFrame(w) \/ PutFrame(w)
                 \/ StoreFrame(w) \/ QueueEvaluation(w))
      PROVE  FaultTypes' /\ stalls <= stalls'
  BY <1>2 DEF LoadFrames, CheckFrame, ReserveFrame, PutFrame, StoreFrame,
      QueueEvaluation
<1>3. ASSUME NEW w \in Workers, UNCHANGED retentionVars,
             (LoadEvaluation(w) \/ FindPair(w) \/ StorePair(w) \/ LoadPolicy(w)
                 \/ ApplyPolicy(w))
      PROVE  FaultTypes' /\ stalls <= stalls'
  BY <1>3 DEF LoadEvaluation, FindPair, StorePair, LoadPolicy, ApplyPolicy
<1>4. ASSUME NEW w \in Workers, UNCHANGED retentionVars,
             (ProviderFails(w) \/ Crash(w) \/ Expire(w))
      PROVE  FaultTypes' /\ stalls <= stalls'
  BY <1>4 DEF ProviderFails, Crash, Expire
<1>5. CASE (RecoverStages \/ Supersede \/ ToggleAccess
    \/ DeadlineNears) /\ UNCHANGED retentionVars
  BY <1>5 DEF RecoverStages, Supersede, ToggleAccess, DeadlineNears
<1>6. ASSUME NEW to \in {"passed", "retry_required", "technical_retry"},
    DecideReview(to)
      PROVE  FaultTypes' /\ stalls <= stalls'
  BY <1>6 DEF DecideReview
<1>7. CASE AuditRetention \/ ClaimDeletion \/ DeleteObject \/ CompleteDeletion
  BY <1>7 DEF AuditRetention, ClaimDeletion, DeleteObject, CompleteDeletion
<1>8. CASE ClaimTooEarly
  BY <1>8 DEF ClaimTooEarly
<1>9. CASE FailDeletion
  BY <1>9 DEF FailDeletion
<1>10. CASE UNCHANGED vars
  BY <1>10
<1> QED
  BY <1>1, <1>2, <1>3, <1>4, <1>5, <1>6, <1>7, <1>8, <1>9, <1>10
     DEF Next, PipelineNext, StageStep, TranscriptStage, FrameStage,
         EvaluationStage, PolicyStage, DeletionStep

\* Deletion starts late, plans the recording and scrubs every row, and no
\* persisting handler undoes that (retention.ts claimDeletion, completeDeletion).
LEMMA DeletionStepLemma ==
  ASSUME RetentionIInv, [Next]_vars
  PROVE  DeletionComesLate' /\ RecordingIsPlanned' /\ RowsFollowDeletion'
<1> USE RetentionNamesAssumption, PipelineNoneAssumption, MaxFaultsAssumption
    DEF RetentionIInv, TypeOK, DeletionComesLate, RecordingIsPlanned,
        RowsFollowDeletion, WorkersHoldKeys, HoldsKey,
        Finish, Goto, Take, Load, Begin, Expedite, QueueNext, Active, Eligible,
            FrameEligible, Transitionable, ToReview, ToTechnicalRetry,
            PairAvailable, FreshKeys, Accelerate, caseVars, rowVars, workVars,
            faultVars, pipelineVars, retentionVars, vars
<1>1. ASSUME NEW w \in Workers, UNCHANGED retentionVars,
             (LoadTranscript(w) \/ ReplayTranscript(w) \/ StoreTranscript(w)
                 \/ QueueFrames(w))
      PROVE  DeletionComesLate' /\ RecordingIsPlanned' /\ RowsFollowDeletion'
  BY <1>1 DEF LoadTranscript, ReplayTranscript, StoreTranscript, QueueFrames
<1>2. ASSUME NEW w \in Workers, UNCHANGED retentionVars,
             (LoadFrames(w) \/ CheckFrame(w) \/ ReserveFrame(w) \/ PutFrame(w)
                 \/ StoreFrame(w) \/ QueueEvaluation(w))
      PROVE  DeletionComesLate' /\ RecordingIsPlanned' /\ RowsFollowDeletion'
  BY <1>2 DEF LoadFrames, CheckFrame, ReserveFrame, PutFrame, StoreFrame,
      QueueEvaluation
<1>3. ASSUME NEW w \in Workers, UNCHANGED retentionVars,
             (LoadEvaluation(w) \/ FindPair(w) \/ StorePair(w) \/ LoadPolicy(w)
                 \/ ApplyPolicy(w))
      PROVE  DeletionComesLate' /\ RecordingIsPlanned' /\ RowsFollowDeletion'
  BY <1>3 DEF LoadEvaluation, FindPair, StorePair, LoadPolicy, ApplyPolicy
<1>4. ASSUME NEW w \in Workers, UNCHANGED retentionVars,
             (ProviderFails(w) \/ Crash(w) \/ Expire(w))
      PROVE  DeletionComesLate' /\ RecordingIsPlanned' /\ RowsFollowDeletion'
  BY <1>4 DEF ProviderFails, Crash, Expire
<1>5. CASE (RecoverStages \/ Supersede \/ ToggleAccess
    \/ DeadlineNears) /\ UNCHANGED retentionVars
  BY <1>5 DEF RecoverStages, Supersede, ToggleAccess, DeadlineNears
<1>6. ASSUME NEW to \in {"passed", "retry_required", "technical_retry"},
    DecideReview(to)
      PROVE  DeletionComesLate' /\ RecordingIsPlanned' /\ RowsFollowDeletion'
  BY <1>6 DEF DecideReview
<1>7. CASE AuditRetention \/ DeleteObject \/ ClaimTooEarly \/ FailDeletion
  BY <1>7 DEF AuditRetention, DeleteObject, ClaimTooEarly, FailDeletion
<1>8. CASE ClaimDeletion
  BY <1>8 DEF ClaimDeletion
<1>9. CASE CompleteDeletion
  BY <1>9 DEF CompleteDeletion
<1>10. CASE UNCHANGED vars
  BY <1>10
<1> QED
  BY <1>1, <1>2, <1>3, <1>4, <1>5, <1>6, <1>7, <1>8, <1>9, <1>10
     DEF Next, PipelineNext, StageStep, TranscriptStage, FrameStage,
         EvaluationStage, PolicyStage, DeletionStep

\* While no lease ran out a stage has one execution (provider-queue.ts).
LEMMA LeaseStep ==
  ASSUME TypeOK, OneLeasePerStage, stalls' = 0, StallsAreFaults, [Next]_vars
  PROVE  OneLeasePerStage'
<1> USE RetentionNamesAssumption, PipelineNoneAssumption, MaxFaultsAssumption
    DEF TypeOK, OneLeasePerStage, FrameSteps, TranscriptSteps, StageOf,
        Finish, Goto, Take, Load, Begin, Expedite, QueueNext, Active, Eligible,
            FrameEligible, Transitionable, ToReview, ToTechnicalRetry,
            PairAvailable, FreshKeys, Accelerate, caseVars, rowVars, workVars,
            faultVars, pipelineVars, retentionVars, vars
<1>1. ASSUME NEW w \in Workers, UNCHANGED retentionVars,
             (LoadTranscript(w) \/ ReplayTranscript(w) \/ StoreTranscript(w)
                 \/ QueueFrames(w))
      PROVE  OneLeasePerStage'
  BY <1>1 DEF LoadTranscript, ReplayTranscript, StoreTranscript, QueueFrames
<1>2. ASSUME NEW w \in Workers, UNCHANGED retentionVars,
             (LoadFrames(w) \/ CheckFrame(w) \/ ReserveFrame(w) \/ PutFrame(w)
                 \/ StoreFrame(w) \/ QueueEvaluation(w))
      PROVE  OneLeasePerStage'
  BY <1>2 DEF LoadFrames, CheckFrame, ReserveFrame, PutFrame, StoreFrame,
      QueueEvaluation
<1>3. ASSUME NEW w \in Workers, UNCHANGED retentionVars,
             (LoadEvaluation(w) \/ FindPair(w) \/ StorePair(w) \/ LoadPolicy(w)
                 \/ ApplyPolicy(w))
      PROVE  OneLeasePerStage'
  BY <1>3 DEF LoadEvaluation, FindPair, StorePair, LoadPolicy, ApplyPolicy
<1>4. ASSUME NEW w \in Workers, UNCHANGED retentionVars,
             (ProviderFails(w) \/ Crash(w) \/ Expire(w))
      PROVE  OneLeasePerStage'
  BY <1>4 DEF ProviderFails, Crash, Expire
<1>5. CASE (RecoverStages \/ Supersede \/ ToggleAccess
    \/ DeadlineNears) /\ UNCHANGED retentionVars
  BY <1>5 DEF RecoverStages, Supersede, ToggleAccess, DeadlineNears
<1>6. ASSUME NEW to \in {"passed", "retry_required", "technical_retry"},
    DecideReview(to)
      PROVE  OneLeasePerStage'
  BY <1>6 DEF DecideReview
<1>7. CASE AuditRetention \/ ClaimDeletion \/ DeleteObject \/ CompleteDeletion
    \/ ClaimTooEarly \/ FailDeletion
  BY <1>7 DEF AuditRetention, ClaimDeletion, DeleteObject, CompleteDeletion,
      ClaimTooEarly, FailDeletion
<1>8. CASE UNCHANGED vars
  BY <1>8
<1> QED
  BY <1>1, <1>2, <1>3, <1>4, <1>5, <1>6, <1>7, <1>8
     DEF Next, PipelineNext, StageStep, TranscriptStage, FrameStage,
         EvaluationStage, PolicyStage, DeletionStep

\* While no lease ran out every frame object is named by its row and planned by
\* its deletion (frame-selection.ts reserveFrameObject, retention.ts).
LEMMA FrameStep ==
  ASSUME RetentionIInv, stalls' = 0, stalls = 0, [Next]_vars
  PROVE  LeasedFrames'
<1> USE RetentionNamesAssumption, PipelineNoneAssumption, MaxFaultsAssumption
    DEF RetentionIInv, TypeOK, OneLeasePerStage, LeasedFrames, Later, Stored,
        LaterSteps, FrameSteps, TranscriptSteps, HoldsKey, WorkersHoldKeys,
        DeletionComesLate, RecordingIsPlanned, RowsFollowDeletion,
        StallsAreFaults,
        Finish, Goto, Take, Load, Begin, Expedite, QueueNext, Active, Eligible,
            FrameEligible, Transitionable, ToReview, ToTechnicalRetry,
            PairAvailable, FreshKeys, Accelerate, caseVars, rowVars, workVars,
            faultVars, pipelineVars, retentionVars, vars
<1>1. ASSUME NEW w \in Workers, UNCHANGED retentionVars,
             (LoadTranscript(w) \/ ReplayTranscript(w) \/ StoreTranscript(w)
                 \/ QueueFrames(w))
      PROVE  LeasedFrames'
  BY <1>1 DEF LoadTranscript, ReplayTranscript, StoreTranscript, QueueFrames
<1>2. ASSUME NEW w \in Workers, UNCHANGED retentionVars,
             (LoadFrames(w) \/ CheckFrame(w) \/ PutFrame(w) \/ StoreFrame(w)
                 \/ QueueEvaluation(w))
      PROVE  LeasedFrames'
  BY <1>2 DEF LoadFrames, CheckFrame, PutFrame, StoreFrame, QueueEvaluation
<1>3. ASSUME NEW w \in Workers, ReserveFrame(w), UNCHANGED retentionVars
      PROVE  LeasedFrames'
  <2> PICK k \in FreshKeys : IF FrameEligible /\ frame = None
          THEN /\ Goto(w, "put") /\ key' = [key EXCEPT ![w] = k] /\ UNCHANGED leased
               /\ frame' = k
          ELSE Finish(w) /\ UNCHANGED frame
    BY <1>3 DEF ReserveFrame
  <2>1. CASE FrameEligible /\ frame = None
    <3>1. ~Later
      BY <2>1
    <3>2. ~Later'
      BY <1>3, <2>1, <3>1 DEF ReserveFrame
    <3>3. transcript = "active"
      BY <1>3, <2>1 DEF ReserveFrame
    <3>4. \A v \in Workers \ {w} : pc[v] \notin FrameSteps
      BY <1>3 DEF ReserveFrame
    <3>5. /\ pc' = [pc EXCEPT ![w] = "put"] /\ key' = [key EXCEPT ![w] = k]
        /\ frame' = k
          /\ UNCHANGED <<objects, transcript, status, clock, deletion, deleter, plan>>
      BY <1>3, <2>1 DEF ReserveFrame
    <3>6. k \in Keys /\ k \notin objects /\ deletion = "none"
        /\ objects \ {"recording"} = {}
      BY <2>1
    <3>7. \A v \in Workers \ {w} : pc'[v] = pc[v]
      BY <3>5
    <3> HIDE DEF Later
    <3> QED
      BY <2>1, <3>2, <3>3, <3>4, <3>5, <3>6, <3>7
  <2>2. CASE ~(FrameEligible /\ frame = None)
    BY <1>3, <2>2 DEF ReserveFrame
  <2> QED
    BY <2>1, <2>2
<1>4. ASSUME NEW w \in Workers, UNCHANGED retentionVars,
             (LoadEvaluation(w) \/ FindPair(w) \/ StorePair(w) \/ LoadPolicy(w)
                 \/ ApplyPolicy(w))
      PROVE  LeasedFrames'
  BY <1>4 DEF LoadEvaluation, FindPair, StorePair, LoadPolicy, ApplyPolicy
<1>5. ASSUME NEW w \in Workers, UNCHANGED retentionVars,
             (ProviderFails(w) \/ Expire(w))
      PROVE  LeasedFrames'
  BY <1>5 DEF ProviderFails, Expire
<1>6. ASSUME NEW w \in Workers, Crash(w), UNCHANGED retentionVars
      PROVE  LeasedFrames'
  <2>1. pc[w] \in Steps
    BY <1>6, StagesOf DEF Crash
  <2>2. Later' => Later
    <3>1. StageOf[pc[w]] \in {"evaluation", "policy"} => pc[w] \in LaterSteps
      BY <2>1, StagesOf
    <3> QED
      BY <1>6, <3>1 DEF Crash
  <2> QED
    <3> HIDE DEF Later
    <3> QED
      BY <1>6, <2>2 DEF Crash
<1>7. CASE (RecoverStages \/ Supersede \/ ToggleAccess
    \/ DeadlineNears) /\ UNCHANGED retentionVars
  BY <1>7 DEF RecoverStages, Supersede, ToggleAccess, DeadlineNears
<1>8. ASSUME NEW to \in {"passed", "retry_required", "technical_retry"},
    DecideReview(to)
      PROVE  LeasedFrames'
  BY <1>8 DEF DecideReview
<1>9. CASE AuditRetention \/ ClaimTooEarly
  BY <1>9 DEF AuditRetention, ClaimTooEarly
<1>10. CASE ClaimDeletion
  BY <1>10 DEF ClaimDeletion
<1>11. CASE DeleteObject
  BY <1>11 DEF DeleteObject
<1>12. CASE CompleteDeletion
  BY <1>12 DEF CompleteDeletion
<1>13. CASE FailDeletion
  BY <1>13 DEF FailDeletion
<1>14. CASE UNCHANGED vars
  BY <1>14
<1> QED
  BY <1>1, <1>2, <1>3, <1>4, <1>5, <1>6, <1>7, <1>8, <1>9, <1>10, <1>11, <1>12,
      <1>13, <1>14
     DEF Next, PipelineNext, StageStep, TranscriptStage, FrameStage,
         EvaluationStage, PolicyStage, DeletionStep

\* The invariant of retention is inductive.
LEMMA RetentionStep == RetentionIInv /\ [Next]_vars => RetentionIInv'
<1> SUFFICES ASSUME RetentionIInv, [Next]_vars PROVE RetentionIInv'
  OBVIOUS
<1>1. CaseTypes /\ DeletionTypes /\ RowTypes /\ WorkTypes /\ JobTypes /\ FaultTypes
  BY TypeParts DEF RetentionIInv
<1>2. TypeOK' /\ StallsAreFaults' /\ WorkersHoldKeys'
  <2>1. (CaseTypes /\ DeletionTypes /\ RowTypes /\ WorkTypes /\ JobTypes /\ FaultTypes)'
    BY <1>1, CaseStep, DelStep, RowStep, WorkStep, JobStep, FaultStep DEF RetentionIInv
  <2>2. (TypeOK /\ StallsAreFaults)'
    BY <2>1, StagesOf DEF TypeOK, StallsAreFaults, CaseTypes, DeletionTypes,
        RowTypes, WorkTypes, JobTypes, FaultTypes
  <2> QED
    BY <1>1, <2>2, WorkStep DEF RetentionIInv
<1>3. (DeletionComesLate /\ RecordingIsPlanned /\ RowsFollowDeletion)'
  BY DeletionStepLemma
<1>4. stalls' = 0 => stalls = 0
  BY <1>1, FaultStep DEF FaultTypes
<1>5. stalls' = 0 => OneLeasePerStage' /\ LeasedFrames'
  BY <1>4, LeaseStep, FrameStep DEF RetentionIInv
<1> QED
  BY <1>2, <1>3, <1>5 DEF RetentionIInv

\* It implies the safety invariant.
LEMMA RetentionOfIInv == RetentionIInv => RetentionInv
<1> SUFFICES ASSUME RetentionIInv PROVE RetentionInv
  OBVIOUS
<1>1. NothingOutlivesDeletion
  BY DEF RetentionIInv, NothingOutlivesDeletion, RecordingIsPlanned,
      RowsFollowDeletion, LeasedFrames
<1>2. LeasedFramesReferenced
  BY DEF RetentionIInv, LeasedFramesReferenced, FrameObjectsReferenced, LeasedFrames
<1> QED
  BY <1>1, <1>2 DEF RetentionIInv, RetentionInv

\* Retention finds and deletes all there is, for good, for any number of
\* workers, frame keys and faults (retention.ts completeDeletion against
\* provider-pipeline-repository.ts and frame-selection.ts persisting late).
THEOREM RetentionInvariant == Spec => []RetentionInv
<1> QED
  BY InitRetention, RetentionStep, RetentionOfIInv, PTL DEF Spec

\* A policy result is recorded only in a step that still sees its evaluation and
\* recording (provider-pipeline-repository.ts applyPolicy).
THEOREM PolicyEvidence == Spec => PolicyNeedsEvidence
<1>1. [Next]_vars => [reason # "valid_policy" /\ reason' = "valid_policy" =>
          recording = "active" /\ pair \in Workers /\ clock < 2]_vars
  BY DEF Next, PipelineNext, StageStep, TranscriptStage, FrameStage, EvaluationStage,
    PolicyStage, DeletionStep, LoadTranscript, ReplayTranscript, StoreTranscript,
        QueueFrames,
    LoadFrames, CheckFrame, ReserveFrame, PutFrame, StoreFrame, QueueEvaluation,
    LoadEvaluation, FindPair, StorePair, LoadPolicy, ApplyPolicy, ProviderFails,
        Crash, Expire,
    RecoverStages, Supersede, ToggleAccess, DeadlineNears, DecideReview, AuditRetention,
    ClaimDeletion, DeleteObject, CompleteDeletion, ClaimTooEarly, FailDeletion,
        Load, QueueNext,
    ToReview, ToTechnicalRetry, caseVars, pipelineVars, vars
<1> QED
  BY <1>1, PTL DEF Spec, PolicyNeedsEvidence

\* The first stored evaluation is final (provider-pipeline-repository.ts
\* persistPair).
THEOREM EvaluationFinal == Spec => EvaluationIsFinal
<1>1. [Next]_vars => [pair # None => pair' \in {pair, "deleted"}]_vars
  BY DEF Next, PipelineNext, StageStep, TranscriptStage, FrameStage, EvaluationStage,
    PolicyStage, DeletionStep, LoadTranscript, ReplayTranscript, StoreTranscript,
        QueueFrames,
    LoadFrames, CheckFrame, ReserveFrame, PutFrame, StoreFrame, QueueEvaluation,
    LoadEvaluation, FindPair, StorePair, LoadPolicy, ApplyPolicy, ProviderFails,
        Crash, Expire,
    RecoverStages, Supersede, ToggleAccess, DeadlineNears, DecideReview, AuditRetention,
    ClaimDeletion, DeleteObject, CompleteDeletion, ClaimTooEarly, FailDeletion,
        Load, QueueNext,
    rowVars, pipelineVars, vars
<1> QED
  BY <1>1, PTL DEF Spec, EvaluationIsFinal

-----------------------------------------------------------------------------
(* Capabilities: the locks serialise the requests, and a use is recorded   *)
(* in the step that opens.                                                 *)

\* Where a request holds the lock of the attempt, or of every row.
Locking == {"locked", "leased"}

\* A use is recorded when its capability opened, not before, and nobody else
\* may be about to record it.
Recorded(r) ==
  /\ request[r].pc # "idle" => Capability!Use(r) \in Capability!AllEndpoints \X Tokens
  /\ request[r].opened => Capability!Use(r) \in uses
  /\ request[r].pc \in Locking => Capability!Use(r) \notin uses
  /\ request[r].pc = "locked" => request[r].endpoint = "stream"
  /\ request[r].pc = "leased" => request[r].endpoint = "context"
UseIsRecordedOnce == \A r \in Requests : Recorded(r)

\* The attempt lock is exclusive (FOR UPDATE OF attempt).
OneLocks ==
  \A q, r \in Requests :
    request[q].pc \in Locking /\ request[r].pc \in Locking => q = r

\* What the locks keep in place until the effect.
LockedIsAuthorized ==
  \A r \in Requests :
    /\ request[r].pc \in Locking => review /\ current
    /\ request[r].pc = "leased" => active /\ kept

\* The inductive invariant of capabilities.
CapabilityIInv ==
  /\ Capability!TypeOK
  /\ UseIsRecordedOnce
  /\ OneLocks
  /\ LockedIsAuthorized
  /\ Capability!CapabilityOpensOnce

\* Before anything is issued the invariant holds.
LEMMA CapInit == Capability!Init => CapabilityIInv
<1> SUFFICES ASSUME Capability!Init PROVE CapabilityIInv
  OBVIOUS
<1>1. Capability!TypeOK
  BY DEF Capability!Init, Capability!TypeOK, Capability!Kinds
<1>2. \A r \in Requests : request[r].pc = "idle" /\ ~request[r].opened
  BY DEF Capability!Init
<1> QED
  BY <1>1, <1>2 DEF CapabilityIInv, UseIsRecordedOnce, Recorded, OneLocks,
     LockedIsAuthorized, Capability!CapabilityOpensOnce, Locking

\* A request that neither takes locks nor opens anything.
LEMMA StepsAside ==
  ASSUME CapabilityIInv, NEW r \in Requests, Capability!TypeOK',
         \A q \in Requests \ {r} : request'[q] = request[q],
         request'[r].pc \notin Locking,
         request'[r].opened => request[r].opened /\ Capability!Use(r)' = Capability!Use(r),
         request'[r].pc # "idle" => Capability!Use(r)' \in Capability!AllEndpoints \X Tokens,
         UNCHANGED <<active, current, review, kept, uses>>
  PROVE  CapabilityIInv'
<1> USE DEF CapabilityIInv, Capability!Use
<1>1. UseIsRecordedOnce'
  <2> SUFFICES ASSUME NEW q \in Requests
               PROVE  Recorded(q)'
    BY DEF UseIsRecordedOnce
  <2>1. CASE q = r
    BY <2>1 DEF UseIsRecordedOnce, Recorded, Locking
  <2>2. CASE q # r
    BY <2>2 DEF UseIsRecordedOnce, Recorded
  <2> QED
    BY <2>1, <2>2
<1>2. OneLocks' /\ LockedIsAuthorized'
  BY DEF OneLocks, LockedIsAuthorized, Locking
<1>3. Capability!CapabilityOpensOnce'
  BY DEF Capability!CapabilityOpensOnce
<1> QED
  BY <1>1, <1>2, <1>3

\* A request that locks the rows: nobody else holds them, its use is not
\* recorded, and what it read holds.
LEMMA TakesLocks ==
  ASSUME CapabilityIInv, NEW r \in Requests, Capability!TypeOK',
         request[r].pc # "idle",
         \A q \in Requests \ {r} : request'[q] = request[q],
         \A q \in Requests : request[q].pc \notin Locking,
         Capability!Use(r) \notin uses, Capability!Use(r)' = Capability!Use(r),
         request'[r].opened = request[r].opened,
         review /\ current,
         \/ request'[r].pc = "locked" /\ request'[r].endpoint = "stream"
         \/ request'[r].pc = "leased" /\ request'[r].endpoint = "context" /\ active /\ kept,
         UNCHANGED <<active, current, review, kept, uses>>
  PROVE  CapabilityIInv'
<1> USE DEF CapabilityIInv, Capability!Use
<1>1. UseIsRecordedOnce'
  <2> SUFFICES ASSUME NEW q \in Requests
               PROVE  Recorded(q)'
    BY DEF UseIsRecordedOnce
  <2>1. CASE q = r
    BY <2>1 DEF UseIsRecordedOnce, Recorded, Locking
  <2>2. CASE q # r
    BY <2>2 DEF UseIsRecordedOnce, Recorded
  <2> QED
    BY <2>1, <2>2
<1>2. OneLocks' /\ LockedIsAuthorized'
  BY DEF OneLocks, LockedIsAuthorized, Locking
<1>3. Capability!CapabilityOpensOnce'
  BY DEF Capability!CapabilityOpensOnce
<1> QED
  BY <1>1, <1>2, <1>3

\* A request that records its use and opens what the capability names.
LEMMA OpensAlone ==
  ASSUME CapabilityIInv, NEW r \in Requests, Capability!TypeOK',
         request[r].pc # "idle",
         \A q \in Requests \ {r} : request'[q] = request[q],
         \A q \in Requests \ {r} : request[q].pc \in Locking => request[q].endpoint # request[r].endpoint,
         Capability!Use(r) \notin uses, Capability!Use(r)' = Capability!Use(r),
         uses' = uses \cup {Capability!Use(r)},
         request'[r].pc \notin Locking,
         UNCHANGED <<active, current, review, kept>>
  PROVE  CapabilityIInv'
<1> USE DEF CapabilityIInv, Capability!Use
<1>1. UseIsRecordedOnce'
  <2> SUFFICES ASSUME NEW q \in Requests
               PROVE  Recorded(q)'
    BY DEF UseIsRecordedOnce
  <2>1. CASE q = r
    BY <2>1 DEF UseIsRecordedOnce, Recorded, Locking
  <2>2. CASE q # r
    BY <2>2 DEF UseIsRecordedOnce, Recorded
  <2> QED
    BY <2>1, <2>2
<1>2. OneLocks' /\ LockedIsAuthorized'
  BY DEF OneLocks, LockedIsAuthorized, Locking
<1>3. Capability!CapabilityOpensOnce'
  BY DEF Capability!CapabilityOpensOnce, UseIsRecordedOnce, Recorded
<1> QED
  BY <1>1, <1>2, <1>3

\* The invariant of capabilities is inductive.
LEMMA CapStep ==
  CapabilityIInv /\ [Capability!Next]_(Capability!vars) => CapabilityIInv'
<1> SUFFICES ASSUME CapabilityIInv, [Capability!Next]_(Capability!vars)
             PROVE  CapabilityIInv'
  OBVIOUS
<1>0. Capability!TypeOK /\ UseIsRecordedOnce /\ OneLocks /\ LockedIsAuthorized
      /\ Capability!CapabilityOpensOnce
  BY DEF CapabilityIInv
<1>1. ASSUME UNCHANGED <<active, current, review, kept, uses, request>>,
             Capability!TypeOK'
      PROVE  CapabilityIInv'
  BY <1>0, <1>1 DEF CapabilityIInv, UseIsRecordedOnce, Recorded, OneLocks,
     LockedIsAuthorized, Capability!CapabilityOpensOnce, Capability!Use
<1>2. ASSUME NEW t \in Tokens, NEW kind \in Capability!Kinds,
             Capability!Issue(t, kind)
      PROVE  CapabilityIInv'
  <2>1. Capability!TypeOK'
    BY <1>0, <1>2 DEF Capability!Issue, Capability!TypeOK, Capability!world
  <2> QED
    BY <1>1, <1>2, <2>1 DEF Capability!Issue, Capability!world
<1>3. ASSUME NEW t \in Tokens, Capability!Expire(t)
      PROVE  CapabilityIInv'
  <2>1. Capability!TypeOK'
    BY <1>0, <1>3 DEF Capability!Expire, Capability!TypeOK, Capability!world
  <2> QED
    BY <1>1, <1>3, <2>1 DEF Capability!Expire, Capability!world
<1>4. ASSUME NEW r \in Requests, NEW t \in Tokens,
             NEW e \in Capability!AllEndpoints, Capability!Present(r, t, e)
      PROVE  CapabilityIInv'
  <2>1. Capability!TypeOK'
    BY <1>0, <1>4 DEF Capability!Present, Capability!TypeOK, Capability!world
  <2>2. request'[r].pc \in {"ended", "verified"} /\ ~request'[r].opened
        /\ Capability!Use(r)' = <<e, t>>
    BY <1>0, <1>4 DEF Capability!Present, Capability!TypeOK, Capability!Use
  <2> QED
    BY <1>4, <2>1, <2>2, StepsAside
       DEF Capability!Present, Capability!TypeOK, Capability!world, Locking
<1>5. ASSUME NEW r \in Requests, Capability!LockAttempt(r)
      PROVE  CapabilityIInv'
  <2>1. \A q \in Requests : request[q].pc \notin Locking
    BY <1>5 DEF Capability!LockAttempt, Capability!AttemptLocked,
       Capability!RowsLocked, Capability!At, Locking
  <2>2. request[r].pc = "verified" /\ request[r].endpoint = "stream"
        /\ UNCHANGED <<active, current, review, due, kept, token, uses>>
    BY <1>5 DEF Capability!LockAttempt, Capability!world, Capability!At
  <2>3. Capability!Use(r) \in Capability!AllEndpoints \X Tokens
    BY <1>0, <2>2 DEF UseIsRecordedOnce, Recorded
  <2>4. \E p \in {"locked", "ended"} : request' = [request EXCEPT ![r].pc = p]
    BY <1>5 DEF Capability!LockAttempt
  <2>5. Capability!TypeOK'
    BY <1>0, <2>2, <2>4 DEF Capability!TypeOK
  <2>6. /\ \A q \in Requests \ {r} : request'[q] = request[q]
        /\ request'[r].pc \in {"locked", "ended"}
        /\ request'[r].opened = request[r].opened
        /\ request'[r].endpoint = "stream"
        /\ Capability!Use(r)' = Capability!Use(r)
    BY <1>0, <2>2, <2>4 DEF Capability!TypeOK, Capability!Use
  <2>7. CASE request'[r].pc = "locked"
    <3>1. Capability!Streamable(r) /\ Capability!Use(r) \notin uses
      BY <1>0, <1>5, <2>7 DEF Capability!LockAttempt, Capability!TypeOK
    <3> QED
      BY <2>1, <2>2, <2>5, <2>6, <2>7, <3>1, TakesLocks
         DEF Capability!Streamable, Capability!Reviewable
  <2>8. CASE request'[r].pc = "ended"
    BY <2>2, <2>3, <2>5, <2>6, <2>8, StepsAside DEF Locking
  <2> QED
    BY <2>6, <2>7, <2>8
<1>6. ASSUME NEW r \in Requests, Capability!LeaseContext(r)
      PROVE  CapabilityIInv'
  <2>1. \A q \in Requests : request[q].pc \notin Locking
    BY <1>6 DEF Capability!LeaseContext, Capability!AttemptLocked,
       Capability!RowsLocked, Capability!At, Locking
  <2>2. request[r].pc = "verified" /\ request[r].endpoint = "context"
        /\ UNCHANGED <<active, current, review, due, kept, token, uses>>
    BY <1>6 DEF Capability!LeaseContext, Capability!world, Capability!At
  <2>3. Capability!Use(r) \in Capability!AllEndpoints \X Tokens
    BY <1>0, <2>2 DEF UseIsRecordedOnce, Recorded
  <2>4. \E p \in {"leased", "ended"} : request' = [request EXCEPT ![r].pc = p]
    BY <1>6 DEF Capability!LeaseContext
  <2>5. Capability!TypeOK'
    BY <1>0, <2>2, <2>4 DEF Capability!TypeOK
  <2>6. /\ \A q \in Requests \ {r} : request'[q] = request[q]
        /\ request'[r].pc \in {"leased", "ended"}
        /\ request'[r].opened = request[r].opened
        /\ request'[r].endpoint = "context"
        /\ Capability!Use(r)' = Capability!Use(r)
    BY <1>0, <2>2, <2>4 DEF Capability!TypeOK, Capability!Use
  <2>7. CASE request'[r].pc = "leased"
    <3>1. Capability!Reviewable /\ Capability!Use(r) \notin uses
      BY <1>0, <1>6, <2>7 DEF Capability!LeaseContext, Capability!TypeOK
    <3> QED
      BY <2>1, <2>2, <2>5, <2>6, <2>7, <3>1, TakesLocks
         DEF Capability!Streamable, Capability!Reviewable
  <2>8. CASE request'[r].pc = "ended"
    BY <2>2, <2>3, <2>5, <2>6, <2>8, StepsAside DEF Locking
  <2> QED
    BY <2>6, <2>7, <2>8
<1>7. ASSUME NEW r \in Requests,
             Capability!OpenStream(r) \/ Capability!ServeContext(r)
      PROVE  CapabilityIInv'
  <2>1. request[r].pc \in Locking
    BY <1>7 DEF Capability!OpenStream, Capability!ServeContext, Capability!At, Locking
  <2>2. uses' = uses \cup {Capability!Use(r)} /\ UNCHANGED <<active, current,
      review, due, kept, token>>
    BY <1>7 DEF Capability!OpenStream, Capability!ServeContext, Capability!world
  <2>3. \E p \in {"streaming", "served"} :
          request' = [request EXCEPT ![r].pc = p, ![r].opened = TRUE]
    BY <1>7 DEF Capability!OpenStream, Capability!ServeContext
  <2>4. Capability!Use(r) \in Capability!AllEndpoints \X Tokens
    BY <1>0, <2>1 DEF UseIsRecordedOnce, Recorded, Locking
  <2>5. Capability!TypeOK' /\ Capability!Use(r)' = Capability!Use(r)
        /\ request'[r].pc \notin Locking
        /\ \A q \in Requests \ {r} : request'[q] = request[q]
    <3>1. PICK p \in {"streaming", "served"} :
            request' = [request EXCEPT ![r].pc = p, ![r].opened = TRUE]
      BY <2>3
    <3>2. request' \in [Requests ->
            [pc: {"idle", "verified", "locked", "leased",
                "ended"} \cup Capability!Opened,
             endpoint: Capability!AllEndpoints \cup {None}, token: Tokens \cup {None},
             due: BOOLEAN, opened: BOOLEAN]]
      <4>1. p \in Capability!Opened
        BY DEF Capability!Opened
      <4> QED
        BY <1>0, <3>1, <4>1 DEF Capability!TypeOK
    <3>3. uses' \subseteq Capability!AllEndpoints \X Tokens
      BY <1>0, <2>2, <2>4 DEF Capability!TypeOK
    <3>4. Capability!TypeOK'
      BY <1>0, <2>2, <3>2, <3>3 DEF Capability!TypeOK
    <3> QED
      BY <1>0, <3>1, <3>4 DEF Capability!TypeOK, Capability!Use, Locking
  <2>6. \A q \in Requests \ {r} : request[q].pc \notin Locking
    BY <1>0, <2>1 DEF OneLocks
  <2>7. Capability!Use(r) \notin uses
    BY <1>0, <2>1 DEF UseIsRecordedOnce, Recorded
  <2>8. request[r].pc # "idle"
    BY <2>1 DEF Locking
  <2> QED
    BY <2>2, <2>5, <2>6, <2>7, <2>8, OpensAlone
<1>8. ASSUME NEW r \in Requests,
             Capability!EndStream(r) \/ Capability!FailContext(r)
                 \/ Capability!WritePractice(r)
      PROVE  CapabilityIInv'
  <2>1. request[r].pc # "idle" /\ UNCHANGED <<active, current, review, due, kept,
      token, uses>>
    BY <1>8 DEF Capability!EndStream, Capability!FailContext, Capability!WritePractice,
       Capability!world, Capability!At
  <2>2. \E p \in {"ended", "written"} : request' = [request EXCEPT ![r].pc = p]
    BY <1>8 DEF Capability!EndStream, Capability!FailContext, Capability!WritePractice
  <2>3. Capability!TypeOK'
    BY <1>0, <2>1, <2>2 DEF Capability!TypeOK, Capability!Opened
  <2>4. request'[r].pc \notin Locking /\ request'[r].opened = request[r].opened
        /\ Capability!Use(r)' = Capability!Use(r)
    BY <1>0, <2>2 DEF Capability!TypeOK, Capability!Use, Locking
  <2>5. Capability!Use(r) \in Capability!AllEndpoints \X Tokens
    BY <1>0, <2>1 DEF UseIsRecordedOnce, Recorded
  <2>6. \A q \in Requests \ {r} : request'[q] = request[q]
    BY <1>0, <2>2 DEF Capability!TypeOK
  <2> QED
    BY <2>1, <2>3, <2>4, <2>5, <2>6, StepsAside
<1>9. ASSUME NEW r \in Requests, Capability!ConsumePractice(r)
      PROVE  CapabilityIInv'
  <2>1. request[r].pc = "verified" /\ request[r].endpoint \in {"read", "submit"}
        /\ UNCHANGED <<active, current, review, due, kept, token>>
    BY <1>9 DEF Capability!ConsumePractice, Capability!world, Capability!At
  <2>2. Capability!Use(r) \in Capability!AllEndpoints \X Tokens
    BY <1>0, <2>1 DEF UseIsRecordedOnce, Recorded
  <2>3. Capability!TypeOK' /\ Capability!Use(r)' = Capability!Use(r)
        /\ request'[r].pc \in {"consumed", "ended"}
        /\ \A q \in Requests \ {r} : request'[q] = request[q]
    <3>1. CASE active /\ current /\ Capability!Use(r) \notin uses
      <4>1. request' = [request EXCEPT ![r].opened = TRUE, ![r].pc = "consumed"]
            /\ uses' = uses \cup {Capability!Use(r)}
        BY <1>9, <3>1 DEF Capability!ConsumePractice
      <4> QED
        BY <1>0, <2>1, <2>2, <4>1 DEF Capability!TypeOK, Capability!Use,
            Capability!Opened
    <3>2. CASE ~(active /\ current /\ Capability!Use(r) \notin uses)
      <4>1. request' = [request EXCEPT ![r].opened = FALSE, ![r].pc = "ended"]
            /\ uses' = uses
        BY <1>9, <3>2 DEF Capability!ConsumePractice
      <4> QED
        BY <1>0, <2>1, <2>2, <4>1 DEF Capability!TypeOK, Capability!Use,
            Capability!Opened
    <3> QED
      BY <3>1, <3>2
  <2>4. CASE active /\ current /\ Capability!Use(r) \notin uses
    <3>1. uses' = uses \cup {Capability!Use(r)}
      BY <1>9, <2>4 DEF Capability!ConsumePractice
    <3>2. \A q \in Requests \ {r} :
            request[q].pc \in Locking => request[q].endpoint # request[r].endpoint
      BY <1>0, <2>1 DEF UseIsRecordedOnce, Recorded, Locking
    <3>3. request[r].pc # "idle" /\ request'[r].pc \notin Locking
      BY <2>1, <2>3 DEF Locking
    <3> QED
      BY <2>1, <2>3, <2>4, <3>1, <3>2, <3>3, OpensAlone
  <2>5. CASE ~(active /\ current /\ Capability!Use(r) \notin uses)
    <3>1. uses' = uses /\ ~request'[r].opened
      BY <1>0, <1>9, <2>5 DEF Capability!ConsumePractice, Capability!TypeOK
    <3>2. request'[r].pc \notin Locking
      BY <2>3 DEF Locking
    <3> QED
      BY <2>1, <2>2, <2>3, <3>1, <3>2, StepsAside
  <2> QED
    BY <2>4, <2>5
<1>10. ASSUME Capability!Crash
       PROVE  CapabilityIInv'
  <2>1. UNCHANGED <<active, current, review, due, kept, token, uses>>
    BY <1>10 DEF Capability!Crash, Capability!world
  <2>2. \A q \in Requests :
          /\ request'[q].pc \in {"idle", "ended"}
          /\ request'[q].pc = "idle" <=> request[q].pc = "idle"
          /\ request'[q].opened = request[q].opened
          /\ Capability!Use(q)' = Capability!Use(q)
    BY <1>0, <1>10 DEF Capability!Crash, Capability!TypeOK, Capability!At,
        Capability!Use
  <2>3. Capability!TypeOK'
    BY <1>0, <1>10, <2>1 DEF Capability!Crash, Capability!TypeOK
  <2>4. UseIsRecordedOnce'
    BY <1>0, <2>1, <2>2 DEF UseIsRecordedOnce, Recorded, Locking
  <2>5. OneLocks' /\ LockedIsAuthorized'
    BY <2>2 DEF OneLocks, LockedIsAuthorized, Locking
  <2>6. Capability!CapabilityOpensOnce'
    BY <1>0, <2>2 DEF Capability!CapabilityOpensOnce
  <2> QED
    BY <2>3, <2>4, <2>5, <2>6 DEF CapabilityIInv
<1>11. ASSUME Capability!Decide \/ Capability!Supersede \/ Capability!Withdraw
              \/ Capability!DueTimePasses \/ Capability!Delete
       PROVE  CapabilityIInv'
  <2>1. UNCHANGED <<token, uses, request>>
    BY <1>11 DEF Capability!Decide, Capability!Supersede, Capability!Withdraw,
       Capability!DueTimePasses, Capability!Delete
  <2>2. Capability!TypeOK'
    BY <1>0, <1>11 DEF Capability!TypeOK, Capability!Decide, Capability!Supersede,
       Capability!Withdraw, Capability!DueTimePasses, Capability!Delete
  <2>3. LockedIsAuthorized'
    BY <1>0, <1>11 DEF LockedIsAuthorized, Locking, Capability!Decide,
       Capability!Supersede, Capability!Withdraw, Capability!DueTimePasses,
       Capability!Delete, Capability!AttemptLocked, Capability!RowsLocked, Capability!At
  <2> QED
    BY <1>0, <2>1, <2>2, <2>3 DEF CapabilityIInv, UseIsRecordedOnce, Recorded,
       OneLocks, Capability!CapabilityOpensOnce, Capability!Use
<1>12. CASE UNCHANGED Capability!vars
  <2>1. Capability!TypeOK'
    BY <1>0, <1>12 DEF Capability!vars, Capability!TypeOK
  <2> QED
    BY <1>1, <1>12, <2>1 DEF Capability!vars
<1> QED
  BY <1>2, <1>3, <1>4, <1>5, <1>6, <1>7, <1>8, <1>9, <1>10, <1>11, <1>12
     DEF Capability!Next

\* However many requests present a capability, each of its endpoints opens once
\* (review-stream.ts, review-context.ts and practice-http.ts replay checks).
THEOREM CapabilityInvariant == PartSpec => []CapabilityOpensOnce
<1>1. PartInit => CapabilityIInv
  BY CapInit DEF PartInit
<1>2. CapabilityIInv /\ [PartNext]_<<part, retainedVars, useVars>> => CapabilityIInv'
  <2>1. [PartNext]_<<part, retainedVars,
      useVars>> => [Capability!Next]_(Capability!vars)
    BY DEF PartNext, useVars, Capability!vars
  <2> QED
    BY <2>1, CapStep
<1>3. CapabilityIInv => CapabilityOpensOnce
  BY DEF CapabilityIInv, CapabilityOpensOnce
<1> QED
  BY <1>1, <1>2, <1>3, PTL DEF PartSpec

\* What a capability opens or writes is authorized at that moment, although it
\* was checked earlier (assertLeaseStillActive, startPracticeSession).
THEOREM OpensAuthorized == PartSpec => OpensWhileAuthorized
<1>1. PartInit => CapabilityIInv
  BY CapInit DEF PartInit
<1>2. [PartNext]_<<part, retainedVars, useVars>> => [Capability!Next]_(Capability!vars)
  BY DEF PartNext, useVars, Capability!vars
<1> DEFINE Opens(r) ==
             /\ Capability!At(r, "locked") /\ request'[r].pc = "streaming" => review /\ current
             /\ Capability!At(r, "leased") /\ request'[r].pc = "served" => Capability!Reviewable
           Writes(r) ==
             Capability!At(r, "consumed") /\ request'[r].pc = "written" => active /\ current
<1>3. CapabilityIInv /\ [PartNext]_<<part, retainedVars, useVars>>
        => CapabilityIInv' /\ [\A r \in Requests : Opens(r)]_(Capability!vars)
                           /\ [\A r \in Requests : Writes(r)]_(Capability!vars)
  <2> SUFFICES ASSUME CapabilityIInv, Capability!Next, NEW q \in Requests
               PROVE  Opens(q) /\ Writes(q)
    BY <1>2, CapStep
  <2>0. Capability!TypeOK /\ LockedIsAuthorized
    BY DEF CapabilityIInv
  <2>1. Capability!At(q, "locked") => review /\ current
    BY <2>0 DEF LockedIsAuthorized, Locking, Capability!At
  <2>2. ASSUME Capability!At(q, "leased"), request'[q].pc = "served"
        PROVE  Capability!Reviewable
    <3>1. review /\ current /\ active /\ kept
      BY <2>0, <2>2 DEF LockedIsAuthorized, Locking, Capability!At
    <3>2. ~due
      BY <2>0, <2>2 DEF Capability!Next, Capability!Issue, Capability!Expire,
         Capability!Present, Capability!LockAttempt, Capability!OpenStream,
         Capability!EndStream, Capability!LeaseContext, Capability!ServeContext,
         Capability!FailContext, Capability!ConsumePractice, Capability!WritePractice,
         Capability!Crash, Capability!Decide, Capability!Supersede,
         Capability!Withdraw, Capability!DueTimePasses, Capability!Delete,
         Capability!LeaseOver, Capability!TypeOK, Capability!At
    <3> QED
      BY <3>1, <3>2 DEF Capability!Reviewable
  <2>3. ASSUME Capability!At(q, "consumed"), request'[q].pc = "written"
        PROVE  active /\ current
    BY <2>0, <2>3 DEF Capability!Next, Capability!Issue, Capability!Expire,
       Capability!Present, Capability!LockAttempt, Capability!OpenStream,
       Capability!EndStream, Capability!LeaseContext, Capability!ServeContext,
       Capability!FailContext, Capability!ConsumePractice, Capability!WritePractice,
       Capability!Crash, Capability!Decide, Capability!Supersede,
       Capability!Withdraw, Capability!DueTimePasses, Capability!Delete,
       Capability!MayWrite, Capability!TypeOK, Capability!At
  <2> QED
    BY <2>1, <2>2, <2>3
<1> QED
  BY <1>1, <1>3, PTL DEF PartSpec, OpensWhileAuthorized,
      Capability!OpensWhileAuthorized,
     Capability!OpensUnderReview, Capability!PracticeWriteIsAuthorized
=============================================================================
