-------------------------- MODULE ProviderPipeline --------------------------
(***************************************************************************)
(* The provider pipeline of one processing attempt with its recording:     *)
(* transcript, frame, evaluation pair, policy.  Each stage is a pg-boss    *)
(* job whose handler reads a context, awaits a provider and persists under *)
(* new conditions; an action is one transaction or one storage call.       *)
(* Several executions may overlap: a job that outlives its expiry is       *)
(* delivered again while its first handler is still running.               *)
(***************************************************************************)
EXTENDS Integers, FiniteSets

CONSTANTS
    Workers,    \* concurrent handler executions
    Keys,       \* object keys of extracted frames, one per extraction
    MaxFaults,  \* bound on crashes, errors, job expiries and suspensions
    None

ASSUME PipelineNoneAssumption == None \notin Keys /\ "deleted" \notin Keys
ASSUME MaxFaultsAssumption == MaxFaults \in Nat

VARIABLES
    status,      \* attempts.status
    reason,      \* why it is under review (audit_events)
    head,        \* revision current, pull request open
    access,      \* repository and installation active
    clock,       \* evidence deadline: 0 far, 1 within 15 minutes, 2 passed
    recording,   \* recording_objects row
    transcript,  \* transcripts row
    frame,       \* frame_selections row: the object key it names
    pair,        \* evaluations row and its sidecar: who wrote them
    objects,     \* object store: the recording and frame keys
    jobs,        \* stages with a queued job
    pc,          \* handler executions
    key,         \* the frame key an execution works with
    leased,      \* pg-boss still counts the execution as the active job
    faults, stalls  \* faults so far, and expiries among them

rowVars == <<recording, transcript, frame, pair>>
caseVars == <<status, reason, head, access, clock>>
workVars == <<pc, key, leased>>
faultVars == <<faults, stalls>>
pipelineVars == <<caseVars, rowVars, objects, jobs, workVars, faultVars>>

Stages == {"transcript", "frames", "evaluation", "policy"}

\* The stage an execution at a program counter belongs to.
StageOf == [replay_transcript |-> "transcript", transcribe |-> "transcript",
            queue_frames |-> "transcript",
            check_frame |-> "frames", extract |-> "frames", put |-> "frames",
            store_frame |-> "frames", queue_evaluation |-> "frames",
            find_pair |-> "evaluation", judge |-> "evaluation",
            apply_policy |-> "policy"]

Active(w) == pc[w] # "idle"

\* The media worker persisted a recording and queued the first stage.
Init ==
    /\ status = "processing" /\ reason = "none" /\ head = TRUE /\ access = TRUE /\ clock = 0
    /\ recording = "active" /\ transcript = "none" /\ frame = None /\ pair = None
    /\ objects = {"recording"} /\ jobs = {"transcript"}
    /\ pc = [w \in Workers |-> "idle"] /\ key = [w \in Workers |-> None]
    /\ leased = [w \in Workers |-> FALSE]
    /\ faults = 0 /\ stalls = 0

-----------------------------------------------------------------------------
(* What every load and every persist checks in its own snapshot.           *)

Eligible ==
    /\ status = "processing" /\ head /\ access
    /\ recording = "active" /\ clock < 2

\* Reserving or repairing a frame asks for 15 more minutes.
FrameEligible == Eligible /\ clock = 0

Goto(w, p) == pc' = [pc EXCEPT ![w] = p]

\* The execution ends and pg-boss completes its job.
Finish(w) ==
    /\ Goto(w, "idle")
    /\ key' = [key EXCEPT ![w] = None]
    /\ leased' = [leased EXCEPT ![w] = FALSE]

\* key_strict_fifo: one active job per attempt and stage.
Take(w, s) ==
    /\ pc[w] = "idle" /\ s \in jobs
    /\ \A v \in Workers : Active(v) /\ StageOf[pc[v]] = s => ~leased[v]
    /\ jobs' = jobs \ {s}

Begin(w, p) ==
    /\ Goto(w, p)
    /\ leased' = [leased EXCEPT ![w] = TRUE]
    /\ UNCHANGED key

\* A stage's first step: read the context, end as stale or go on.
Load(w, s, usable, p) ==
    /\ Take(w, s)
    /\ IF Eligible /\ usable THEN Begin(w, p) ELSE UNCHANGED workVars
    /\ UNCHANGED <<caseVars, rowVars, objects, faultVars>>

\* The downstream job is inserted, or the queued one moved to the front.
Expedite(s) == jobs' = jobs \cup {s}

-----------------------------------------------------------------------------
(* media.extract-transcript                                                *)

LoadTranscript(w) ==
    Load(w, "transcript", transcript # "deleted",
         IF transcript = "active" THEN "replay_transcript" ELSE "transcribe")

\* schedulePersistedTranscript checks again under row locks.
ReplayTranscript(w) ==
    /\ pc[w] = "replay_transcript"
    /\ Finish(w)
    /\ IF Eligible /\ transcript = "active" THEN Expedite("frames") ELSE UNCHANGED jobs
    /\ UNCHANGED <<caseVars, rowVars, objects, faultVars>>

\* Faulty variant: the row is inserted without looking at the attempt again.
StoreTranscriptUnchecked(w) ==
    /\ pc[w] = "transcribe"
    /\ Goto(w, "queue_frames") /\ transcript' = "active" /\ UNCHANGED <<key, leased>>
    /\ UNCHANGED <<caseVars, recording, frame, pair, objects, jobs, faultVars>>

\* The provider answered: an active row wins, else the own one is inserted.
StoreTranscript(w) ==
    /\ pc[w] = "transcribe"
    /\ IF Eligible /\ transcript # "deleted"
       THEN Goto(w, "queue_frames") /\ transcript' = "active" /\ UNCHANGED <<key, leased>>
       ELSE Finish(w) /\ UNCHANGED transcript
    /\ UNCHANGED <<caseVars, recording, frame, pair, objects, jobs, faultVars>>

\* The next job is queued in a step of its own: a crash in between loses it.
QueueNext(w, p, s) ==
    /\ pc[w] = p
    /\ Finish(w)
    /\ Expedite(s)
    /\ UNCHANGED <<caseVars, rowVars, objects, faultVars>>

QueueFrames(w) == QueueNext(w, "queue_frames", "frames")

TranscriptStage(w) ==
    \/ LoadTranscript(w) \/ ReplayTranscript(w)
    \/ StoreTranscript(w) \/ QueueFrames(w)

-----------------------------------------------------------------------------
(* media.select-frames                                                     *)

\* loadFrameSelection, then loadExistingFrames: the row and the key it names.
LoadFrames(w) ==
    /\ Take(w, "frames")
    /\ IF FrameEligible /\ transcript = "active"
       THEN /\ Goto(w, IF frame \in Keys THEN "check_frame" ELSE "extract")
            /\ key' = [key EXCEPT ![w] = IF frame \in Keys THEN frame ELSE None]
            /\ leased' = [leased EXCEPT ![w] = TRUE]
       ELSE UNCHANGED workVars
    /\ UNCHANGED <<caseVars, rowVars, objects, faultVars>>

\* headObject; a reservation without an object is deleted.
CheckFrame(w) ==
    /\ pc[w] = "check_frame"
    /\ \/ /\ key[w] \in objects
          /\ Goto(w, "store_frame")
          /\ UNCHANGED <<key, leased, frame>>
       \/ /\ key[w] \notin objects /\ frame = key[w] /\ FrameEligible
          /\ Goto(w, "extract")
          /\ key' = [key EXCEPT ![w] = None]
          /\ frame' = None
          /\ UNCHANGED leased
       \/ /\ key[w] \notin objects /\ ~(frame = key[w] /\ FrameEligible)
          /\ Finish(w) /\ UNCHANGED frame
    /\ UNCHANGED <<caseVars, recording, transcript, pair, objects, jobs, faultVars>>

\* Every extraction encrypts anew, so its object key is new.
FreshKeys == Keys \ (objects \cup {frame} \cup {key[v] : v \in Workers})

\* reserveFrameObject: the key is durable before the object exists.
ReserveFrame(w) ==
    /\ pc[w] = "extract"
    /\ \E k \in FreshKeys :
          IF FrameEligible /\ frame = None
          THEN /\ Goto(w, "put") /\ key' = [key EXCEPT ![w] = k] /\ UNCHANGED leased
               /\ frame' = k
          ELSE Finish(w) /\ UNCHANGED frame
    /\ UNCHANGED <<caseVars, recording, transcript, pair, objects, jobs, faultVars>>

PutFrame(w) ==
    /\ pc[w] = "put"
    /\ Goto(w, "store_frame")
    /\ objects' = objects \cup {key[w]}
    /\ UNCHANGED <<caseVars, rowVars, jobs, key, leased, faultVars>>

\* persistFrameSelection: ON CONFLICT DO NOTHING, then any active row will do.
StoreFrame(w) ==
    /\ pc[w] = "store_frame"
    /\ IF Eligible /\ frame # "deleted"
       THEN /\ Goto(w, "queue_evaluation") /\ UNCHANGED <<key, leased>>
            /\ frame' = IF frame = None THEN key[w] ELSE frame
       ELSE Finish(w) /\ UNCHANGED frame
    /\ UNCHANGED <<caseVars, recording, transcript, pair, objects, jobs, faultVars>>

QueueEvaluation(w) == QueueNext(w, "queue_evaluation", "evaluation")

FrameStage(w) ==
    \/ LoadFrames(w) \/ CheckFrame(w) \/ ReserveFrame(w)
    \/ PutFrame(w) \/ StoreFrame(w) \/ QueueEvaluation(w)

-----------------------------------------------------------------------------
(* Transitions of the attempt.                                             *)

\* Both transitions lock attempt, revision, pull request, repository and
\* installation, and do nothing for an attempt that left processing.
Transitionable == head /\ access /\ status = "processing"

\* transitionToReviewRequired
ToReview(why) ==
    IF Transitionable
    THEN status' = "review_required" /\ reason' = why
    ELSE UNCHANGED <<status, reason>>

\* transitionToTechnicalRetry
ToTechnicalRetry ==
    /\ status' = IF Transitionable THEN "technical_retry" ELSE status
    /\ UNCHANGED reason

\* routeProviderFailure: unusable output or stored data goes to a maintainer,
\* any other provider error makes the attempt retry.  A failed PUT may have
\* stored the object.
ProviderFails(w) ==
    /\ \/ /\ pc[w] \in {"transcribe", "check_frame", "extract",
                        "judge", "apply_policy"}
          /\ ToReview("provider_manual_review")
       \/ /\ pc[w] \in {"transcribe", "check_frame", "extract", "put", "judge"}
          /\ ToTechnicalRetry
    /\ Finish(w)
    /\ \/ pc[w] = "put" /\ objects' = objects \cup {key[w]}
       \/ UNCHANGED objects
    /\ UNCHANGED <<head, access, clock, rowVars, jobs, faultVars>>

-----------------------------------------------------------------------------
(* evaluation.run and evaluation.apply-policy                              *)

LoadEvaluation(w) ==
    Load(w, "evaluation", transcript = "active" /\ pair # "deleted", "find_pair")

\* requireReplayAvailability.
PairAvailable ==
    /\ head /\ access /\ clock < 2 /\ recording = "active"
    /\ status \in {"processing", "review_required"}

\* loadExistingAndSchedule: a stored pair is replayed with its policy job in
\* one transaction; an unavailable one is routed to manual review.
FindPair(w) ==
    /\ pc[w] = "find_pair"
    /\ \/ /\ pair = None
          /\ Goto(w, "judge") /\ UNCHANGED <<key, leased, jobs, status, reason>>
       \/ /\ pair # None /\ pair # "deleted" /\ PairAvailable
          /\ Finish(w) /\ Expedite("policy") /\ UNCHANGED <<status, reason>>
       \/ /\ pair # None /\ (pair = "deleted" \/ ~PairAvailable)
          /\ Finish(w) /\ ToReview("provider_manual_review")
          /\ UNCHANGED jobs
    /\ UNCHANGED <<head, access, clock, rowVars, objects, faultVars>>

\* Faulty variant: a later result replaces the stored pair.
StorePairAgain(w) ==
    /\ pc[w] = "judge"
    /\ Finish(w)
    /\ IF Eligible /\ pair # "deleted"
       THEN pair' = w /\ Expedite("policy") /\ UNCHANGED <<status, reason>>
       ELSE /\ ToReview("provider_manual_review")
            /\ UNCHANGED <<pair, jobs>>
    /\ UNCHANGED <<head, access, clock, recording, transcript, frame, objects, faultVars>>

\* persistPair: evaluation, sidecar and policy job in one transaction.  A
\* pair of another run is no exact replay: persistence fails closed and the
\* attempt goes to manual review.
StorePair(w) ==
    /\ pc[w] = "judge"
    /\ Finish(w)
    /\ IF Eligible /\ pair = None
       THEN pair' = w /\ Expedite("policy") /\ UNCHANGED <<status, reason>>
       ELSE /\ ToReview("provider_manual_review")
            /\ UNCHANGED <<pair, jobs>>
    /\ UNCHANGED <<head, access, clock, recording, transcript, frame, objects, faultVars>>

EvaluationStage(w) == LoadEvaluation(w) \/ FindPair(w) \/ StorePair(w)

LoadPolicy(w) == Load(w, "policy", pair \in Workers, "apply_policy")

\* Faulty variant: the evidence is not checked in the deciding transaction.
ApplyPolicyUnchecked(w) ==
    /\ pc[w] = "apply_policy"
    /\ Finish(w)
    /\ ToReview("valid_policy")
    /\ UNCHANGED <<head, access, clock, rowVars, objects, jobs, faultVars>>

\* A valid policy result needs its evaluation and recording in the same
\* transaction, else the job is stale.
ApplyPolicy(w) ==
    /\ pc[w] = "apply_policy"
    /\ Finish(w)
    /\ IF pair \in Workers /\ recording = "active" /\ clock < 2
       THEN ToReview("valid_policy")
       ELSE UNCHANGED <<status, reason>>
    /\ UNCHANGED <<head, access, clock, rowVars, objects, jobs, faultVars>>

PolicyStage(w) == LoadPolicy(w) \/ ApplyPolicy(w)

-----------------------------------------------------------------------------
(* Recovery, environment and faults.                                       *)

\* Faulty variant: only attempts without any artifact are recovered.
RecoverFirstStage ==
    /\ Eligible /\ transcript = "none" /\ pair = None
    /\ jobs' = jobs \cup {"transcript"}
    /\ UNCHANGED <<caseVars, rowVars, objects, workVars, faultVars>>

\* sweepPendingProviderStages, every minute: the next job is rebuilt from
\* the committed artifacts, whatever became of the job that made them.
RecoverStages ==
    /\ Eligible /\ transcript # "deleted" /\ pair # "deleted"
    /\ Expedite(CASE pair # None -> "policy"
                  [] pair = None /\ transcript = "active" -> "frames"
                  [] OTHER -> "transcript")
    /\ UNCHANGED <<caseVars, rowVars, objects, workVars, faultVars>>

\* A push or close makes the revision stale and invalidates a live attempt.
Supersede ==
    /\ head
    /\ head' = FALSE
    /\ status' = IF status \in {"processing", "review_required"}
                 THEN "invalidated" ELSE status
    /\ UNCHANGED <<reason, access, clock, rowVars, objects, jobs, workVars, faultVars>>

\* The installation is suspended, or taken up again.
ToggleAccess ==
    /\ access' = ~access
    /\ faults' = IF access THEN faults + 1 ELSE faults
    /\ faults' <= MaxFaults
    /\ UNCHANGED <<status, reason, head, clock, rowVars, objects, jobs, workVars, stalls>>

\* The last 15 minutes are longer than a job's expiry (10): an execution
\* that reserved a frame before them has written it or lost its lease.
DeadlineNears ==
    /\ clock < 2
    /\ clock = 1 => \A w \in Workers : pc[w] = "put" => ~leased[w]
    /\ clock' = clock + 1
    /\ UNCHANGED <<status, reason, head, access, rowVars, objects, jobs, workVars, faultVars>>

\* A worker dies or throws: pg-boss retries the job, or it has no retry left.
Crash(w) ==
    /\ Active(w) /\ faults < MaxFaults
    /\ faults' = faults + 1
    /\ Finish(w)
    /\ \/ leased[w] /\ Expedite(StageOf[pc[w]])
       \/ UNCHANGED jobs
    /\ UNCHANGED <<caseVars, rowVars, objects, stalls>>

\* expireInSeconds: the job is delivered again, its handler still runs.
Expire(w) ==
    /\ Active(w) /\ leased[w] /\ faults < MaxFaults
    /\ faults' = faults + 1 /\ stalls' = stalls + 1
    /\ leased' = [leased EXCEPT ![w] = FALSE]
    /\ Expedite(StageOf[pc[w]])
    /\ UNCHANGED <<caseVars, rowVars, objects, pc, key>>

StageStep(w) ==
    \/ TranscriptStage(w) \/ FrameStage(w) \/ EvaluationStage(w) \/ PolicyStage(w)

PipelineNext ==
    \/ \E w \in Workers : StageStep(w) \/ ProviderFails(w) \/ Crash(w) \/ Expire(w)
    \/ RecoverStages \/ Supersede \/ ToggleAccess \/ DeadlineNears
=============================================================================
