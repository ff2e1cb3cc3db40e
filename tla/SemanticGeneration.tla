------------------------- MODULE SemanticGeneration -------------------------
(***************************************************************************)
(* Proof questions, learning material and practice feedback generated for  *)
(* one revision.  A job reserves a run in one transaction, waits for a     *)
(* model (or falls back to a deterministic result) and persists under new  *)
(* conditions.  Learning must not repeat the proof's questions, so it      *)
(* waits for the frozen proof plan; private material is shredded at its    *)
(* deadline.  An action is one committed transaction.                      *)
(***************************************************************************)
EXTENDS Naturals, FiniteSets

CONSTANTS
    Workers,     \* concurrent handler executions
    Contents,    \* question plans a provider or the fallback may produce
    MaxChanges,  \* bound on closes, pushes, returns and suspensions
    MaxFaults,   \* bound on crashes, job expiries and lost expiry jobs
    None

ASSUME SemanticNoneAssumption == None \notin Contents
ASSUME SemanticBoundsAssumption == MaxChanges \in Nat /\ MaxFaults \in Nat

VARIABLES
    current, open, access,  \* revision is head, pull request open, bindings active
    storable,    \* whether a plan generated for the revision can be stored at all
    intent,      \* check_runs.intent_reason of the revision, by what may follow
    attempt,     \* the author's latest attempt on the revision
    budget,      \* semantic_generation_budgets row
    runs,        \* semantic_generation_runs by purpose
    plan,        \* proof plan: the questions stored
    private,     \* bundle, answer, feedback: encrypted payload
    avoids,      \* the plan the learning bundle was validated against
    session,     \* practice_sessions row
    due,         \* delete_after of the private material has passed
    jobs,        \* pg-boss singleton jobs of the revision
    wk,          \* handler executions
    changes, faults

headVars == <<current, open, access, storable, changes>>
proofVars == <<intent, attempt, budget, plan>>
practiceVars == <<private, avoids, session>>
vars == <<headVars, proofVars, runs, practiceVars, due, jobs, wk, faults>>

Purposes == {"proof", "learning", "feedback"}
Artifacts == {"bundle", "answer", "feedback"}
ExpiryJob == [bundle |-> "expire_bundle", answer |-> "expire_answer",
              feedback |-> "expire_feedback"]
Jobs == Purposes \cup {"prepare"} \cup {ExpiryJob[k] : k \in Artifacts}

Idle == [job |-> "none", at |-> "idle", replay |-> FALSE, saw |-> None, leased |-> FALSE]

Init ==
    /\ current = TRUE /\ open = TRUE /\ access = TRUE /\ changes = 0
    /\ storable \in BOOLEAN
    /\ intent = "webhook" /\ attempt = "none" /\ budget = FALSE /\ plan = None
    /\ runs = [p \in Purposes |-> "none"]
    /\ private = [k \in Artifacts |-> "none"] /\ avoids = None /\ session = "none"
    /\ due = FALSE
    /\ jobs = [j \in Jobs |-> IF j = "prepare" THEN "pending" ELSE "none"]
    /\ wk = [w \in Workers |-> Idle]
    /\ faults = 0

-----------------------------------------------------------------------------
(* The queue and the checks shared by the handlers.                        *)

Bound == current /\ open /\ access

\* expediteJobInPgTransaction, scheduleJobInPgTransaction.
Schedule(js, j) == [js EXCEPT ![j] = "pending"]

\* recoverOrExpedite: a failed singleton is retried, a pending one moved, a
\* missing one created; an active one is left alone.
RecoverOrExpedite(js, j) == IF js[j] = "active" THEN js ELSE [js EXCEPT ![j] = "pending"]

\* The handler returns: its job is completed, unless the queue took it back.
Ended(js, w) == IF wk[w].leased THEN [js EXCEPT ![wk[w].job] = "none"] ELSE js

\* Faulty variant: the job of a handler that throws is completed.
Dropped(js, w) == IF wk[w].leased THEN [js EXCEPT ![wk[w].job] = "none"] ELSE js

\* The handler throws: the job is retried.
Retried(js, w) == IF wk[w].leased THEN [js EXCEPT ![wk[w].job] = "pending"] ELSE js

\* The error leaves the handler: the job is retried or has no retry left.
Thrown(js, w) ==
    {Retried(js, w)}
    \cup (IF wk[w].leased THEN {[js EXCEPT ![wk[w].job] = "failed"]} ELSE {})

Leave(w) == wk' = [wk EXCEPT ![w] = Idle]
Finish(w) == Leave(w) /\ jobs' = Ended(jobs, w)
Goto(w, p) == wk' = [wk EXCEPT ![w].at = p]

At(w, j, p) == wk[w].job = j /\ wk[w].at = p

\* readFrozenProofContent: the served plan, or pending.
FrozenProof == IF plan # None /\ attempt # "none" THEN plan ELSE None

\* persistGithubCheckIntentInTransaction with reason analysis_ready: nothing
\* once the check or any attempt of the revision has advanced.
AnalysisReady ==
    IF intent \in {"webhook", "queued"} /\ attempt \in {"none", "live"}
    THEN "queued" ELSE intent

\* completeRun.
Completed(p) == [runs EXCEPT ![p] = "completed"]

-----------------------------------------------------------------------------
(* analysis.prepare-revision                                               *)

\* Nothing to schedule after a failure or beside an attempt of another plan.
ProofToSchedule == intent # "failed" /\ (attempt = "none" \/ runs["proof"] = "completed")

\* scheduleRevisionSemanticGeneration.
ScheduleRevision(js) ==
    IF plan # None THEN RecoverOrExpedite(js, "learning")
    ELSE IF ProofToSchedule THEN RecoverOrExpedite(js, "proof") ELSE js

Prepare ==
    /\ jobs["prepare"] = "pending"
    /\ IF Bound
       THEN /\ budget' = TRUE
            /\ jobs' = ScheduleRevision([jobs EXCEPT !["prepare"] = "none"])
            /\ intent' = IF budget THEN intent ELSE AnalysisReady
       ELSE /\ jobs' = [jobs EXCEPT !["prepare"] = "none"]
            /\ UNCHANGED <<budget, intent>>
    /\ UNCHANGED <<headVars, attempt, plan, runs, practiceVars, due, wk, faults>>

-----------------------------------------------------------------------------
(* reserveRun                                                              *)

\* loadRunBinding and, for feedback, the live session and answer.
Reservable(j) ==
    /\ Bound /\ intent # "failed" /\ budget
    /\ j = "feedback" => session = "active" /\ private["answer"] = "active" /\ ~due

\* Faulty variant: a learning run is reserved before the proof is frozen.
WaitsForProofNever(j) == FALSE

WaitsForProof(j) ==
    j \in {"learning", "feedback"} /\ runs[j] = "none" /\ FrozenProof = None

Take(w, j) ==
    /\ wk[w] = Idle
    /\ jobs[j] = "pending"

\* Stale, waiting or already done: the job is completed.
ReserveNothing(w, j) ==
    /\ Take(w, j)
    /\ \/ ~Reservable(j)
       \/ WaitsForProof(j)
       \/ j # "proof" /\ runs[j] = "completed"
    /\ jobs' = [jobs EXCEPT ![j] = "none"]
    /\ UNCHANGED <<headVars, proofVars, runs, practiceVars, due, wk, faults>>

Reserve(w, j) ==
    /\ Take(w, j)
    /\ Reservable(j) /\ ~WaitsForProof(j)
    /\ j # "proof" => runs[j] # "completed"
    /\ jobs' = [jobs EXCEPT ![j] = "active"]
    /\ runs' = [runs EXCEPT ![j] = IF runs[j] = "none" THEN "reserved" ELSE runs[j]]
    /\ wk' = [wk EXCEPT ![w] =
                 [job |-> j, saw |-> None, leased |-> TRUE,
                  replay |-> runs[j] = "completed",
                  at |-> IF j # "proof" THEN "load"
                         ELSE IF runs[j] = "completed" THEN "replay" ELSE "generate"]]
    /\ UNCHANGED <<headVars, proofVars, practiceVars, due, faults>>

-----------------------------------------------------------------------------
(* semantic.generate-proof-questions                                       *)

\* replayCompletedProof: an invalidated attempt gets a successor on the
\* stored plan.
ReplayProof(w) ==
    /\ At(w, "proof", "replay")
    /\ IF current /\ attempt = "invalidated"
       THEN Goto(w, "generate") /\ UNCHANGED jobs
       ELSE Finish(w)
    /\ UNCHANGED <<headVars, proofVars, runs, practiceVars, due, faults>>

\* ON CONFLICT DO NOTHING, then assertProofReplay; a run is completed once.
ReplayMatches(w, c) ==
    /\ plan \in {None, c}
    /\ wk[w].replay \/ runs["proof"] # "completed"

\* Plan, attempt, completed run, learning job and check in one transaction.
IssueAttempt(w, c) ==
    /\ storable /\ ReplayMatches(w, c)
    /\ plan' = c /\ attempt' = "live"
    /\ runs' = Completed("proof")
    /\ intent' = AnalysisReady
    /\ Leave(w) /\ jobs' = RecoverOrExpedite(Ended(jobs, w), "learning")
    /\ UNCHANGED budget

\* persistProofPlanAndCreateAttempt, by the state of the author's attempt.  Its
\* promise is returned without await, so its errors pass the handler's catch.
PersistProof(w) ==
    /\ At(w, "proof", "generate")
    /\ \E c \in IF wk[w].replay THEN {plan} ELSE Contents :
       \/ /\ ~Bound \/ attempt = "ended"
          /\ Finish(w)
          /\ UNCHANGED <<proofVars, runs>>
       \/ /\ Bound /\ attempt = "live"
          /\ Leave(w) /\ jobs' = RecoverOrExpedite(Ended(jobs, w), "learning")
          /\ UNCHANGED <<proofVars, runs>>
       \/ /\ Bound /\ attempt \in {"none", "invalidated"}
          /\ IssueAttempt(w, c)
       \/ /\ \/ ~storable
             \/ Bound /\ attempt \in {"none", "invalidated"} /\ ~ReplayMatches(w, c)
          /\ Leave(w) /\ jobs' \in Thrown(jobs, w)
          /\ UNCHANGED <<proofVars, runs>>
    /\ UNCHANGED <<headVars, practiceVars, due, faults>>

\* reserveRun or generateProofQuestionPlan fails for good: the handler's catch
\* ends the preparation.
ProofError(w) ==
    /\ \/ /\ Take(w, "proof")
          /\ jobs' = [jobs EXCEPT !["proof"] = "active"]
          /\ wk' = [wk EXCEPT ![w] = [Idle EXCEPT !.job = "proof", !.at = "fail",
                                                !.leased = TRUE]]
       \/ /\ At(w, "proof", "generate") /\ ~wk[w].replay
          /\ Goto(w, "fail") /\ UNCHANGED jobs
    /\ UNCHANGED <<headVars, proofVars, runs, practiceVars, due, faults>>

\* Faulty variant: the failure overwrites a proof another execution made.
FailProofUnfenced(w) ==
    /\ At(w, "proof", "fail")
    /\ Finish(w)
    /\ intent' = IF current /\ open /\ budget THEN "failed" ELSE intent
    /\ UNCHANGED <<headVars, attempt, budget, plan, runs, practiceVars, due, faults>>

\* failProofPreparation: only while the author has no attempt.
FailProof(w) ==
    /\ At(w, "proof", "fail")
    /\ Finish(w)
    /\ intent' = IF current /\ open /\ budget /\ attempt = "none" THEN "failed" ELSE intent
    /\ UNCHANGED <<headVars, attempt, budget, plan, runs, practiceVars, due, faults>>

-----------------------------------------------------------------------------
(* semantic.generate-learning and semantic.generate-practice-feedback      *)

\* loadFrozenProofContent.
LoadLearning(w) ==
    /\ At(w, "learning", "load")
    /\ wk' = [wk EXCEPT ![w].at = "generate", ![w].saw = FrozenProof]
    /\ UNCHANGED <<headVars, proofVars, runs, practiceVars, due, jobs, faults>>

\* assertPrivateReplay: an equal stored payload replays, a different or
\* shredded one throws and the retry ends as replayed.
ReplayPrivate(w, k) ==
    {Retried(jobs, w)} \cup (IF private[k] = "active" THEN {Ended(jobs, w)} ELSE {})

\* persistPrivateArtifact: nothing is asked of the revision any more.
PersistPrivate(w, p, k) ==
    /\ At(w, p, "generate")
    /\ Leave(w)
    /\ IF runs[p] = "completed"
       THEN /\ jobs' \in ReplayPrivate(w, k)
            /\ UNCHANGED <<runs, private>>
       ELSE /\ runs' = Completed(p)
            /\ private' = [private EXCEPT ![k] = "active"]
            /\ jobs' = Schedule(Ended(jobs, w), ExpiryJob[k])

PersistLearning(w) ==
    /\ PersistPrivate(w, "learning", "bundle")
    /\ avoids' = IF runs["learning"] = "completed" THEN avoids ELSE wk[w].saw
    /\ UNCHANGED <<headVars, proofVars, session, due, faults>>

\* loadPracticeQuestionAndAnswer.
LoadFeedback(w) ==
    /\ At(w, "feedback", "load")
    /\ IF Bound /\ session = "active" /\ private["bundle"] = "active"
          /\ private["answer"] = "active" /\ ~due
       THEN Goto(w, "generate") /\ UNCHANGED jobs
       ELSE Leave(w) /\ jobs' = Retried(jobs, w)
    /\ UNCHANGED <<headVars, proofVars, runs, practiceVars, due, faults>>

PersistFeedback(w) ==
    /\ PersistPrivate(w, "feedback", "feedback")
    /\ UNCHANGED <<headVars, proofVars, avoids, session, due, faults>>

-----------------------------------------------------------------------------
(* Practice: the contributor's requests.                                   *)

StartPracticeSession ==
    /\ Bound /\ ~due /\ private["bundle"] = "active" /\ session = "none"
    /\ session' = "active"
    /\ UNCHANGED <<headVars, proofVars, runs, private, avoids, due, jobs, wk, faults>>

\* submitPracticeAnswer: one answer per question; a repetition replays and
\* queues nothing.
SubmitPracticeAnswer ==
    /\ Bound /\ ~due /\ session = "active" /\ private["bundle"] = "active"
    /\ private["answer"] = "none"
    /\ private' = [private EXCEPT !["answer"] = "active"]
    /\ jobs' = Schedule(Schedule(jobs, "feedback"), "expire_answer")
    /\ UNCHANGED <<headVars, proofVars, runs, avoids, session, due, wk, faults>>

\* Of a session: answers whose feedback is still missing are pending.
SessionView ==
    IF session = "deleted" THEN "unavailable"
    ELSE IF private["answer"] = "active" /\ private["feedback"] # "active"
         THEN "answer_pending" ELSE "ready"

\* readPracticeView: what the contribution page shows.
PracticeView ==
    IF ~Bound \/ ~budget THEN "unavailable"
    ELSE IF private["bundle"] # "active" \/ due THEN "generating" ELSE SessionView

-----------------------------------------------------------------------------
(* Private retention.                                                      *)

Shredded(ks) ==
    [k \in Artifacts |-> IF k \in ks /\ private[k] = "active" THEN "deleted" ELSE private[k]]

\* Deleting a bundle takes the answers and feedback of its sessions with it.
Cascade(k) == IF k = "bundle" THEN Artifacts ELSE {k}

\* semantic.expire-private starts at delete_after.
ExpirePrivate(k) ==
    /\ jobs[ExpiryJob[k]] = "pending" /\ due
    /\ jobs' = [jobs EXCEPT ![ExpiryJob[k]] = "none"]
    /\ private' = Shredded(IF private[k] = "active" THEN Cascade(k) ELSE {})
    /\ session' = IF k = "bundle" /\ private[k] = "active" /\ session = "active"
                  THEN "deleted" ELSE session
    /\ UNCHANGED <<headVars, proofVars, runs, avoids, due, wk, faults>>

\* The job dies with its last retry, or is lost.
ExpiryFails(k) ==
    /\ jobs[ExpiryJob[k]] = "pending" /\ faults < MaxFaults
    /\ faults' = faults + 1
    /\ jobs' = [jobs EXCEPT ![ExpiryJob[k]] = "failed"]
    /\ UNCHANGED <<headVars, proofVars, runs, practiceVars, due, wk>>

Expiring == {k \in Artifacts : private[k] = "active" /\ (due \/ ~current)}
NeedsLearning == Bound /\ budget /\ intent # "failed" /\ runs["learning"] # "completed"
NeedsProof ==
    Bound /\ budget /\ intent # "failed" /\ runs["proof"] # "completed" /\ attempt = "none"

\* Faulty variants: the sweep looks for one of its two kinds of work only.
RequeuedExpiringOnly == {ExpiryJob[k] : k \in Expiring}
RequeuedIncompleteOnly ==
    (IF NeedsLearning THEN {"learning"} ELSE {}) \cup (IF NeedsProof THEN {"proof"} ELSE {})

\* sweepDueSemanticPrivate, every minute: due artifacts and incomplete budgets.
Requeued ==
    {ExpiryJob[k] : k \in Expiring}
    \cup (IF NeedsLearning THEN {"learning"} ELSE {})
    \cup (IF NeedsProof THEN {"proof"} ELSE {})

Sweep ==
    /\ jobs' = [j \in Jobs |-> IF j \in Requeued THEN RecoverOrExpedite(jobs, j)[j] ELSE jobs[j]]
    /\ jobs' # jobs
    /\ UNCHANGED <<headVars, proofVars, runs, practiceVars, due, wk, faults>>

-----------------------------------------------------------------------------
(* The pull request, the attempt, the clock and the faults.                *)

Changing == changes < MaxChanges /\ changes' = changes + 1

\* A push or a close: the live attempt is invalidated.
Depart ==
    /\ current /\ open /\ Changing
    /\ \/ current' = FALSE /\ UNCHANGED open
       \/ open' = FALSE /\ UNCHANGED current
    /\ attempt' = IF attempt = "live" THEN "invalidated" ELSE attempt
    /\ UNCHANGED <<access, storable, intent, budget, plan, runs, practiceVars, due, jobs, wk, faults>>

\* The head returns, or the pull request is reopened: the check starts anew
\* and the revision is prepared again.
Return ==
    /\ ~(current /\ open)
    /\ current' = TRUE /\ open' = TRUE
    /\ intent' = "webhook"
    /\ jobs' = Schedule(jobs, "prepare")
    /\ UNCHANGED <<access, storable, changes, attempt, budget, plan, runs, practiceVars,
                   due, wk, faults>>

\* The installation or the repository is suspended, or resumed.
ToggleAccess ==
    /\ access' = ~access
    /\ IF access THEN Changing ELSE UNCHANGED changes
    /\ UNCHANGED <<current, open, storable, proofVars, runs, practiceVars, due, jobs, wk, faults>>

\* The contributor starts, or the attempt ends: the check has advanced.
AttemptAdvances ==
    /\ attempt = "live" /\ current /\ open
    /\ attempt' \in {"live", "ended"}
    /\ intent' = "advanced"
    /\ UNCHANGED <<headVars, budget, plan, runs, practiceVars, due, jobs, wk, faults>>

\* delete_after is fixed when the learning run is reserved.
DeadlinePasses ==
    /\ ~due /\ runs["learning"] # "none"
    /\ due' = TRUE
    /\ UNCHANGED <<headVars, proofVars, runs, practiceVars, jobs, wk, faults>>

\* The worker dies, or the database or a provider call throws: the job is
\* retried or has no retry left.
Crash(w) ==
    /\ wk[w] # Idle /\ faults < MaxFaults
    /\ faults' = faults + 1
    /\ Leave(w) /\ jobs' \in Thrown(jobs, w)
    /\ UNCHANGED <<headVars, proofVars, runs, practiceVars, due>>

\* expireInSeconds: the job is delivered again while its handler runs.
Expire(w) ==
    /\ wk[w].leased /\ faults < MaxFaults
    /\ faults' = faults + 1
    /\ wk' = [wk EXCEPT ![w].leased = FALSE]
    /\ jobs' = [jobs EXCEPT ![wk[w].job] = "pending"]
    /\ UNCHANGED <<headVars, proofVars, runs, practiceVars, due>>

ProofStep(w) ==
    \/ ReserveNothing(w, "proof") \/ Reserve(w, "proof")
    \/ ReplayProof(w) \/ PersistProof(w) \/ FailProof(w)

LearningStep(w) ==
    \/ ReserveNothing(w, "learning") \/ Reserve(w, "learning")
    \/ LoadLearning(w) \/ PersistLearning(w)

FeedbackStep(w) ==
    \/ ReserveNothing(w, "feedback") \/ Reserve(w, "feedback")
    \/ LoadFeedback(w) \/ PersistFeedback(w)

Next ==
    \/ Prepare
    \/ \E w \in Workers :
          \/ ProofStep(w) \/ LearningStep(w) \/ FeedbackStep(w)
          \/ ProofError(w) \/ Crash(w) \/ Expire(w)
    \/ StartPracticeSession \/ SubmitPracticeAnswer
    \/ \E k \in Artifacts : ExpirePrivate(k) \/ ExpiryFails(k)
    \/ Sweep
    \/ Depart \/ Return \/ ToggleAccess \/ AttemptAdvances \/ DeadlinePasses

Spec == Init /\ [][Next]_vars

\* Every queue has its own pollers, the sweep runs every minute, and faults
\* are finitely many.  Strong fairness, because only the bound on Workers
\* makes one queue wait for another.  Nothing is assumed of GitHub, the
\* installation, the contributor or the clock.
Fairness ==
    /\ WF_vars(Prepare)
    /\ SF_vars(\E w \in Workers : ProofStep(w))
    /\ SF_vars(\E w \in Workers : LearningStep(w))
    /\ SF_vars(\E w \in Workers : FeedbackStep(w))
    /\ \A k \in Artifacts : WF_vars(ExpirePrivate(k))
    /\ WF_vars(Sweep)

FairSpec == Spec /\ Fairness
-----------------------------------------------------------------------------
(* Properties.                                                             *)

TypeOK ==
    /\ current \in BOOLEAN /\ open \in BOOLEAN /\ access \in BOOLEAN
    /\ storable \in BOOLEAN /\ (~storable => plan = None)
    /\ intent \in {"webhook", "queued", "failed", "advanced"}
    /\ attempt \in {"none", "live", "ended", "invalidated"}
    /\ budget \in BOOLEAN
    /\ runs \in [Purposes -> {"none", "reserved", "completed"}]
    /\ plan \in Contents \cup {None} /\ (plan # None <=> runs["proof"] = "completed")
    /\ private \in [Artifacts -> {"none", "active", "deleted"}]
    /\ private["bundle"] # "none" <=> runs["learning"] = "completed"
    /\ private["feedback"] # "none" <=> runs["feedback"] = "completed"
    /\ avoids \in Contents \cup {None}
    /\ session \in {"none", "active", "deleted"}
    /\ due \in BOOLEAN
    /\ jobs \in [Jobs -> {"none", "pending", "active", "failed"}]
    /\ wk \in [Workers -> [job : Purposes \cup {"none"},
                           at : {"idle", "load", "replay", "generate", "fail"},
                           replay : BOOLEAN, saw : Contents \cup {None},
                           leased : BOOLEAN]]
    /\ changes \in 0..MaxChanges /\ faults \in 0..MaxFaults

\* Learning material was validated against the very questions of the proof
\* that is served, whichever of the two generations was retried, overlapped
\* or came first.
LearningAvoidsProof == private["bundle"] # "none" => plan # None /\ avoids = plan

\* The questions of a revision are frozen: no retry, no overlapping execution
\* and no reopening changes them.
FrozenPlanIsFinal == [][plan # None => plan' = plan]_vars

\* A failing execution does not turn the check of an issued proof into a failed
\* preparation, although another execution may have issued it meanwhile.
FailureSparesIssuedProof ==
    [][attempt # "none" /\ intent # "failed" => intent' # "failed"]_vars

\* Private material is shredded for good after its deadline, also what a slow
\* handler stored after the bundle it belongs to was shredded.
EventuallyShredded ==
    <>[](due => \A k \in Artifacts : private[k] # "active")

\* A prepared head gets its questions and an attempt, or a failed check,
\* whatever job is lost on the way.  An error of the transaction that stores
\* the questions is no such way: the handler does not await it, so when it is
\* permanent the head is generated for again and again, and its check stays
\* pending (semantic-generation-jobs.ts:123).
ProofArrives ==
    /\ (Bound /\ budget /\ attempt = "none" /\ storable)
           ~> (~Bound \/ attempt # "none" \/ intent = "failed")
    /\ (Bound /\ budget /\ attempt = "none" /\ ~storable)
           ~> (~Bound \/ intent = "failed" \/ \E w \in Workers : At(w, "proof", "generate"))

\* The contribution page does not show "generating" for ever before the
\* deadline: the learning request lost behind an active job is repeated.
ViewSettles ==
    (PracticeView = "generating" /\ attempt # "none")
        ~> (PracticeView # "generating" \/ due \/ intent = "failed")

\* A stored answer gets its feedback unless the pull request changed or the
\* job used up its retries: no sweep looks for it.
AnswerIsCoached ==
    (PracticeView = "answer_pending" /\ changes = 0)
        ~> (PracticeView # "answer_pending" \/ changes > 0 \/ jobs["feedback"] = "failed")

\* Learning material belongs to the questions that are served, whatever was
\* retried (semantic-generation-repository.ts persistLearning).
GenerationInv == TypeOK /\ LearningAvoidsProof

\* What was issued stays issued: neither its questions nor its check change
\* through a late, retried or overlapping execution (assertProofReplay,
\* failProofPreparation).
IssuedProofIsFinal == FrozenPlanIsFinal /\ FailureSparesIssuedProof

\* The contributor does not wait for ever, neither for material nor for
\* feedback on an answer (recoverOrExpedite, submitPracticeAnswer).
ContributorIsAnswered == ViewSettles /\ AnswerIsCoached

\* tests/integration/semantic-generation-persistence.integration.test.ts:845
\* "reopens the same tuple with a fresh Attempt from the exact stored V2 plan".
ReopenedHeadGetsAttempt ==
    (Bound /\ attempt = "invalidated") ~> (~Bound \/ attempt # "invalidated")
=============================================================================
