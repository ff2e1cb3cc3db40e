--------------------------- MODULE ProofLifecycle ---------------------------
(***************************************************************************)
(* One pull request, its revisions, the author's proof attempts and the    *)
(* required check, at the granularity of the database transactions that    *)
(* change them.  Web handlers, worker jobs and webhook ingestion run       *)
(* concurrently; each of the transactions below locks the revision or the  *)
(* attempt it changes, so one action is one committed transaction.         *)
(*                                                                         *)
(* Evidence (upload session, wrapping material, object store) is the       *)
(* subject of `AttemptEvidence`; the delivery of the check to GitHub is    *)
(* left out here: `check` is the persisted intent.                         *)
(***************************************************************************)
EXTENDS Integers

CONSTANTS
    Revisions,    \* (head SHA, base SHA) pairs the pull request may have
    Oversized,    \* those whose patch the proof budget asks to split
    MaxAttempts,  \* bound on the attempts ever created
    None

ASSUME NoneAssumption == None \notin Revisions
ASSUME OversizedAssumption == Oversized \subseteq Revisions
ASSUME MaxAttemptsAssumption == MaxAttempts \in Nat

VARIABLES
    current,      \* the revision with is_current = true
    open,         \* pull_requests.state = 'open'
    status,       \* attempts.status, "absent" before the row exists
    rev,          \* attempts.revision_id
    due,          \* attempts.expires_at <= now()
    check,        \* check_runs: the gate it shows and intent_reason
    prepareJobs   \* revisions with an analysis.prepare-revision job queued

vars == <<current, open, status, rev, due, check, prepareJobs>>

\* Attempts are numbered in the order of attempts.created_at.
Attempts == 1..MaxAttempts

Live == {"preparing", "ready", "active", "uploading", "processing",
         "review_required"}
Abortable == {"preparing", "ready", "active", "uploading"}
Retryable == {"technical_retry", "retry_required", "expired"}
Terminal == Retryable \cup {"passed", "invalidated"}
Statuses == Live \cup Terminal \cup {"absent"}

Gates == {"none", "in_progress", "action_required", "cancelled", "success"}
Reasons == {"none", "webhook_ingested", "analysis_ready", "preparation_failed",
            "contributor_retry", "technical_retry", "attempt_expired",
            "review_required", "maintainer_decision", "revision_invalidated"}

\* GitHub merges only over a completed success; the app never emits neutral.
SatisfiesMergeGate(gate) == gate = "success"

-----------------------------------------------------------------------------
Of(r) == {a \in Attempts : rev[a] = r}
IsLive(a) == status[a] \in Live
HasLive(r) == \E a \in Of(r) : IsLive(a)
HasPassed(r) == \E a \in Of(r) : status[a] = "passed"
\* The attempt of r created last.
IsLatest(a, r) == a \in Of(r) /\ \A b \in Of(r) : b <= a

\* The first unused attempt number; MaxAttempts bounds the model.
IsNew(a) == status[a] = "absent" /\ \A b \in Attempts : b < a => status[b] # "absent"

\* The check has moved past what webhooks and analysis may overwrite.
AdvancedReason(r) ==
    check[r].reason \notin {"none", "webhook_ingested", "analysis_ready"}

Intent(r, gate, reason) == [check EXCEPT ![r] = [gate |-> gate, reason |-> reason]]

\* An analysis_ready intent is dropped once the proof has progressed.
AnalysisIntent(r, gate, st) ==
    IF AdvancedReason(r) \/ \E a \in Of(r) : st[a] \notin {"preparing", "ready"}
    THEN check
    ELSE Intent(r, gate, "analysis_ready")

-----------------------------------------------------------------------------
Init ==
    /\ current = None
    /\ open = TRUE
    /\ status = [a \in Attempts |-> "absent"]
    /\ rev = [a \in Attempts |-> None]
    /\ due = [a \in Attempts |-> FALSE]
    /\ check = [r \in Revisions |-> [gate |-> "none", reason |-> "none"]]
    /\ prepareJobs = {}

\* Invalidation of the superseded revision's attempts and of a closed one's.
Invalidated(r, closed) ==
    [a \in Attempts |->
        IF IsLive(a) /\ ((rev[a] = current /\ current # r) \/ (closed /\ rev[a] = r))
        THEN "invalidated" ELSE status[a]]

\* Faulty variant: a passed attempt is looked at before the close.
WebhookGatePassedFirst(r, closed) ==
    IF HasPassed(r) THEN "success" ELSE IF closed THEN "cancelled" ELSE "in_progress"

WebhookGate(r, closed) ==
    IF closed THEN "cancelled" ELSE IF HasPassed(r) THEN "success" ELSE "in_progress"

\* Faulty variant: a return to an earlier head does not reset its check.
CanApplyWithoutReactivation(r, closed) ==
    \/ closed
    \/ HasPassed(r)
    \/ check[r].reason \in {"none", "webhook_ingested"}

CanApplyWebhookCheck(r, closed) ==
    \/ closed
    \/ HasPassed(r)
    \/ current # r /\ current # None
    \/ check[r].reason \in {"none", "webhook_ingested"}

\* Faulty variant: the change of head is not a reason of its own.
ShouldPrepareUnprogressed(r) ==
    ~AdvancedReason(r) /\ ~HasLive(r) /\ ~HasPassed(r)

ShouldPrepare(r) ==
    \/ current # r
    \/ ~AdvancedReason(r) /\ ~HasLive(r) /\ ~HasPassed(r)

\* A verified snapshot (webhook or refresh) of head r, open or closed.
ProcessSnapshot(r, closed) ==
    /\ current' = r
    /\ open' = ~closed
    /\ status' = Invalidated(r, closed)
    /\ check' =
         [q \in Revisions |->
            IF q = r
            THEN IF CanApplyWebhookCheck(r, closed)
                 THEN [gate |-> WebhookGate(r, closed), reason |-> "webhook_ingested"]
                 ELSE check[r]
            ELSE IF q = current
                 THEN [gate |-> "cancelled", reason |-> "revision_invalidated"]
                 ELSE check[q]]
    /\ prepareJobs' = IF ~closed /\ ShouldPrepare(r)
                      THEN prepareJobs \cup {r} ELSE prepareJobs
    /\ UNCHANGED <<rev, due>>

-----------------------------------------------------------------------------
(* The analysis.prepare-revision job, in its possible outcomes.            *)

TakePrepareJob(r) ==
    /\ r \in prepareJobs
    /\ prepareJobs' = prepareJobs \ {r}

Preparable(r) == r = current /\ open

\* Insert attempt a of r in state ready, with a fresh deadline.
InsertAttempt(a, r) ==
    /\ IsNew(a)
    /\ status' = [status EXCEPT ![a] = "ready"]
    /\ rev' = [rev EXCEPT ![a] = r]
    /\ due' = [due EXCEPT ![a] = FALSE]

\* stale / closed: the job ends without effect.
PrepareStale(r) ==
    /\ TakePrepareJob(r)
    /\ ~Preparable(r)
    /\ UNCHANGED <<current, open, status, rev, due, check>>

\* A live attempt is reused, a finished one is left to the contributor.
PrepareReplay(r) ==
    /\ TakePrepareJob(r)
    /\ Preparable(r)
    /\ r \notin Oversized
    /\ \/ HasLive(r) /\ check' = AnalysisIntent(r, "in_progress", status)
       \/ /\ ~HasLive(r)
          /\ \E a \in Attempts : IsLatest(a, r) /\ status[a] # "invalidated"
          /\ UNCHANGED check
    /\ UNCHANGED <<current, open, status, rev, due>>

PrepareCreate(r) ==
    /\ TakePrepareJob(r)
    /\ Preparable(r)
    /\ r \notin Oversized
    /\ ~HasLive(r)
    /\ \A a \in Attempts : IsLatest(a, r) => status[a] = "invalidated"
    /\ \E a \in Attempts : InsertAttempt(a, r)
    /\ check' = AnalysisIntent(r, "in_progress", status')
    /\ UNCHANGED <<current, open>>

\* The change is too large (a function of the immutable patch and the frozen
\* policy): the check asks the author to split it.
PrepareSplit(r) ==
    /\ TakePrepareJob(r)
    /\ Preparable(r)
    /\ r \in Oversized
    /\ check' = AnalysisIntent(r, "action_required", status)
    /\ UNCHANGED <<current, open, status, rev, due>>

\* A deterministic failure is persisted whatever the proof's progress.
PrepareFails(r) ==
    /\ TakePrepareJob(r)
    /\ Preparable(r)
    /\ check' = Intent(r, "action_required", "preparation_failed")
    /\ UNCHANGED <<current, open, status, rev, due>>

Prepare(r) ==
    \/ PrepareStale(r)
    \/ PrepareReplay(r)
    \/ PrepareCreate(r)
    \/ PrepareSplit(r)
    \/ PrepareFails(r)

-----------------------------------------------------------------------------
(* The author's requests.                                                  *)

\* Faulty variant: a live attempt of the revision is not looked for.
CreateSecondAttempt(a) ==
    /\ rev[a] = current
    /\ status[a] \in Retryable
    /\ \E b \in Attempts : InsertAttempt(b, rev[a])
    /\ check' = Intent(rev[a], "in_progress", "contributor_retry")
    /\ UNCHANGED <<current, open, prepareJobs>>

\* A replacement for a finished attempt; a live one is returned unchanged.
CreateReplacementAttempt(a) ==
    /\ rev[a] = current
    /\ status[a] \in Retryable
    /\ ~HasLive(rev[a])
    /\ \E b \in Attempts : InsertAttempt(b, rev[a])
    /\ check' = Intent(rev[a], "in_progress", "contributor_retry")
    /\ UNCHANGED <<current, open, prepareJobs>>

Move(a, from, to) ==
    /\ status[a] = from
    /\ status' = [status EXCEPT ![a] = to]
    /\ UNCHANGED <<current, open, rev, due, prepareJobs>>

StartAttempt(a) ==
    /\ rev[a] = current
    /\ ~due[a]
    /\ Move(a, "ready", "active")
    /\ UNCHANGED check

StartUpload(a) ==
    /\ rev[a] = current
    /\ ~due[a]
    /\ Move(a, "active", "uploading")
    /\ UNCHANGED check

FinalizeUpload(a) ==
    /\ rev[a] = current
    /\ open
    /\ ~due[a]
    /\ Move(a, "uploading", "processing")
    /\ UNCHANGED check

\* Faulty variant: the status is not read again after the storage call.
AbortAttemptUnchecked(a) ==
    /\ status[a] # "absent" /\ rev[a] = current
    /\ status' = [status EXCEPT ![a] = "technical_retry"]
    /\ check' = Intent(rev[a], "action_required", "technical_retry")
    /\ UNCHANGED <<current, open, rev, due, prepareJobs>>

\* Second transaction of abortAttemptForTechnicalRetry.
AbortAttempt(a) ==
    /\ status[a] \in Abortable
    /\ IF rev[a] = current
       THEN /\ status' = [status EXCEPT ![a] = "technical_retry"]
            /\ check' = Intent(rev[a], "action_required", "technical_retry")
       ELSE /\ status' = [status EXCEPT ![a] = "invalidated"]
            /\ UNCHANGED check
    /\ UNCHANGED <<current, open, rev, due, prepareJobs>>

-----------------------------------------------------------------------------
(* Worker jobs and the maintainer.                                         *)

\* The clock passes expires_at; read only while the attempt can expire.
DeadlinePasses(a) ==
    /\ status[a] \in Abortable
    /\ ~due[a]
    /\ due' = [due EXCEPT ![a] = TRUE]
    /\ UNCHANGED <<current, open, status, rev, check, prepareJobs>>

\* Second transaction of expireAttempt.
ExpireAttempt(a) ==
    /\ rev[a] = current
    /\ due[a]
    /\ status[a] \in Abortable
    /\ status' = [status EXCEPT ![a] = "expired"]
    /\ check' = Intent(rev[a], "action_required", "attempt_expired")
    /\ UNCHANGED <<current, open, rev, due, prepareJobs>>

MediaFinalizationFails(a) ==
    /\ rev[a] = current
    /\ Move(a, "processing", "technical_retry")
    /\ check' = Intent(rev[a], "action_required", "technical_retry")

TransitionToReviewRequired(a) ==
    /\ rev[a] = current
    /\ open
    /\ Move(a, "processing", "review_required")
    /\ check' = Intent(rev[a], "in_progress", "review_required")

TransitionToTechnicalRetry(a) ==
    /\ rev[a] = current
    /\ open
    /\ Move(a, "processing", "technical_retry")
    /\ check' = Intent(rev[a], "action_required", "technical_retry")

DecisionTarget(action) ==
    CASE action = "approve"      -> "passed"
      [] action = "reject"       -> "retry_required"
      [] action = "manual_retry" -> "technical_retry"

\* Faulty variant: whatever is not a rejection turns the check green.
DecideReviewLenient(a, action) ==
    /\ rev[a] = current
    /\ Move(a, "review_required", DecisionTarget(action))
    /\ check' = Intent(rev[a],
                       IF action # "reject" THEN "success" ELSE "action_required",
                       "maintainer_decision")

DecideReview(a, action) ==
    /\ rev[a] = current
    /\ Move(a, "review_required", DecisionTarget(action))
    /\ check' = Intent(rev[a],
                       IF action = "approve" THEN "success" ELSE "action_required",
                       "maintainer_decision")

-----------------------------------------------------------------------------
Next ==
    \/ \E r \in Revisions, closed \in BOOLEAN : ProcessSnapshot(r, closed)
    \/ \E r \in Revisions : Prepare(r)
    \/ \E a \in Attempts :
        \/ CreateReplacementAttempt(a)
        \/ StartAttempt(a)
        \/ StartUpload(a)
        \/ FinalizeUpload(a)
        \/ AbortAttempt(a)
        \/ DeadlinePasses(a)
        \/ ExpireAttempt(a)
        \/ MediaFinalizationFails(a)
        \/ TransitionToReviewRequired(a)
        \/ TransitionToTechnicalRetry(a)
        \/ \E action \in {"approve", "reject", "manual_retry"} :
              DecideReview(a, action)

Spec == Init /\ [][Next]_vars

\* Queued jobs run: pg-boss redelivers until a handler returns, and sweeps
\* re-expedite prepare-revision and proof.expire-attempt jobs that were lost.
Fairness ==
    /\ \A r \in Revisions : WF_vars(Prepare(r))
    /\ \A a \in Attempts : WF_vars(ExpireAttempt(a))

FairSpec == Spec /\ Fairness
-----------------------------------------------------------------------------
(* Properties.                                                             *)

TypeOK ==
    /\ current \in Revisions \cup {None}
    /\ open \in BOOLEAN
    /\ status \in [Attempts -> Statuses]
    /\ rev \in [Attempts -> Revisions \cup {None}]
    /\ due \in [Attempts -> BOOLEAN]
    /\ check \in [Revisions -> [gate : Gates, reason : Reasons]]
    /\ prepareJobs \subseteq Revisions

\* Every attempt that can still make progress belongs to the head revision:
\* no push, return to an old head or retry leaves a live attempt behind.
LiveAttemptIsCurrent ==
    \A a \in Attempts : IsLive(a) => rev[a] = current

\* At most one live attempt per revision, whichever of prepareRevision and
\* createReplacementAttempt inserts it (the partial unique index never fires).
OneLiveAttempt ==
    \A a, b \in Attempts : IsLive(a) /\ IsLive(b) /\ rev[a] = rev[b] => a = b

\* Private processing and review exist only while the pull request is open,
\* although decideReview itself never reads pull_requests.state.
ProcessingOnlyWhileOpen ==
    \A a \in Attempts :
        status[a] \in {"processing", "review_required"} => open

\* The check lets GitHub merge only the open head with a passed attempt.
SuccessIsEarned ==
    \A r \in Revisions :
        SatisfiesMergeGate(check[r].gate) =>
            /\ r = current
            /\ open
            /\ HasPassed(r)

\* The open head always has a way to a passed attempt: a live attempt, a
\* finished one the author may replace, a preparation that is queued or that
\* the next refresh queues, or a check that asks for action.
HeadHasAWayForward ==
    open /\ current # None =>
        \/ HasLive(current)
        \/ HasPassed(current)
        \/ \E a \in Of(current) : status[a] \in Retryable
        \/ current \in prepareJobs
        \/ ShouldPrepare(current)
        \/ check[current].gate = "action_required"

\* An attempt row always names a revision.
AttemptIsBound ==
    \A a \in Attempts : status[a] # "absent" => rev[a] \in Revisions

\* Why HeadHasAWayForward is inductive: only a failed preparation or an
\* attempt that is not invalidated moves the head's check past the webhook.
AdvancedCheckIsBacked ==
    /\ current = None => \A r \in Revisions : check[r].reason = "none"
    /\ \A r \in Revisions :
          check[r].reason = "preparation_failed" => check[r].gate = "action_required"
    /\ current # None /\ AdvancedReason(current) =>
          \/ check[current].reason = "preparation_failed"
          \/ \E a \in Of(current) : status[a] \in Live \cup Retryable \cup {"passed"}

\* The inductive invariant behind the safety properties above.
IInv ==
    /\ TypeOK
    /\ AttemptIsBound
    /\ LiveAttemptIsCurrent
    /\ OneLiveAttempt
    /\ ProcessingOnlyWhileOpen
    /\ SuccessIsEarned
    /\ AdvancedCheckIsBacked

AllowedTransitions ==
    {<<"absent", "ready">>, <<"preparing", "ready">>, <<"ready", "active">>,
     <<"active", "uploading">>, <<"uploading", "processing">>,
     <<"processing", "review_required">>, <<"review_required", "passed">>,
     <<"review_required", "retry_required">>}
    \cup (Live \X {"technical_retry", "expired", "invalidated"})

\* No handler ever asks the database for a transition that the trigger
\* slopproof_guard_attempt_transition would refuse; in particular a terminal attempt
\* is never revived and a pass is reached only through review.
StatusFollowsGraph ==
    [][\A a \in Attempts :
          status'[a] # status[a] => <<status[a], status'[a]>> \in AllowedTransitions]_vars

\* The merge gate of the whole pull request behaves as ProofGate promises.
Gate == INSTANCE ProofGate WITH
            head <- current,
            confirmed <- {r \in Revisions : HasPassed(r)},
            green <- {r \in Revisions : SatisfiesMergeGate(check[r].gate)}
GateSpec == Gate!Spec

\* An attempt whose deadline has passed before finalization is ended.
DueAttemptEnds ==
    \A a \in Attempts : (due[a] /\ status[a] \in Abortable) ~> ~(status[a] \in Abortable)

\* A head that stays open is answered: it gets an attempt, or its check asks
\* for action (or the bound on attempts is reached).
Answered(r) ==
    \/ \E a \in Of(r) : status[a] # "invalidated"
    \/ check[r].gate = "action_required"
    \/ \A a \in Attempts : status[a] # "absent"
HeadIsAnswered ==
    \A r \in Revisions :
        (current = r /\ open) ~> (current # r \/ ~open \/ Answered(r))

\* An open head does not stand still: a due attempt is ended by its expiry job
\* and a head without an attempt is prepared or its check asks for action
\* (expireAttempt, prepareRevision and the two sweeps).
RevisionMakesProgress == DueAttemptEnds /\ HeadIsAnswered
=============================================================================
