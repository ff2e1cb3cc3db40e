----------------------------- MODULE CheckSync -----------------------------
(***************************************************************************)
(* How the check intent of one revision reaches GitHub: the check_runs row *)
(* and its lease, the strict-FIFO pg-boss queue of the revision, the       *)
(* github-control handlers with an action per await, the retry sweep, and  *)
(* GitHub itself as the code sees it.                                      *)
(*                                                                         *)
(* sync_attempts grows with each claim and is only compared for equality   *)
(* with the number a claim returned; `lastClaim`, the handler that claimed *)
(* last, carries the same information.                                     *)
(***************************************************************************)
EXTENDS Integers, Sequences, FiniteSetsExt

CONSTANTS
    Workers,      \* handlers that may run github.reconcile-check at a time
    Faults,       \* the kinds of fault this instance allows
    MaxFaults,    \* bound on the faults of a behaviour
    MaxMoves,     \* bound on the changes of the pull request and the binding
    MaxIntents,   \* bound on the intents the proof writes
    RetryLimit,   \* retryLimit of the queue
    NoWorker

ASSUME NoWorkerAssumption == NoWorker \notin Workers
ASSUME FaultsAssumption ==
    Faults \subseteq {"request", "reject", "ambiguous", "neutral", "slow", "crash",
                "stall"}
ASSUME BoundsAssumption ==
    MaxFaults \in Nat /\ MaxMoves \in Nat /\ MaxIntents \in Nat /\ RetryLimit \in Nat

VARIABLES
    here,       \* GitHub: the pull request has this revision's head and base
    open,       \* GitHub: the pull request is open
    runs,       \* GitHub: the gate of each check run of the revision, by id
    refresh,    \* a github.ingest-pr job for the pull request is queued
    bound,      \* repository and installation are active
    current,    \* the revision's is_current
    passed,     \* an attempt of the revision has passed
    intent,     \* check_runs: status/conclusion as a gate, and intent_reason
    sync,       \* sync_status; "inactive" is the InactiveGithubBinding failure
    lastClaim,  \* the claim sync_attempts stands for
    aged,       \* updated_at is more than 2 minutes ago
    waiting,    \* next_sync_after is in the future
    runId,      \* github_check_run_id, 0 when null
    queue,      \* pending jobs, oldest first: payload reason and retry count
    active,     \* the job being run and its handler
    blocked,    \* a failed job holds the strict-FIFO key
    wk,         \* the handlers' program counters and locals
    faults, moves, sent   \* what the bounds count

github == <<here, open, runs>>
row == <<intent, sync, lastClaim, aged, waiting, runId>>
jobs == <<queue, active, blocked>>
product == <<refresh, bound, current, passed>>
counters == <<faults, moves, sent>>
vars == <<github, row, jobs, product, wk, counters>>

Gates == {"in_progress", "action_required", "cancelled", "success"}
Reasons == {"webhook_ingested", "analysis_ready", "review_required",
            "technical_retry", "contributor_retry", "maintainer_decision",
            "revision_invalidated"}
Pcs == {"idle", "claim", "load", "inactive", "reconcile", "fetch", "write",
        "comment", "complete", "find", "invalidate", "skip"}

Completed(gate) == gate # "in_progress"

NoJob == [worker |-> NoWorker, reason |-> "none", tries |-> 0]
Idle == [pc |-> "idle", reason |-> "none", gate |-> "none", id |-> 0, run |-> 0]

Init ==
    /\ here = TRUE /\ open = TRUE /\ runs = <<>>
    /\ refresh = TRUE /\ bound = TRUE /\ current = FALSE /\ passed = FALSE
    /\ intent = [gate |-> "none", reason |-> "none"]
    /\ sync = "none" /\ lastClaim = NoWorker
    /\ aged = FALSE /\ waiting = FALSE /\ runId = 0
    /\ queue = <<>> /\ active = NoJob /\ blocked = FALSE
    /\ wk = [w \in Workers |-> Idle]
    /\ faults = 0 /\ moves = 0 /\ sent = 0

-----------------------------------------------------------------------------
(* The outbox and the writers of intents.                                  *)

\* A failed job is retried in place, the oldest pending one takes the new
\* payload, or a job is inserted (also behind an active one).
Expedite(reason) ==
    /\ blocked' = FALSE
    /\ queue' = IF blocked THEN <<[reason |-> reason, tries |-> RetryLimit]>> \o queue
                ELSE IF queue = <<>> THEN <<[reason |-> reason, tries |-> 0]>>
                ELSE [queue EXCEPT ![1] = [reason |-> reason, tries |-> @.tries]]
    /\ UNCHANGED active

\* Faulty variant: a lease that is being worked on is not broken.
WriteIntentKeepsLease(gate, reason) ==
    /\ intent' = [gate |-> gate, reason |-> reason]
    /\ sync' = IF sync = "syncing" THEN "syncing" ELSE "pending"
    /\ aged' = FALSE /\ waiting' = FALSE
    /\ UNCHANGED <<lastClaim, runId>>
    /\ Expedite(reason)

WriteIntent(gate, reason) ==
    /\ intent' = [gate |-> gate, reason |-> reason]
    /\ sync' = "pending"
    /\ aged' = FALSE /\ waiting' = FALSE
    /\ UNCHANGED <<lastClaim, runId>>
    /\ Expedite(reason)

\* The unchanged intent is queued again, and revived if it was given up.
ReplayIntent ==
    /\ sync' = IF sync = "inactive" THEN "pending" ELSE sync
    /\ aged' = IF sync = "inactive" THEN FALSE ELSE aged
    /\ waiting' = IF sync = "inactive" THEN FALSE ELSE waiting
    /\ UNCHANGED <<intent, lastClaim, runId>>
    /\ Expedite(intent.reason)

WebhookGate == IF ~open THEN "cancelled" ELSE IF passed THEN "success" ELSE "in_progress"

CanApplyWebhookCheck ==
    \/ ~open
    \/ passed
    \/ ~current
    \/ intent.reason \in {"none", "webhook_ingested"}

\* The snapshot of the pull request that ingestion reads and applies.
ApplySnapshot ==
    IF ~here
    THEN /\ current' = FALSE
         /\ IF current THEN WriteIntent("cancelled", "revision_invalidated")
                       ELSE UNCHANGED <<row, jobs>>
    ELSE /\ current' = TRUE
         /\ IF CanApplyWebhookCheck
            THEN \/ WriteIntent(WebhookGate, "webhook_ingested")
                 \/ /\ intent = [gate |-> WebhookGate, reason |-> "webhook_ingested"]
                    /\ ReplayIntent
            ELSE IF ~bound /\ sync = "inactive" THEN ReplayIntent
                                                ELSE UNCHANGED <<row, jobs>>

Ingest ==
    /\ refresh /\ bound
    /\ refresh' = FALSE
    /\ ApplySnapshot
    /\ UNCHANGED <<github, bound, passed, wk, counters>>

\* A lifecycle recovery: the binding is active again, with a fresh snapshot.
Reactivate ==
    /\ ~bound /\ moves < MaxMoves
    /\ bound' = TRUE /\ refresh' = FALSE
    /\ ApplySnapshot
    /\ moves' = moves + 1
    /\ UNCHANGED <<github, passed, wk, faults, sent>>

\* The intents the proof writes, in the orders ProofLifecycle allows;
\* preparation_failed and attempt_expired are technical_retry's equals here.
MayFollow(gate, reason) ==
    \/ /\ <<gate, reason>> = <<"in_progress", "analysis_ready">>
       /\ intent.gate = "in_progress" /\ intent.reason = "webhook_ingested"
    \/ /\ <<gate, reason>> \in {<<"in_progress", "review_required">>,
                                <<"action_required", "technical_retry">>}
       /\ intent.gate = "in_progress" /\ intent.reason # "review_required"
    \/ /\ reason = "maintainer_decision" /\ gate \in {"success", "action_required"}
       /\ intent.reason = "review_required"
    \/ /\ <<gate, reason>> = <<"in_progress", "contributor_retry">>
       /\ intent.gate = "action_required"

ProofIntent(gate, reason) ==
    /\ current /\ ~passed /\ sent < MaxIntents
    /\ MayFollow(gate, reason)
    /\ WriteIntent(gate, reason)
    /\ passed' = (gate = "success")
    /\ sent' = sent + 1
    /\ UNCHANGED <<github, refresh, bound, current, wk, faults, moves>>

-----------------------------------------------------------------------------
(* GitHub and the operator: pushes, closes, reopens and suspensions.       *)

Push ==
    /\ moves < MaxMoves
    /\ here' = ~here
    /\ refresh' = TRUE /\ moves' = moves + 1
    /\ UNCHANGED <<open, runs, row, jobs, bound, current, passed, wk, faults, sent>>

CloseOrReopen ==
    /\ moves < MaxMoves
    /\ open' = ~open
    /\ refresh' = TRUE /\ moves' = moves + 1
    /\ UNCHANGED <<here, runs, row, jobs, bound, current, passed, wk, faults, sent>>

Suspend ==
    /\ moves < MaxMoves /\ bound
    /\ bound' = FALSE /\ moves' = moves + 1
    /\ UNCHANGED <<github, row, jobs, refresh, current, passed, wk, faults, sent>>
-----------------------------------------------------------------------------
(* The lease and the end of a job.                                         *)

\* WHERE clause of the claim.
Claimable(reason) ==
    /\ intent.reason = reason
    /\ ~waiting
    /\ current \/ reason = "revision_invalidated"
    /\ sync \in {"pending", "retry_required"} \/ (sync = "syncing" /\ aged)

\* Faulty variant: the status is not part of the fence.
LeaseByAttempt(w) == lastClaim = w

\* Faulty variant: the number of the claim is not part of the fence.
LeaseByStatus(w) == sync = "syncing"

\* sync_attempts = $attempt AND sync_status = 'syncing'.
Lease(w) == sync = "syncing" /\ lastClaim = w

Goto(w, pc) == wk' = [wk EXCEPT ![w].pc = pc]

\* The handler returns; its job is completed unless the queue took it back.
Return(w) ==
    /\ wk' = [wk EXCEPT ![w] = Idle]
    /\ active' = IF active.worker = w THEN NoJob ELSE active
    /\ UNCHANGED <<queue, blocked>>

FailSync(w, retryable) ==
    /\ Return(w)
    /\ IF Lease(w)
       THEN /\ sync' = IF retryable THEN "retry_required" ELSE "permanent_failure"
            /\ waiting' = retryable
            /\ aged' = FALSE
       ELSE UNCHANGED <<sync, waiting, aged>>
    /\ UNCHANGED <<intent, lastClaim, runId>>

\* schedulePullRequestRefresh, then a retryable STALE_HEAD.
FailStale(w) == FailSync(w, TRUE) /\ refresh' = TRUE

Synchronized(w, id) ==
    /\ Return(w)
    /\ IF Lease(w)
       THEN /\ sync' = "synchronized"
            /\ runId' = id
            /\ aged' = FALSE /\ waiting' = FALSE
       ELSE UNCHANGED <<sync, runId, aged, waiting>>
    /\ UNCHANGED <<intent, lastClaim>>

At(w, pc) == wk[w].pc = pc
Invalidating(w) == wk[w].reason = "revision_invalidated"

-----------------------------------------------------------------------------
(* handleGithubCheckReconcileJob, one action per await.                    *)

TakeJob(w) ==
    /\ At(w, "idle")
    /\ active = NoJob /\ ~blocked /\ queue # <<>>
    /\ active' = [worker |-> w, reason |-> Head(queue).reason, tries |-> Head(queue).tries]
    /\ queue' = Tail(queue)
    /\ wk' = [wk EXCEPT ![w] = [pc |-> "claim", reason |-> Head(queue).reason,
                                gate |-> "none", id |-> 0, run |-> 0]]
    /\ UNCHANGED <<github, row, blocked, product, counters>>

Claim(w) ==
    /\ At(w, "claim")
    /\ IF Claimable(wk[w].reason)
       THEN /\ sync' = "syncing" /\ lastClaim' = w
            /\ aged' = FALSE /\ waiting' = FALSE
            /\ wk' = [wk EXCEPT ![w] = [pc |-> "load", reason |-> wk[w].reason,
                                        gate |-> intent.gate, id |-> runId, run |-> 0]]
            /\ UNCHANGED <<intent, runId, jobs>>
       ELSE Return(w) /\ UNCHANGED row
    /\ UNCHANGED <<github, product, counters>>

\* loadCheckTarget: stale, inactive or active.
Load(w) ==
    /\ At(w, "load")
    /\ IF ~current /\ ~Invalidating(w)
       THEN FailSync(w, TRUE)
       ELSE /\ Goto(w, IF bound THEN IF Invalidating(w) THEN "find" ELSE "reconcile"
                       ELSE IF Invalidating(w) THEN "skip" ELSE "inactive")
            /\ UNCHANGED <<row, jobs>>
    /\ UNCHANGED <<github, product, counters>>

\* completeInactiveGithubCheckSync, or a retry when the binding is back.
GiveUpInactive(w) ==
    /\ At(w, "inactive")
    /\ IF bound
       THEN FailSync(w, TRUE)
       ELSE /\ Return(w)
            /\ sync' = IF Lease(w) THEN "inactive" ELSE sync
            /\ aged' = IF Lease(w) THEN FALSE ELSE aged
            /\ waiting' = IF Lease(w) THEN FALSE ELSE waiting
            /\ UNCHANGED <<intent, lastClaim, runId>>
    /\ UNCHANGED <<github, product, counters>>

\* The pull request the intent was meant for: closed for a cancelled one.
TargetUnchanged(w) == here /\ open = (wk[w].gate # "cancelled")

Reconcile(w) ==
    /\ At(w, "reconcile")
    /\ IF TargetUnchanged(w)
       THEN Goto(w, "fetch") /\ UNCHANGED <<row, jobs, refresh>>
       ELSE FailStale(w)
    /\ UNCHANGED <<github, bound, current, passed, counters>>

\* selectReusableRemote over the listed runs of the revision.
SelectReusable(gate) ==
    LET listed == DOMAIN runs
        opened == {i \in listed : ~Completed(runs[i])}
        pool == IF Completed(gate) /\ opened = {} THEN listed ELSE opened
    IN  IF pool = {} THEN 0 ELSE Max(pool)

CanReuse(id, gate) == id # 0 /\ (Completed(gate) \/ ~Completed(runs[id]))

\* The reads of create and update: the run to write to, then the head.
Fetch(w) ==
    LET id == IF wk[w].id = 0 THEN SelectReusable(wk[w].gate) ELSE wk[w].id
    IN  /\ At(w, "fetch")
        /\ IF TargetUnchanged(w)
           THEN /\ wk' = [wk EXCEPT ![w].pc = "write",
                                    ![w].run = IF CanReuse(id, wk[w].gate) THEN id ELSE 0]
                /\ UNCHANGED <<row, jobs, refresh>>
           ELSE FailStale(w)
        /\ UNCHANGED <<github, bound, current, passed, counters>>

\* GitHub applies an update; a completed run cannot be reopened.
Updated(id, gate) ==
    IF ~Completed(gate) /\ Completed(runs[id]) THEN runs ELSE [runs EXCEPT ![id] = gate]

\* What a write of the handler leaves on GitHub, and the run it names.
Written(w) == IF wk[w].run = 0 THEN Append(runs, wk[w].gate)
                               ELSE Updated(wk[w].run, wk[w].gate)
WrittenRun(w) == IF wk[w].run = 0 THEN Len(runs) + 1 ELSE wk[w].run

\* applyIntent: an update that left the run completed is superseded by a
\* create, a write of its own.
Write(w) ==
    /\ At(w, "write")
    /\ runs' = Written(w)
    /\ wk' = IF runs'[WrittenRun(w)] = wk[w].gate
             THEN [wk EXCEPT ![w].run = WrittenRun(w),
                             ![w].pc = IF wk[w].gate = "cancelled" THEN "complete"
                                                                  ELSE "comment"]
             ELSE [wk EXCEPT ![w].run = 0]
    /\ UNCHANGED <<here, open, row, jobs, product, counters>>

\* synchronizePullRequestComment reads the head again before it writes.
Comment(w) ==
    /\ At(w, "comment")
    /\ IF TargetUnchanged(w)
       THEN Goto(w, "complete") /\ UNCHANGED <<row, jobs, refresh>>
       ELSE FailStale(w)
    /\ UNCHANGED <<github, bound, current, passed, counters>>

Complete(w) ==
    /\ At(w, "complete")
    /\ Synchronized(w, wk[w].run)
    /\ UNCHANGED <<github, product, counters>>

\* The run of a revision the pull request has left: findExisting when none
\* is recorded, then the head, which must have moved.
Find(w) ==
    LET id == IF wk[w].id = 0 THEN SelectReusable("cancelled") ELSE wk[w].id
    IN  /\ At(w, "find")
        /\ IF id # 0 /\ here
           THEN FailSync(w, TRUE)
           ELSE /\ wk' = [wk EXCEPT ![w].pc = IF id = 0 THEN "skip" ELSE "invalidate",
                                    ![w].run = id]
                /\ UNCHANGED <<row, jobs>>
        /\ UNCHANGED <<github, product, counters>>

Invalidate(w) ==
    /\ At(w, "invalidate")
    /\ runs' = Written(w)
    /\ Goto(w, "complete")
    /\ UNCHANGED <<here, open, row, jobs, product, counters>>

Skip(w) ==
    /\ At(w, "skip")
    /\ Synchronized(w, runId)
    /\ UNCHANGED <<github, product, counters>>

-----------------------------------------------------------------------------
(* Time and the retry sweep.                                               *)

Age ==
    /\ sync = "syncing" /\ ~aged
    /\ aged' = TRUE
    /\ UNCHANGED <<github, intent, sync, lastClaim, waiting, runId, jobs, product, wk>>

\* The handler is past its claim.
Claimed(w) == ~At(w, "idle") /\ ~At(w, "claim")

\* Two minutes pass over a lease whose handler is gone.
LeaseAges ==
    /\ \A w \in Workers : Lease(w) => ~Claimed(w)
    /\ Age
    /\ UNCHANGED counters

DelayPasses ==
    /\ waiting
    /\ waiting' = FALSE
    /\ UNCHANGED <<github, intent, sync, lastClaim, aged, runId, jobs, product, wk,
                   counters>>

\* Faulty variant: an abandoned lease is not taken for a retry.
SweepRetriesOnly ==
    /\ sync = "retry_required" /\ ~waiting
    /\ aged' = FALSE
    /\ Expedite(intent.reason)
    /\ UNCHANGED <<github, intent, sync, lastClaim, waiting, runId, product, wk, counters>>

\* replayDueGithubCheckSyncs: an abandoned lease becomes a due retry, and
\* due retries are queued.
Sweep ==
    /\ \/ sync = "syncing" /\ aged
       \/ sync = "retry_required" /\ ~waiting
    /\ sync' = "retry_required"
    /\ aged' = FALSE
    /\ Expedite(intent.reason)
    /\ UNCHANGED <<github, intent, lastClaim, waiting, runId, product, wk, counters>>

-----------------------------------------------------------------------------
(* What can go wrong, each within the budget of the instance.              *)

Fault(kind) ==
    /\ kind \in Faults /\ faults < MaxFaults
    /\ faults' = faults + 1
    /\ UNCHANGED <<moves, sent>>

Calling == {"reconcile", "fetch", "write", "comment", "find", "invalidate"}
Writing == {"write", "invalidate"}

\* A request without effect fails: retryably, or for good.
RequestFails(w) ==
    /\ wk[w].pc \in Calling
    /\ \/ Fault("request") /\ FailSync(w, TRUE)
       \/ Fault("reject") /\ FailSync(w, FALSE)
    /\ UNCHANGED <<github, product>>

\* A write takes effect and its answer is lost.
AmbiguousWrite(w) ==
    /\ wk[w].pc \in Writing
    /\ Fault("ambiguous")
    /\ runs' = Written(w)
    /\ FailSync(w, TRUE)
    /\ UNCHANGED <<here, open, product>>

\* A pending intent lands as completed and neutral: an update is followed by
\* a superseding create, a create is an INVALID_RESPONSE.
NeutralWrite(w) ==
    /\ At(w, "write") /\ ~Completed(wk[w].gate)
    /\ Fault("neutral")
    /\ IF wk[w].run = 0
       THEN runs' = Append(runs, "neutral") /\ FailSync(w, FALSE)
       ELSE /\ runs' = [runs EXCEPT ![wk[w].run] = "neutral"]
            /\ wk' = [wk EXCEPT ![w].run = 0]
            /\ UNCHANGED <<row, jobs>>
    /\ UNCHANGED <<here, open, product>>

\* A handler is still at work two minutes after its claim.
SlowHandler(w) ==
    /\ Lease(w) /\ Claimed(w)
    /\ Fault("slow")
    /\ Age

\* The queue misses the heartbeats of a job: it is retried, or it has failed.
ExpireJob ==
    /\ active' = NoJob
    /\ IF active.tries < RetryLimit
       THEN /\ queue' = <<[reason |-> active.reason, tries |-> active.tries + 1]>> \o queue
            /\ UNCHANGED blocked
       ELSE blocked' = TRUE /\ UNCHANGED queue

\* The process of the handler dies.
Crash(w) ==
    /\ ~At(w, "idle")
    /\ Fault("crash")
    /\ wk' = [wk EXCEPT ![w] = Idle]
    /\ IF active.worker = w THEN ExpireJob ELSE UNCHANGED jobs
    /\ UNCHANGED <<github, row, product>>

\* The handler stalls long enough to lose its job, and goes on later.
Stall(w) ==
    /\ active.worker = w
    /\ Fault("stall")
    /\ ExpireJob
    /\ UNCHANGED <<github, row, product, wk>>

Handler(w) ==
    \/ Claim(w) \/ Load(w) \/ GiveUpInactive(w) \/ Reconcile(w) \/ Fetch(w)
    \/ Write(w) \/ Comment(w) \/ Complete(w)
    \/ Find(w) \/ Invalidate(w) \/ Skip(w)

Next ==
    \/ Ingest \/ Reactivate \/ Push \/ CloseOrReopen \/ Suspend
    \/ \E gate \in Gates, reason \in Reasons : ProofIntent(gate, reason)
    \/ LeaseAges \/ DelayPasses \/ Sweep
    \/ \E w \in Workers :
         \/ TakeJob(w) \/ Handler(w)
         \/ RequestFails(w) \/ AmbiguousWrite(w) \/ NeutralWrite(w)
         \/ SlowHandler(w) \/ Crash(w) \/ Stall(w)

Spec == Init /\ [][Next]_vars

\* Running handlers advance, the queue delivers, timers fire, the sweep is
\* periodic and ingestion is driven by the queue.
Fairness ==
    /\ WF_vars(Ingest)
    /\ WF_vars(LeaseAges) /\ WF_vars(DelayPasses) /\ WF_vars(Sweep)
    /\ WF_vars(\E w \in Workers : TakeJob(w))
    /\ \A w \in Workers : WF_vars(Handler(w))

LiveSpec == Spec /\ Fairness

-----------------------------------------------------------------------------
GithubType == here \in BOOLEAN /\ open \in BOOLEAN /\ runs \in Seq(Gates \cup {"neutral"})

ProductType ==
    refresh \in BOOLEAN /\ bound \in BOOLEAN /\ current \in BOOLEAN /\ passed \in BOOLEAN

RowType ==
    /\ intent \in [gate : Gates \cup {"none"}, reason : Reasons \cup {"none"}]
    /\ sync \in {"none", "pending", "syncing", "retry_required", "synchronized",
                "permanent_failure", "inactive"}
    /\ lastClaim \in Workers \cup {NoWorker}
    /\ aged \in BOOLEAN /\ waiting \in BOOLEAN
    /\ runId \in 0..Len(runs)
    /\ sync # "none" => intent.gate \in Gates

JobsType ==
    /\ queue \in Seq([reason : Reasons \cup {"none"}, tries : Nat])
    /\ active \in [worker : Workers \cup {NoWorker}, reason : Reasons \cup {"none"},
                   tries : Nat]
    /\ blocked \in BOOLEAN

HandlerType ==
    /\ wk \in [Workers -> [pc : Pcs, reason : Reasons \cup {"none"},
                           gate : Gates \cup {"none"},
                           id : 0..Len(runs), run : 0..Len(runs)]]
    /\ \A w \in Workers : Claimed(w) => wk[w].gate \in Gates

TypeOK ==
    /\ GithubType /\ ProductType /\ RowType /\ JobsType /\ HandlerType
    /\ faults \in Nat /\ moves \in Nat /\ sent \in Nat

\* What the fence of completion and failure rests on: the handler that holds
\* the lease works on the intent the row holds now, however many intents,
\* claims and takeovers happened since its claim.
LeaseHoldsIntent ==
    \A w \in Workers :
        sync = "syncing" /\ lastClaim = w /\ Claimed(w) =>
            intent = [gate |-> wk[w].gate, reason |-> wk[w].reason]

\* A handler that changes the row's sync_status as it returns does so for the
\* intent it read and wrote: an outcome is never booked on another intent, not
\* even by a handler that was taken over and comes back.
OutcomeBelongsToIntent ==
    [][\A w \in Workers :
          Claimed(w) /\ wk'[w].pc = "idle" /\ sync' # sync =>
              intent = [gate |-> wk[w].gate, reason |-> wk[w].reason]]_vars

\* The outbox replaces instead of adding: whatever is published, retried or
\* failed, a revision has at most two jobs, running and failed ones included.
JobCount == Len(queue) + (IF active = NoJob THEN 0 ELSE 1) + (IF blocked THEN 1 ELSE 0)
NoBacklog == JobCount <= 2

\* The inductive invariant of the proofs.
SyncInv == TypeOK /\ LeaseHoldsIntent /\ NoBacklog

\* A row marked synchronized names a remote run that shows its intent; an
\* invalidation may also find nothing to cancel.
SynchronizedRunShowsIntent ==
    sync = "synchronized" =>
        \/ runId # 0 /\ runs[runId] = intent.gate
        \/ intent.reason = "revision_invalidated"

\* Once changes and faults cease, every intent settles: synchronized, or
\* given up as rejected or unbound.
IntentSettles ==
    <>[](intent.reason # "none" => sync \in {"synchronized", "permanent_failure", "inactive"})
=============================================================================
