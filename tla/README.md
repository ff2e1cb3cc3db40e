# UnderstandProof: a TLA+ model of the proof of understanding

UnderstandProof is a GitHub App. For every pull request it asks the author to
record an explanation of the change, and a required check lets GitHub merge
only after a maintainer has confirmed it. The program is a TypeScript monorepo
on PostgreSQL and pg-boss: a web application (`apps/web`), a worker
(`apps/worker`), a GitHub control process (`apps/github-control`) and libraries
(`packages/*`). This directory models the parts whose correctness depends on
how their transactions, remote calls, child processes and jobs interleave.

Paths below are relative to the repository root.

## The system's parts

| Part | State it keeps | Interacts with | Model |
| --- | --- | --- | --- |
| Pull request snapshots (`packages/github/src/service.ts`) | `pull_requests`, `pull_request_revisions.is_current` | invalidates attempts, writes check intents, queues preparation and cleanup | `ProofLifecycle`, `AttemptEvidence` |
| Required check (`packages/db/src/github-production.ts`, `packages/github/src/check-gate.ts`, `check-run.ts`) | `check_runs`, GitHub's check runs | written by every component, read by GitHub | `ProofGate`, `ProofLifecycle`, `CheckSync` |
| Revision preparation (`apps/worker/src/revision-preparation.ts`, `packages/analysis`) | analysis snapshot, bounded source | check intent, generation jobs | `ProofLifecycle`, `ContextBudget` |
| Semantic generation and practice (`apps/worker/src/semantic-generation*.ts`) | budgets, runs, plan, learning, answers, feedback | provider, attempt, check intent | `SemanticGeneration` |
| Attempt life cycle (`apps/web/lib/attempt-lifecycle.ts`, `apps/worker/src/attempt-expiry.ts`) | `attempts` | upload session, object store, check intent | `ProofLifecycle`, `AttemptEvidence` |
| Phone (`apps/web/app/m/handoff/proof.tsx`, `packages/media`) and upload routes | the take in memory; upload session, part ledger, multipart | server, object store | `PhoneRecording`, `AttemptEvidence` |
| Media finalization (`apps/worker/src/media-finalize.ts`, `recording-reader.ts`) | `recording_objects`, the object, ffprobe | object store, pipeline | `AttemptEvidence`, `PhoneRecording`, `MediaTool` |
| Provider pipeline (`apps/worker/src/provider-pipeline*.ts`, `frame-selection.ts`, `audio-transcription.ts`) | transcript, frame, evaluation, ffmpeg children | providers, object store, attempt, check | `ProviderPipeline`, `MediaTool`, `RemoteCall` |
| Providers (`packages/providers`) | a deadline, an attempt count | HTTP streams | `DeadlineCall`, `RemoteCall` |
| Retention (`apps/worker/src/retention.ts`) | `deletion_jobs` | object store, every evidence table | `EvidenceRetention` |
| Maintainer review (`apps/web/lib/maintainer-review.ts`, `apps/worker/src/review-*.ts`, `practice-http.ts`) | decision; capabilities and their uses | attempt, check, evidence deadline | `ProofLifecycle`, `EvidenceRetention`, `Capabilities` |
| GitHub control (`apps/github-control`, `packages/github/src/ingest.ts`, `service.ts`) | deliveries, installations, repositories, recovery candidates | GitHub, job queue | `GithubControl`, `CheckSync` |
| GitHub adapters (`packages/github/src/app-auth.ts`, `pull-request*.ts`) | token cache | GitHub | `GithubClient` |
| Logins (`apps/web/lib/github-oauth-*.ts`, `packages/auth`) | OAuth flows, sessions, handoff tokens, cookies | GitHub, webhooks | `BrowserAccess` |
| Rate limits (`apps/web/lib/oauth-start-protection.ts`, `request-rate-limit.ts`) | event tables | | `RateWindow` |
| Job queue (`packages/db/src/jobs.ts`) | pg-boss singleton jobs | everything in the worker | inside each module |
| Questions, policy, storage, config, observability, UI, deployment | none, or pure I/O | | not modelled |

What is hard here: handlers call stores, providers and GitHub *between* two
transactions; a push, close, suspension or deadline may come between any two
steps; jobs are delivered more than once, fail half-way and run out of retries;
answers are lost after the call took effect; and the same row is written by
many handlers, each of which sees only part of the state. `PROJECT.json` lists
the hazards with the line where each of them bites and the properties that
would notice.

## How to read the modules

An action is one committed transaction, or one await of a handler: whatever the
handler does after it has read is a later action, with its local variables in
the state. Data are reduced to what decides: a revision, a plan or a token is a
model value, a text is its size, a ciphertext is the record it seals. Bounds
(`Max...`) appear in guards only. A definition called a *faulty variant* is not
part of a specification: it is a plausible mistake in the definition that
follows it, and shows which property would notice.

A component's safety is stated as one invariant, the conjunction of named parts
(`EvidenceInv`, `ProviderInv`, ...); each part has its own comment and can be
checked alone. Parts that share no state are checked in one run by an `MC`
module in which a behaviour belongs to one of them (`part`).

### `ProofGate`, `ProofLifecycle`

`ProofGate` is the abstract promise: GitHub may merge at most the head of an
open pull request that a maintainer has confirmed; the gate may be lowered at
any time and is raised only by a confirmation or the report of a head that was
confirmed before. `ProofLifecycle` is one pull request with its revisions,
attempts and persisted check intent, and implements it (`GateSpec`).
`ProcessSnapshot` is `processVerifiedPullRequestSnapshotOperation` with every
effect it has: invalidation, the superseded revision's cancelled check, the new
head's check, the preparation job. Preparation is the path with deterministic
questions (`PrepareCreate`); production is configured for the semantic one
(`apps/worker/src/index.ts`), which `SemanticGeneration` models.

| Variable | Code |
| --- | --- |
| `current`, `open` | `pull_request_revisions.is_current`, `pull_requests.state` |
| `status`, `rev`, `due` | `attempts.status`, `.revision_id`, `.expires_at <= now()` |
| `check` | `check_runs`: what the check shows and `intent_reason` |
| `prepareJobs` | queued `analysis.prepare-revision` jobs |

### `AttemptEvidence`

One attempt with its wrapping material, upload session, multipart and
recording. Handlers that call the object store are split at exactly those
calls: upload start, abort and expiry (reserve, clear, commit), media
finalization (load, complete, validate, persist; on error discard and reject).
Each may die there. pg-boss redelivers the media and expiry jobs; the queue
policy runs one job per key at a time, hence one handler of each kind.

### `PhoneRecording`

One take, from the recorder's blobs through the encrypting queue, the packer
and the part uploads to manifest and finalization, and at the other end the
worker's reader. Every request may be lost, or reach the server after the phone
gave it up (`stray`); every error ends in the technical abort and the recovery
button, both with the server's checks. Sizes are cells of an encrypted blob.

### `MediaTool`

The three child processes that decode a recording while it is still being
authenticated: ffprobe, the frame's ffmpeg, the audio's ffmpeg with its
deadline fence and the transcription of the stored intervals. Storage may
stall, the child may exit, print too much or stop reading at any time.

### `ProviderPipeline`, `EvidenceRetention`

The four stage jobs of a processing attempt with their leases, provider calls
and recovery sweep; `EvidenceRetention` extends it with the audit, the
acceleration by a maintainer's pass, and the deletion that claims a plan, calls
the store and scrubs the rows later. Overlapping handlers occur when a job
outlives its lease (`stalls`).

### `DeadlineCall`, `RemoteCall`

One call under a deadline: requests, retries with backoff and `Retry-After`,
idle timers of streams, one repair of invalid content, the second provider with
its reserve, the judge's normalisation, the deterministic or manual end. Time
is a counter; a sleeper may wake up to `MaxLate` late.

`DeadlineCall` is what its caller relies on, without attempts, kinds of call,
limits, repairs or error classes: so many requests at most, none of them sent or
still open after the deadline; the first provider hands over only while the
second has its reserve; the answer is given once, in time, by the provider asked
last. `RemoteCall` implements it (`CallSpec` in `MCRemote`): `asked` is `side`,
`since` is `begun`, `answer` is `AnswerOf`, which is `None` until the call is
done and then whoever is credited, or nobody. Requests, waits, hops, acceptance
and giving up are its steps; every other step of the call is a stutter.

### `SemanticGeneration`

Proof questions, learning material and practice feedback of one revision: the
scheduling that preparation and the contribution page do, reservation of a run,
the model's answer or the fallback, publication, the sweep, reopening, and the
shredding of private material at its deadline. An error ends the preparation only
where the handler awaits the call (`reserveRun`, `generateProofQuestionPlan`:
`ProofError`); an error of replay or storing passes the catch and the queue
retries or fails the job (`Thrown`). `storable`, chosen by `Init`, says whether a
generated plan can be stored at all.

### `ContextBudget`

What of a pull request reaches the question provider: the selection of hunks
under three byte budgets, the loop that takes hunks away until a context can be
built, the trimming of the provider material. Texts are sizes.

### `CheckSync`

How one revision's check intent reaches GitHub: outbox, claim, lease, every
await of `handleGithubCheckReconcileJob`, remote writes, retries, sweep.
pg-boss is external: `upsert` with `match: "oldest"` is taken to replace the
payload of the oldest pending job and to insert one when none is pending.
GitHub is external: an update never reopens a completed run, and a pending
write may land as completed and neutral, as `check-run.ts` expects of it. The
kinds of fault of an instance are a constant: `request` and `reject` (a call
without effect fails), `ambiguous` (a write takes effect, its answer is lost),
`neutral`, `slow` (a handler is still at work when its lease ages), `crash`,
and `stall` (the queue takes the job of a handler that goes on later).

| Variable | Code |
| --- | --- |
| `here`, `open`, `runs` | GitHub: the pull request's tuple and state, the revision's check runs by id |
| `intent`, `sync`, `runId`, `lastClaim` | `check_runs`: status and reason, `sync_status`, `github_check_run_id`, `sync_attempts` |
| `aged`, `waiting` | `updated_at` older than two minutes, `next_sync_after` in the future |
| `queue`, `active`, `blocked` | the pg-boss jobs of the revision: pending, running, failed |
| `wk` | the handlers' positions and local variables |

### `GithubControl`

Installation, repository and pull request rows under webhooks in any order, the
transfer of a repository to another installation through recovery candidates,
and the delivery and refresh handlers that read GitHub between the lifecycle
fence they load and the transaction that compares it.

### `GithubClient`

The adapters of one repository: the token cache that concurrent calls share
(generations, pending and refreshing mints, invalidation after a 401), the
snapshot that is read page by page, and the upsert of the App's comment.

### `BrowserAccess`, `RateWindow`, `Capabilities`

Logins of a browser whose tabs share their cookies, the handoff to a phone, and
the withdrawal of the repository meanwhile; the two sliding windows, one of
which takes its clock before the lock and one under it; the signed capabilities
that open recording, private context and practice in the worker, with the row
locks each use holds.

### Proof modules and `MC` modules

The theorems are in eight modules, each of which extends the module it proves
about: `ProofLifecycle_proofs`, `CheckSync_proofs`, `EvidenceRetention_proofs`
(with `Capabilities`, over `MCEvidenceLiveness`), `Generation_proofs`
(`SemanticGeneration` and `ContextBudget`, over `MCGeneration`),
`GithubControl_proofs`, `Recording_proofs` (`AttemptEvidence` and `MediaTool`,
over `MCRecording`), `Access_proofs` (`BrowserAccess` and `RateWindow`, over
`MCAccess`) and `Remote_proofs` (`RemoteCall`, `GithubClient` and
`PhoneRecording`, over `MCRemote`).

The `MC` modules name the instances: `MCRecording` puts `AttemptEvidence` and
`MediaTool` side by side (its constants are the size, the durations and the
question intervals of the recording), `MCEvidenceLiveness` `EvidenceRetention`
and `Capabilities`, `MCGeneration` `SemanticGeneration` and `ContextBudget`,
`MCAccess` `BrowserAccess` and a window whose `limiter` is either of the two
limiters, `MCRemote` `RemoteCall`, `GithubClient` and `PhoneRecording`. A step
of such a module is a step of one part that leaves the others alone; the
theorems about parts begin with that lemma (`PartIs...`).

## Runs

| Run | Instance | Shows |
| --- | --- | --- |
| `lifecycle` | 3 revisions (one oversized), 3 attempts | the inductive invariant, merge only when earned, a way forward, the transition graph, refinement of `ProofGate`, progress |
| `evidence` | 2 upload requests, 2 media deliveries; a recording of 2 records and 10 s decoded up to 1.25 s off | status, session, multipart and material agree; decoders use only authenticated input, contain their failures and end |
| `evidence_redelivery` | 1 request, 2 media deliveries | **violation**: a late failure rejects evidence under review |
| `sync_faults` | 1 handler, all faults but `stall`, 2 faults, 2 changes, 2 intents, 2 queue retries | a synchronized row names a run that shows its intent; every intent settles |
| `sync_stall` | 2 handlers, `slow` and `stall`, 2 faults, 1 change, 2 intents, 1 queue retry | lease, fence and backlog; outcomes belong to the intent that was read |
| `pipeline_safety` | 2 handlers, 2 frame keys, 1 fault | deletions leave nothing behind, evaluations are final, policy rests on evidence |
| `pipeline_live` | 1 handler, 2 keys, 1 fault; 1 capability, 2 requests | evaluations and deletions end; capabilities open once and while authorized |
| `semantic` | 2 handlers, 2 plans, 1 change, 1 fault, errors of the generation unbounded, plans storable or not; pull requests of up to 3 files | learning fits the proof, what was issued stays, everything arrives or is shredded; bounding loses nothing silently |
| `semantic_reopen` | 1 handler, 1 plan, 1 change, no fault | **violation**: a reopened head gets no attempt |
| `webhook` | 2 installations, 3 sets of lifecycle events, 1 delivery, 1 fault, 1 transfer | rows agree, fences hold, deliveries and candidates are worked off |
| `access` | 2 logins, 2 callbacks, 1 handoff, 2 phones, 1 withdrawal; 3 requests of 2 subjects | sessions are earned and end with a withdrawal; windows hold |
| `remote` | deadline 8, 2 requests per invocation; 2 adapter calls, 2 moves, 2 tokens, 2 pages; a take of 3 blobs | refinement of `DeadlineCall`, attribution, tokens, snapshots, comments, the take |

### Why the bounds are enough

Three revisions allow a head to be superseded, to return, and a third one to
stay behind; three attempts are a finished one, its live replacement and a
second insertion. Two upload requests are the smallest race for one session
row, two media deliveries the smallest redelivery. In `CheckSync` two faults
let a failure hit the recovery of the first one, two changes let a pull request
leave and return (or a binding be suspended and come back), and two handlers
are a handler and the one that takes over. In the pipeline two handlers are one
that outlived its lease and the one that follows, two keys an object each of
them wrote. Two question plans let a second generation disagree with the first.
The three sets of events of `webhook` are a transfer, a suspension of the
candidate and back, and an installation removed and created; its two handlers
are the one with the queue's lease and one that lost it. Two callbacks are two
tabs or a reload. In `remote` the deadline leaves room for two requests on each
side and a `Retry-After` longer than what is left; two moves take a pull request
away and back; blobs of one and two cells under a limit of three
make a full part that ends inside a record, a short last one, and takes beyond
the limit. The decoded durations lie on both sides of the 250 ms and
the 1 s drift that the instance allows. The budgets of `ContextBudget` are such
that each of them is the one that is exceeded in some pull request.

Symmetry is declared in `access`, `remote` and `pipeline_safety`, which check
invariants and action properties only; the runs with liveness use none.

Deadlock is not looked for where a bounded instance comes to rest (after the
last change, fault or request nothing is left to do); what must not stop is
said by the liveness properties instead. `lifecycle`, which never comes to
rest, is checked for deadlock.

### Fairness

Nothing is assumed anywhere of users, maintainers, GitHub, installations or the
clock's distance to a deadline.

* `ProofLifecycle`: queued preparation jobs run and due attempts are expired;
  the refresh every two minutes and the expiry sweep every minute re-queue what
  was lost, and pg-boss redelivers.
* `AttemptEvidence`: weak fairness of expiry job and sweep, strong fairness of
  the storage call and the second transaction: what is retried for ever does
  not fail for ever.
* `CheckSync`: weak fairness of ingestion, handlers, delivery, timers and
  sweep; faults and changes are bounded, so the property says what happens once
  they cease.
* `EvidenceRetention`: handlers, audit, recovery sweep and deletion run. Strong
  fairness for loading evaluation and policy, because only the bound on
  `Workers` makes one queue wait for another.
* `SemanticGeneration`: preparation, expiry jobs and the sweep every minute are
  weakly fair; each queue's pollers strongly, for the same reason.
* `GithubControl`: the sweeps, and strong fairness of taking a job, as the
  strict FIFO key is shared by several jobs.
* `Capabilities`: a leased read ends by its own deadline. Storage need not
  answer.
* `MediaTool`: timers, the close event of a dead child, and the callbacks of
  closed pipes and cancelled streams. A read that never returns is a behaviour.

In a run of two parts each part is fair in the behaviours that are its own.

## What the violations say

* `evidence_redelivery`: a repeated finalization queues a second
  `media.finalize-upload`. If that run loads while the attempt is processing
  and fails after the pipeline has reached `review_required`, its failure path
  deletes the object and destroys the key of the evidence under review.
* `semantic_reopen`: a close (or push) invalidates the only attempt of a
  revision whose plan exists; after the reopen nothing queues the proof job
  whose replay would create the successor: the scheduling queues learning when
  a plan is ready, and the sweep asks for revisions that have no attempt at
  all. The head stays pending although the code that would serve it exists.

## What else the modelling showed

These were met while translating the code. The models contain the behaviour;
no document or test of the repository says otherwise, so no run claims it.

* Checks: `createReplacementAttempt` does not read the pull request's state
  (`attempt-lifecycle.ts:281`); finalization does, so nothing private is
  processed. A return to an earlier head writes `in_progress` over a check that
  should ask for action, and preparation then returns `replayed`
  (`service.ts:653`, `revision-preparation.ts:540`). An abort's audit row derives
  `multipartAborted` from the session its second transaction locks
  (`attempt-lifecycle.ts:228`). A superseding run whose id was never recorded
  stays open, and an ambiguous superseding create is not looked for
  (`check-run.ts:133`, `:393`). The remote write of a handler that lost its lease
  is not fenced (`check-run.ts:218`); a pending row whose job was exhausted
  before any claim is not swept (`github-production.ts:1002`).
* Preparation reads the pull request's row without a lock
  (`revision-preparation.ts:321`). A processing attempt whose media job is
  exhausted has no recording and no sweep (`media-finalize.ts:79`).
* GitHub control: a concurrent installation event makes a delivery acknowledge
  without effect (`service.ts:373`); a forbidden answer drops a wake-up
  (`control.ts:705`); a commit through the old installation deletes all
  candidates but keeps a binding to one of them (`service.ts:545`); an
  `installation.created` for all repositories makes no candidate.
* Adapters: a fresh call may join a refresh begun before it asked; `invalidate`
  may drop another call's newer token; two comments of the App are never
  reduced to one (`pull-request-comment.ts:124`).
* Logins: `exchangeHandoff` locks the token only, so an attempt may end, and a
  suspension commit, before material and phone session are inserted
  (`handoff.ts:161`, `:184`); that session revives with the repository. A
  logout whose session is dead keeps the cookies; an older tab's callback
  clears a newer tab's flow cookie.
* Capabilities: the stream checks only that the revision is current and the
  attempt under review; stream and practice use the clock of their arrival.
* Providers: a long `Retry-After` fails a call with time left; normalisation
  may turn a review recommendation with an inconsistent reason into a retry; a
  retry with every criterion met is accepted; attempts made before a hop are
  not in the stored count.
* Phone: after `retry_required` or `expired` the recovery button repeats the
  technical abort first, which the server refuses (`proof.tsx:264`).
* Decoders: the frame's ffmpeg starts before its object is opened
  (`frame-selection.ts:449`), so a failing open leaves the child to its 30 s
  timer and, when the child fails first, an unobserved rejection ends the
  worker; ffprobe's and the frame's call never settle when a stream stalls
  (`media-finalize.ts:297`). `FailureIsContained` names these exceptions.
* Context: a hunk without a countable line (only deleted SQL comments), or more
  changed lines than the analyzer accepts, makes the context refused, and the
  loop then drops later hunks as `total_bytes`; the analyzer's line limit is
  therefore never what cuts. Each removed hunk adds an exclusion, and a pull
  request with many files beyond the limit can outgrow the list
  (`generation-context.ts:1118`): `BoundingRefusesNothing` excepts it.
* `semantic.generate-proof-questions` returns the promises of
  `replayCompletedProof` and `persistProofPlanAndCreateAttempt` without `await`
  inside its `try` (`semantic-generation-jobs.ts:109`, `:123`), so their errors
  pass the `catch` and `failProofPreparation` is not called. A plan that can
  never be stored is generated again and again, through retries, the failed job
  and the sweep's `needs_proof`, and the check stays pending. The second part of
  `ProofArrives` says so; without `storable` its first part is violated.
* A learning bundle shredded at its deadline shows as "generating"
  (`semantic-generation-repository.ts:1357`); a feedback job that used up its
  retries is not repeated (`:1252`).

## Proofs

The theorems hold for every value of the constants that the named assumptions
admit. The argument is always the same: an inductive invariant, one lemma per
action (or per part of the invariant), and the temporal step. The invariants a
run checks are seldom inductive; what had to be added to each is said below,
because it is the reason why the code is right.

### `ProofLifecycle_proofs`: any revisions and attempts

* `LifecycleInvariant`: `Spec => []IInv`. The invariants are not inductive one
  by one: a decision never reads `open`, so `SuccessIsEarned` needs
  `ProcessingOnlyWhileOpen` (review exists only while open), which needs
  `LiveAttemptIsCurrent` (a push cannot leave a processing attempt behind);
  `HeadHasAWayForward` needs `AdvancedCheckIsBacked` (only a failed preparation
  or an attempt that is not invalidated moves the head's check past what
  webhooks may overwrite). `IInv` is their conjunction with `TypeOK`,
  `OneLiveAttempt` and `AttemptIsBound`, checked by TLC in `lifecycle`.
* `EarnedSuccess`, `SingleLiveHeadAttempt`, `ClosedStopsProcessing`,
  `NoDeadEnd`: consequences of `IInv`.
* `GraphIsFollowed`: an action property.
* `LifecycleImplementsGate`: initial states map to initial states, every step
  to a step or a stutter of `ProofGate`.

### `CheckSync_proofs`: any handlers, faults, changes, intents and retries

* `SyncInvariant`: `Spec => []SyncInv`, the conjunction of `TypeOK`,
  `LeaseHoldsIntent` and `NoBacklog`. The lease needs the types (a claimed row
  has a gate), and the types need that runs are never removed, so that the ids
  handlers and rows remember stay valid. The argument follows the code: every
  intent write sets `sync_status` to `pending` and thereby breaks the lease,
  every claim takes intent and lease together, everything else leaves both.
* `LeaseIntegrity`, `BoundedBacklog`: consequences.
* `OutcomeIntegrity`: `Spec => OutcomeBelongsToIntent`. Only a handler's own
  step returns it, a return changes `sync_status` only under the fence, and
  behind the fence the row's intent is the handler's.
* `SynchronizedRunIsShown`: `SynchronizedRunShowsIntent` when `"stall"` is not
  among the faults. `ShownInv` adds that one handler at a time is under way,
  that none works on a synchronized row, and that a run shows its handler's
  gate after the write. The hypothesis is needed: with stalls a handler that
  lost its lease may still write to GitHub (`check-run.ts:218` does not fence
  the remote call), and TLC shows the property violated on the instance of
  `sync_stall`. That is why `sync_faults`, which checks it, has no stalls.

### `Recording_proofs`: any upload requests, media deliveries, recording, intervals

* `EvidenceInvariant`: `Spec => []EvidenceInv` of `AttemptEvidence`. A handler
  acts on a session it read one or two transactions ago, so `IInv` says what
  its position implies: a live multipart has one owner, who clears a multipart
  has reserved its session (`ClearingIsReserved`) and the session never comes
  back, the media handler comes after an accepted upload, and until the first
  delivery has ended the object and the row are what finalization left.
  `EvidenceBehindReview` holds for the first delivery only, which is what
  `evidence_redelivery` shows.
* `DecoderInvariant`, `FailuresContained`: `DecoderIInv` relates the call to
  its child: a result exists only after the close event, is asked for only
  after the whole authenticated recording was written, plaintext audio is in
  memory only while the child runs or its result is used, only the audio tool
  has a fence, and only a frame's child can be unobserved.

### `EvidenceRetention_proofs`: any handlers, keys, faults and policy

* `RetentionInvariant`: `Spec => []RetentionInv`. That nothing outlives a
  deletion rests on the order in which a row is planned, the object written
  and the row completed: the row names a key before its object exists, the plan
  contains whatever is still there, and deleted rows stay deleted. While no
  execution outlives its lease (`stalls = 0`, as in the property) one handler
  per stage runs and an upload under way precedes evaluation and audit
  (`LeasedFrames`); with stalls the object of a lost handler is left over,
  which the property states as its condition.
* `PolicyEvidence`, `EvaluationFinal`: action properties, shown step by step.
* `CapabilityInvariant`, `OpensAuthorized`: at most one request holds the lock
  of a capability; the one that does has seen it unused and authorized, and
  review, head and activity cannot change behind its row locks.

### `Generation_proofs`: any handlers, contents, changes, faults; any pull request, limits, costs

* `GenerationInvariant`: `GenerationIInv` adds that a learning run is reserved
  only behind a frozen proof (`LearningFollowsProof`), and that what an
  execution read before its call to the provider is still so after it
  (`ReadsStillHold`): the plan a learning run avoids is never replaced.
* `IssuedProofFinal`: a plan that exists is never replaced, and the check of an
  issued proof is not failed by a late execution.
* `ContextInvariant`: `PartSpec => []ContextInv` of `ContextBudget`. The parts of
  `ContextInv` speak of the end of the bounding; `ContextIInv`, which TLC checked
  over the instance of `semantic`, says what holds on the way there.
  - `Progress`: how far the loop is, and that it keeps one list of hunks for each
    file it has left behind.
  - `Counted`: the counters of the loop are the sums that the schema computes
    again from the content, separators included, and the budgets hold for
    content and remaining room together. This is why a selection never fails its
    own schema for a budget, and only the length of the exclusions is left.
  - `Told`: what is left out is listed or marked at the moment it is left out, and
    nothing takes a list entry or a marker back; the trimming marks itself before
    it takes anything (`Fit`), which is what the faulty variant forgets.
  - `BoundingRefusesNothing`: once no text is left, the trimmed material fits
    (`TrimFits`, from `LimitsAssumption`) and covers its source, so a source that
    does not build always has a hunk to give up.
  - `AnalysisIsComplete`: the context covers its source only if the bytes of the
    shown files sum up to those of all files; the summands are not larger one by
    one, so they are equal, and no file with text is missing.

  A sum (`Total`) is a recursive function on a prefix's length. What it computes
  is characterised by `Induction` and `SeqInduction`, which are stated for sets of
  numbers and of sequences and follow from the least element of a set of
  natural numbers.

### `GithubControl_proofs`: any installations, events and deliveries

* `ControlInvariant`, `FencesAlwaysHold`: rows only move forward, hence a fence
  that a handler loaded is never ahead of the rows (`FencesArePast`), and one
  that an event has overtaken differs from them for good (`OvertakenIsBehind`):
  the comparison in the committing transaction cannot succeed by accident.

### `Access_proofs`: any browsers, callbacks, phones, users, requests and quotas

* `LoginInvariant`, `RotationAuthorized`: `LoginIInv` says that a flow is
  consumed by one call and a handoff token by one phone although each is read
  and updated in different transactions, and that what an authorized rotation
  has read is locked until it commits (`AuthorizedIsLocked`).
* `WindowInvariant`: the limiters take their clock before or under the lock.
  `WindowIInv` says that one transaction decides at a time, that a clock taken
  before the lock is at most `MaxLag` behind, that cleanup deletes only rows
  older than the retention, that a decision still stands when its row is
  inserted, and states the quota for every window, not only those that end at
  an admission. It is proved from `Window + MaxLag < Retention`.

### `Remote_proofs`: any deadlines, delays, calls, pages, moves and takes

* `ProviderInvariant`: `ProviderIInv` counts the requests by invocation (at
  most four follow each other), keeps the stored count below what was sent
  while an invocation runs, says that an invocation keeps its limit, and that
  content is credited to its writer before it is accepted.
* `CallImplementsDeadlineCall`: initial states map to initial states, every step
  to a step or a stutter of `DeadlineCall`. `RequestsCounted` shows that there is
  a request left to be sent, `KeepsLimit` that a hop finds the reserve (the first
  provider's limit leaves it, and a sleeper is at most `MaxLate` past that
  limit). `AnswerIsFresh`, which TLC checked over the instance of `remote`, was
  added for the acceptance: a valid result is of the side whose turn it is, was
  asked for and came by the deadline.
* `GithubInvariant`: the promises speak of tokens that calls hold and of reads
  that have ended; `GithubIInv` says what a call holds at each of its steps
  (`CallsAreSound`), that a mint the cache knows of belongs to the present
  generation (`SlotsAreCurrent`), that the pages read so far are of one edition
  as long as the pull request has not moved (`ReadsAreWhole`), and that an
  upsert which overlaps no other is alone with the comment it found
  (`UpsertIsAlone`).
* `PhoneInvariant`, `ReleaseInvariant`: the promises compare the object in
  storage with the take, and what the worker released with both; `PhoneIInv`,
  which TLC checked over the instance of `remote`, follows the cells from the
  blobs to the object.
  - `NonceIsFresh`: whatever has left the device or is on its way has a nonce
    below the packer's count, and cells with one nonce are of one blob. An error
    between the encryption and the upload moves the packer's count or nothing,
    never the index alone, so the index is not used again for other bytes.
  - `StillWhole`: until something fails, parts, outbox and staged cells together
    are the records of the blobs taken so far, in order, and the chunks are
    their list; `PartsFull` and `WithinLimit` say that all parts but the last of
    a take have the target's size and that what is packed is within the limit,
    which bounds the number of parts.
  - `EndsInOrder`: the recorder is off and the queue empty before the manifest
    is built. `Sealed` is what then never changes; `ManifestIsSealed` says that
    whoever has the manifest (the main thread, a request under way, the server)
    has that of a sealed take, so that a late or repeated finalize is harmless.
  - `ServerFits`, `PhoneKnows`: the attempt's status goes with its recording, and
    the phone's belief with the status.
  - `ReaderFits`: what the worker released is what it could check of the accepted
    manifest, and it could check all of it when it went on.

  The object is a flattened sequence of parts. What `FlattenSeq` computes is
  proved by induction on natural numbers, which the library only offers with an
  operator parameter: `Induction` states it for sets of numbers and derives it
  from the pigeonhole theorem for finite sets (the numbers below a gap would be
  mapped one to one onto a proper part of themselves), and `SeqInduction` carries
  it over to sequences.

### Assumptions

Each is a named `ASSUME` that TLC evaluates in the run of its module. Most say
that bounds are natural numbers and that the names of different things differ
(`None` is no key, `"deleted"` no handler, ...). Those with content:

* `WindowAssumption`: the retention exceeds window and lag. Both limiters keep
  their rows for longer than the window they count
  (`RATE_LIMIT_RETENTION_MS`, `retentionSeconds`); `MaxLag` bounds the wait
  between clock and lock.
* `DurationsAssumption`: at least one attempt per invocation (`resolvePolicy`).
* `TimeAssumption`: the reserve leaves the first provider its minimum.
* `SizeAssumption`: an encrypted blob is not empty (it has a header and a tag).
  `PhoneAssumption`: a part has at least one cell (`MULTIPART_TARGET_BYTES`).
* `RecordingAssumption`: durations and interval ends are natural numbers.
* `LimitsAssumption`: the limit of a title is within that of the whole
  (`GenerationContextLimitsV1Schema`, `generation-context.ts:191`), and the
  material without any text fits; the schema's least limit of 1024 bytes is what
  it is taken from. `SourcesAssumption`: a hunk has bytes (its header).
* `ControlBoundsAssumption`: at least one recovery candidate is kept per pull
  request; the code keeps eight.
* `EventsAssumption`: the events of an instance come from its installations.

### What is only model-checked

All liveness, since fairness and ENABLED are outside what the proof system
handles (`RevisionMakesProgress`, `GithubWorkEnds`, `RetentionEnds` and the
other temporal properties of that kind). Every invariant and every other
property of a passing run is stated by a theorem. No module uses RECURSIVE
operators.

## Not modelled

Policy versions change only through a seed script, so preparation's "policy
changed" outcome does not occur. The domain package's `transitionAttempt`
(`packages/domain`) is used by tests only and is stricter than production; the
graph modelled is the database trigger's. The semantics of a single statement's
read skew, signatures and ciphers, HTTP parsing, prompts and the parsing of
model answers, the classification of risks and areas, the wording of questions,
the evaluation path without a multimodal judge, the queue and detail views of
review, configuration, metrics and deployment are left out; `PROJECT.json`
gives the reason for each component.

## Plan

The modules, the runs and the theorems of the plan are written. What could come
next:

1. The evaluation path without a multimodal judge
   (`schedulePersistedEvaluation`), as a variant of the third stage of
   `ProviderPipeline`.
2. An abstract specification of the evidence of an attempt (stored, used, gone),
   which `AttemptEvidence` and `EvidenceRetention` would both implement.
