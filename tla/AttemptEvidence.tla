--------------------------- MODULE AttemptEvidence ---------------------------
(***************************************************************************)
(* The evidence of one proof attempt: wrapping material, upload session,   *)
(* S3 multipart and recording row, and the handlers that create, abort,    *)
(* finalize and reject it concurrently.  A handler that calls the object   *)
(* store between two transactions is one action per transaction and per    *)
(* storage call; what it remembers in between is part of the state.        *)
(*                                                                         *)
(* The attempt starts when its row is inserted (status ready, revision     *)
(* current).  Pushes and closes arrive as snapshots, as in ProofLifecycle. *)
(* Retention deletion is not part of this module.                          *)
(***************************************************************************)
EXTENDS Integers

CONSTANTS
    Requests,      \* upload-start requests, each creates its own multipart
    MaxMediaRuns,  \* bound on deliveries of the media.finalize-upload job
    None

ASSUME EvidenceNoneAssumption == None \notin Requests
ASSUME MaxMediaRunsAssumption == MaxMediaRuns \in Nat

VARIABLES
    status,     \* attempts.status
    current,    \* the attempt's revision is the current one
    open,       \* pull_requests.state = 'open'
    due,        \* attempts.expires_at <= now()
    material,   \* wrapping_materials of the attempt
    upload,     \* upload_sessions.state
    owner,      \* the request whose multipart the session row names
    store,      \* object store: what became of each request's multipart
    recording,  \* a recording_objects row exists
    exchange,   \* exchangeHandoff between its read and its insert
    start,      \* POST uploads, per request
    abort,      \* abortAttemptForTechnicalRetry
    expiryJob,  \* proof.expire-attempt job
    expiry,     \* expireAttempt handler
    mediaJob,   \* a media.finalize-upload job is queued
    media,      \* finalizeMediaUpload handler
    completed,  \* its local completedObject
    runs        \* media deliveries so far (bounds the model)

attemptVars == <<status, current, open, due>>
evidenceVars == <<material, upload, owner, store, recording>>
mediaVars == <<mediaJob, media, completed, runs>>
expiryVars == <<expiryJob, expiry>>
vars == <<attemptVars, evidenceVars, exchange, start, abort, expiryVars, mediaVars>>

Abortable == {"preparing", "ready", "active", "uploading"}
Live == Abortable \cup {"processing", "review_required"}
Terminal == {"passed", "retry_required", "technical_retry", "expired", "invalidated"}

Init ==
    /\ status = "ready" /\ current = TRUE /\ open \in BOOLEAN /\ due = FALSE
    /\ material = "none" /\ upload = "none" /\ owner = None
    /\ store = [u \in Requests |-> "none"]
    /\ recording = FALSE
    /\ exchange = "idle" /\ start = [u \in Requests |-> "idle"] /\ abort = "idle"
    /\ expiryJob = "scheduled" /\ expiry = "idle"
    /\ mediaJob = FALSE /\ media = "idle" /\ completed = FALSE /\ runs = 0

-----------------------------------------------------------------------------
(* GitHub and the clock.                                                   *)

\* Faulty variant: the invalidation does not queue the cleanup.
ProcessSnapshotNoCleanup(c, o) ==
    /\ current' = c
    /\ open' = o
    /\ status' = IF status \in Live /\ (~c \/ ~o) THEN "invalidated" ELSE status
    /\ UNCHANGED <<due, evidenceVars, exchange, start, abort, expiryVars, mediaVars>>

\* A snapshot reports whether the attempt's revision is the head (c) and
\* whether the pull request is open (o); it invalidates a live attempt of a
\* superseded or closed revision and queues its cleanup at once.
ProcessSnapshot(c, o) ==
    /\ current' = c
    /\ open' = o
    /\ IF status \in Live /\ (~c \/ ~o)
       THEN status' = "invalidated" /\ expiryJob' = "queued"
       ELSE UNCHANGED <<status, expiryJob>>
    /\ UNCHANGED <<due, evidenceVars, exchange, start, abort, expiry, mediaVars>>

DeadlinePasses ==
    /\ ~due
    /\ due' = TRUE
    /\ UNCHANGED <<status, current, open, evidenceVars, exchange, start, abort,
                   expiryVars, mediaVars>>

-----------------------------------------------------------------------------
(* Handoff to the phone, start, upload.                                    *)

\* exchangeHandoff locks the token row only: the attempt is read unlocked.
\* One token is modelled; another one makes a material no recording names.
ExchangeRead ==
    /\ exchange = "idle"
    /\ status = "ready" /\ current /\ ~due
    /\ exchange' = "granted"
    /\ UNCHANGED <<attemptVars, evidenceVars, start, abort, expiryVars, mediaVars>>

ExchangeCommit ==
    /\ exchange = "granted"
    /\ exchange' = "consumed"
    /\ material' = "usable"
    /\ UNCHANGED <<attemptVars, upload, owner, store, recording, start,
                   abort, expiryVars, mediaVars>>

StartAttempt ==
    /\ status = "ready" /\ current /\ ~due
    /\ status' = "active"
    /\ UNCHANGED <<current, open, due, evidenceVars, exchange, start, abort,
                   expiryVars, mediaVars>>

\* Unlocked preflight of POST uploads; destroyed_at is not read.
UploadAuthorize(u) ==
    /\ start[u] = "idle"
    /\ status = "active" /\ current /\ ~due
    /\ material # "none" /\ upload = "none"
    /\ start' = [start EXCEPT ![u] = "authorized"]
    /\ UNCHANGED <<attemptVars, evidenceVars, exchange, abort, expiryVars, mediaVars>>

UploadCreateMultipart(u) ==
    /\ start[u] = "authorized"
    /\ start' = [start EXCEPT ![u] = "created"]
    /\ store' = [store EXCEPT ![u] = "open"]
    /\ UNCHANGED <<attemptVars, material, upload, owner, recording,
                   exchange, abort, expiryVars, mediaVars>>

StillUploadable == status = "active" /\ current /\ ~due

\* The session row and active -> uploading, under the attempt's row lock.
UploadCommit(u) ==
    /\ start[u] = "created"
    /\ StillUploadable
    /\ start' = [start EXCEPT ![u] = "done"]
    /\ upload' = "active"
    /\ owner' = u
    /\ status' = "uploading"
    /\ UNCHANGED <<current, open, due, material, store, recording,
                   exchange, abort, expiryVars, mediaVars>>

\* Otherwise, or on a database error, the route aborts its own multipart and
\* ignores what the object store answers.
UploadReject(u) ==
    /\ start[u] = "created"
    /\ start' = [start EXCEPT ![u] = "done"]
    /\ \/ store' = [store EXCEPT ![u] = "gone"]
       \/ UNCHANGED store
    /\ UNCHANGED <<attemptVars, material, upload, owner, recording,
                   exchange, abort, expiryVars, mediaVars>>

\* POST uploads/finalize with persistPendingUploadFinalization.
FinalizeUpload ==
    /\ current /\ open /\ ~due
    /\ upload = "active" /\ status = "uploading"
    /\ upload' = "pending_finalization"
    /\ status' = "processing"
    /\ mediaJob' = TRUE
    /\ UNCHANGED <<current, open, due, material, owner, store, recording,
                   exchange, start, abort, expiryVars, media, completed, runs>>

\* A repeated finalization is accepted and expedites the media job again.
FinalizeReplay ==
    /\ current /\ open /\ ~due
    /\ upload = "pending_finalization" /\ status = "processing"
    /\ mediaJob' = TRUE
    /\ UNCHANGED <<attemptVars, evidenceVars, exchange, start, abort, expiryVars,
                   media, completed, runs>>

-----------------------------------------------------------------------------
(* Abort by the author, expiry by the worker.                              *)

\* upload: row -> failed if there is one, material destroyed.
DestroyIncompleteEvidence ==
    /\ upload' = IF upload = "none" THEN "none" ELSE "failed"
    /\ material' = IF material = "none" THEN "none" ELSE "destroyed"

\* The session row may be taken for aborting; a missing row is fine too.
UploadAbortable == upload \in {"none", "active", "aborting"}
ReserveUpload == upload' = IF upload = "active" THEN "aborting" ELSE upload
\* With a reserved upload the object store comes next, else the commit.
AfterReserve == IF upload \in {"active", "aborting"} THEN "clear" ELSE "commit"
\* AbortMultipartUpload on the reserved session; a missing upload is fine.
ClearStore == store' = [store EXCEPT ![owner] = IF @ = "open" THEN "gone" ELSE @]

AbortReserve ==
    /\ abort = "idle"
    /\ current
    /\ status \in Abortable
    /\ UploadAbortable
    /\ ReserveUpload
    /\ abort' = AfterReserve
    /\ UNCHANGED <<attemptVars, material, owner, store, recording,
                   exchange, start, expiryVars, mediaVars>>

AbortClear ==
    /\ abort = "clear"
    /\ abort' = "commit"
    /\ ClearStore
    /\ UNCHANGED <<attemptVars, material, upload, owner, recording,
                   exchange, start, expiryVars, mediaVars>>

\* Faulty variant: evidence is destroyed before the status is checked again.
AbortCommitEager ==
    /\ abort = "commit"
    /\ abort' = "idle"
    /\ DestroyIncompleteEvidence
    /\ status' = CASE status \notin Abortable -> status
                   [] status \in Abortable /\ current -> "technical_retry"
                   [] status \in Abortable /\ ~current -> "invalidated"
    /\ UNCHANGED <<current, open, due, owner, store, recording, exchange, start,
                   expiryVars, mediaVars>>

\* The status is read again under the lock: already ended or progressed, no
\* longer the head, or aborted now.
AbortCommit ==
    /\ abort = "commit"
    /\ abort' = "idle"
    /\ \/ /\ status = "technical_retry" \/ (current /\ status \notin Abortable)
          /\ UNCHANGED <<status, upload, material>>
       \/ /\ status # "technical_retry" /\ ~current
          /\ status' = IF status \in Abortable THEN "invalidated" ELSE status
          /\ DestroyIncompleteEvidence
       \/ /\ current /\ status \in Abortable
          /\ status' = "technical_retry"
          /\ DestroyIncompleteEvidence
    /\ UNCHANGED <<current, open, due, owner, store, recording, exchange, start,
                   expiryVars, mediaVars>>

\* The request dies, or the storage call fails with another error.
AbortDies ==
    /\ abort # "idle"
    /\ abort' = "idle"
    /\ UNCHANGED <<attemptVars, evidenceVars, exchange, start, expiryVars, mediaVars>>

CleanupOnly == status = "invalidated" \/ ~current
Expirable == status \in Abortable /\ due

\* reserveExpiry: cleanup of a dead attempt, or a due one; else stale.
ExpiryReserve ==
    /\ expiry = "idle"
    /\ expiryJob = "queued" \/ (expiryJob = "scheduled" /\ due)
    /\ expiryJob' = "none"
    /\ IF status # "expired" /\ (CleanupOnly \/ (Expirable /\ UploadAbortable))
       THEN ReserveUpload /\ expiry' = AfterReserve
       ELSE UNCHANGED <<upload, expiry>>
    /\ UNCHANGED <<attemptVars, material, owner, store, recording,
                   exchange, start, abort, mediaVars>>

ExpiryClear ==
    /\ expiry = "clear"
    /\ expiry' = "commit"
    /\ ClearStore
    /\ UNCHANGED <<attemptVars, material, upload, owner, recording,
                   exchange, start, abort, expiryJob, mediaVars>>

ExpiryCommit ==
    /\ expiry = "commit"
    /\ expiry' = "idle"
    /\ \/ /\ status = "expired" \/ (~CleanupOnly /\ ~Expirable)
          /\ UNCHANGED <<status, upload, material>>
       \/ /\ status # "expired" /\ CleanupOnly
          /\ DestroyIncompleteEvidence
          /\ UNCHANGED status
       \/ /\ ~CleanupOnly /\ Expirable
          /\ status' = "expired"
          /\ DestroyIncompleteEvidence
    /\ UNCHANGED <<current, open, due, owner, store, recording, exchange, start,
                   abort, expiryJob, mediaVars>>

\* The handler fails (worker crash, storage or database error): pg-boss
\* retries the job until its retry limit is used up.
ExpiryFails ==
    /\ expiry # "idle"
    /\ expiry' = "idle"
    /\ \/ expiryJob' = "queued"
       \/ UNCHANGED expiryJob
    /\ UNCHANGED <<attemptVars, evidenceVars, exchange, start, abort, mediaVars>>

\* scheduleOutstandingAttemptExpirations at worker start.
ExpirySweep ==
    /\ current /\ status \in Abortable
    /\ expiryJob = "none" /\ expiry = "idle"
    /\ expiryJob' = IF due THEN "queued" ELSE "scheduled"
    /\ UNCHANGED <<attemptVars, evidenceVars, exchange, start, abort, expiry, mediaVars>>

-----------------------------------------------------------------------------
(* media.finalize-upload.                                                  *)

MediaAuthorized == status = "processing" /\ current /\ open

\* loadFinalization and assertBinding; an unauthorized job only fails.
MediaLoad ==
    /\ media = "idle" /\ mediaJob
    /\ runs < MaxMediaRuns
    /\ mediaJob' = FALSE
    /\ runs' = runs + 1
    /\ media' = IF MediaAuthorized THEN "loaded" ELSE "idle"
    /\ completed' = (MediaAuthorized /\ upload = "completed")
    /\ UNCHANGED <<attemptVars, evidenceVars, exchange, start, abort, expiryVars>>

\* Complete the multipart, or find the object an earlier run completed.
MediaComplete ==
    /\ media = "loaded"
    /\ completed \/ store[owner] \in {"open", "object"}
    /\ media' = "stored"
    /\ completed' = TRUE
    /\ store' = IF completed THEN store ELSE [store EXCEPT ![owner] = "object"]
    /\ UNCHANGED <<attemptVars, material, upload, owner, recording,
                   exchange, start, abort, expiryVars, mediaJob, runs>>

\* The object is read back, decrypted and probed.
MediaValidate ==
    /\ media = "stored"
    /\ store[owner] = "object"
    /\ media' = "valid"
    /\ UNCHANGED <<attemptVars, evidenceVars, exchange, start, abort, expiryVars,
                   mediaJob, completed, runs>>

\* persistValidatedRecording: insert, or the exact row an earlier run wrote.
MediaPersist ==
    /\ media = "valid"
    /\ MediaAuthorized /\ upload \in {"pending_finalization", "completed"}
    /\ media' = "idle"
    /\ recording' = TRUE
    /\ upload' = "completed"
    /\ UNCHANGED <<attemptVars, material, owner, store, exchange, start,
                   abort, expiryVars, mediaJob, completed, runs>>

\* Any error inside the try block: authentication, storage, probe, or a
\* persist that is no longer authorized.
MediaError ==
    /\ \/ media \in {"loaded", "stored"}
       \/ /\ media = "valid"
          /\ ~(MediaAuthorized /\ upload \in {"pending_finalization", "completed"})
    /\ media' = "failing"
    /\ UNCHANGED <<attemptVars, evidenceVars, exchange, start, abort, expiryVars,
                   mediaJob, completed, runs>>

\* recordMediaFinalizationFailure, storage call: errors are ignored.
MediaDiscard ==
    /\ media = "failing"
    /\ media' = "reject"
    /\ \/ /\ store[owner] = IF completed THEN "object" ELSE "open"
          /\ store' = [store EXCEPT ![owner] = "gone"]
       \/ UNCHANGED store
    /\ UNCHANGED <<attemptVars, material, upload, owner, recording,
                   exchange, start, abort, expiryVars, mediaJob, completed, runs>>

\* recordMediaFinalizationFailure, transaction.
MediaReject ==
    /\ media = "reject"
    /\ media' = "idle"
    /\ status' = IF status = "processing" THEN "technical_retry" ELSE status
    /\ upload' = "failed"
    /\ material' = "destroyed"
    /\ UNCHANGED <<current, open, due, owner, store, recording, exchange,
                   start, abort, expiryVars, mediaJob, completed, runs>>

\* The worker dies; pg-boss delivers the job again after its expiry.
MediaCrash ==
    /\ media # "idle"
    /\ media' = "idle"
    /\ mediaJob' = TRUE
    /\ UNCHANGED <<attemptVars, evidenceVars, exchange, start, abort, expiryVars,
                   completed, runs>>

-----------------------------------------------------------------------------
(* Provider pipeline and maintainer: the stages start from the recording.  *)

Transition(from, to) ==
    /\ current /\ status = from
    /\ status' = to
    /\ UNCHANGED <<current, open, due, evidenceVars, exchange, start, abort,
                   expiryVars, mediaVars>>

PipelineEnds(to) == recording /\ open /\ Transition("processing", to)

DecideReview(to) == Transition("review_required", to)

-----------------------------------------------------------------------------
Next ==
    \/ \E c, o \in BOOLEAN : ProcessSnapshot(c, o)
    \/ DeadlinePasses
    \/ ExchangeRead \/ ExchangeCommit \/ StartAttempt
    \/ \E u \in Requests :
          \/ UploadAuthorize(u) \/ UploadCreateMultipart(u)
          \/ UploadCommit(u) \/ UploadReject(u)
    \/ FinalizeUpload \/ FinalizeReplay
    \/ AbortReserve \/ AbortClear \/ AbortCommit \/ AbortDies
    \/ ExpiryReserve \/ ExpiryClear \/ ExpiryCommit \/ ExpiryFails \/ ExpirySweep
    \/ MediaLoad \/ MediaComplete \/ MediaValidate \/ MediaPersist
    \/ MediaError \/ MediaDiscard \/ MediaReject \/ MediaCrash
    \/ \E to \in {"review_required", "technical_retry"} : PipelineEnds(to)
    \/ \E to \in {"passed", "retry_required", "technical_retry"} : DecideReview(to)

Spec == Init /\ [][Next]_vars

\* The expiry worker runs: pg-boss delivers queued jobs and a sweep repeats
\* every minute; storage and database calls that are retried for ever do not
\* fail for ever.  Nothing is assumed of users, GitHub or the media worker.
Fairness ==
    /\ WF_vars(ExpiryReserve)
    /\ SF_vars(ExpiryClear)
    /\ SF_vars(ExpiryCommit)
    /\ WF_vars(ExpirySweep)

FairSpec == Spec /\ Fairness
-----------------------------------------------------------------------------
(* Properties.                                                             *)

UploadStates == {"none", "active", "aborting", "pending_finalization",
                 "completed", "failed"}

TypeOK ==
    /\ status \in Live \cup Terminal
    /\ current \in BOOLEAN /\ open \in BOOLEAN /\ due \in BOOLEAN
    /\ material \in {"none", "usable", "destroyed"}
    /\ upload \in UploadStates
    /\ owner \in Requests \cup {None} /\ (owner = None <=> upload = "none")
    /\ store \in [Requests -> {"none", "open", "object", "gone"}]
    /\ recording \in BOOLEAN
    /\ exchange \in {"idle", "granted", "consumed"}
    /\ start \in [Requests -> {"idle", "authorized", "created", "done"}]
    /\ abort \in {"idle", "clear", "commit"}
    /\ expiryJob \in {"none", "scheduled", "queued"}
    /\ expiry \in {"idle", "clear", "commit"}
    /\ mediaJob \in BOOLEAN /\ completed \in BOOLEAN
    /\ media \in {"idle", "loaded", "stored", "valid", "failing", "reject"}
    /\ runs \in 0..MaxMediaRuns

\* The status and the session row never disagree, whichever of upload start,
\* abort, expiry, finalization and media rejection interleave: no session
\* before uploading, an unfinished one only while uploading or after an
\* invalidation, an accepted one behind every processing attempt.
UploadFitsStatus ==
    /\ status \in {"preparing", "ready", "active"} => upload = "none"
    /\ status = "uploading" => upload \in {"active", "aborting"}
    /\ status = "processing" => upload \in {"pending_finalization", "completed"}
    /\ upload \in {"active", "aborting"} => status \in {"uploading", "invalidated"}
    /\ upload = "pending_finalization" => status \in {"processing", "invalidated"}

\* An accepted finalization still has its multipart: a concurrent abort or
\* expiry never clears it between reservation and acceptance.
AcceptedUploadIsIntact ==
    status = "processing" /\ runs = 0 => store[owner] = "open"

\* What a maintainer reviews exists: the recording, its object and its key.
\* It holds while the media job is delivered once; see RejectionForcesRetry.
EvidenceBehindReview ==
    runs <= 1 /\ status = "review_required" =>
        /\ recording
        /\ upload = "completed"
        /\ store[owner] = "object"
        /\ material = "usable"

\* A due attempt of the head is ended although aborts may die half-way and
\* the expiry handler may fail: expired, or progressed, or ended otherwise.
DueAttemptExpires ==
    (due /\ current /\ status \in Abortable) ~> status \notin Abortable

\* The unfinished upload of an invalidated attempt is cleaned up, unless the
\* cleanup job has used up its retries (no sweep looks for it again).
CleanupExhausted == expiryJob = "none" /\ expiry = "idle"
InvalidatedUploadSettles ==
    (status = "invalidated" /\ upload \in {"active", "aborting"})
        ~> (upload = "failed" \/ CleanupExhausted)

\* The status, the session row, the multipart and the material of an attempt
\* agree, whichever of upload start, abort, expiry, finalization and media
\* handling interleave or die half-way (upload-finalization.ts,
\* attempt-lifecycle.ts, attempt-expiry.ts, media-finalize.ts).
EvidenceInv ==
    /\ TypeOK
    /\ UploadFitsStatus
    /\ AcceptedUploadIsIntact
    /\ EvidenceBehindReview

\* No attempt and no multipart is left in between: the due attempt is ended
\* and the upload of an invalidated one is cleared (attempt-expiry.ts).
UploadsEnd == DueAttemptExpires /\ InvalidatedUploadSettles

\* docs/recording-crypto-v1.md, finalization step 7: every deviation deletes
\* the object, destroys the key metadata and makes the attempt retry.
RejectionForcesRetry ==
    upload = "failed" => status \notin {"processing", "review_required"}
=============================================================================
