---------------------------- MODULE Capabilities ----------------------------
(***************************************************************************)
(* The short-lived capabilities the web process signs and the worker       *)
(* consumes: one opens the recording's stream or the private review        *)
(* context of an attempt under review, the other reads or submits practice *)
(* of a revision.  A capability is presented more than once when a proxy   *)
(* retries or a response is lost, and what it opens may be decided,        *)
(* superseded, withdrawn or deleted while it is in use.                    *)
(***************************************************************************)
EXTENDS Naturals, FiniteSets

CONSTANTS Tokens,    \* the capabilities issued, by jti
          Requests,  \* the requests that present them
          None

VARIABLES
  active,   \* repository and installation are active
  current,  \* the revision is current, its pull request open
  review,   \* the attempt is review_required
  due,      \* the evidence's delete_after has passed
  kept,     \* the evidence is not deleted
  token,    \* the capabilities issued and whether they have expired
  uses,     \* committed uses: audit rows, semantic_practice_capability_uses
  request   \* the worker's requests

vars == <<active, current, review, due, kept, token, uses, request>>
world == <<active, current, review, due, kept>>

\* An evidence capability opens two endpoints; a practice capability names
\* its action.
Kinds == {"evidence", "read", "submit"}
Endpoints == [evidence |-> {"stream", "context"},
              read |-> {"read"}, submit |-> {"submit"}]
AllEndpoints == UNION {Endpoints[k] : k \in Kinds}
Opened == {"streaming", "served", "consumed", "written"}

TypeOK ==
  /\ \A b \in {active, current, review, due, kept} : b \in BOOLEAN
  /\ token \in [Tokens -> [kind: Kinds \cup {None}, expired: BOOLEAN]]
  /\ uses \subseteq AllEndpoints \X Tokens
  /\ request \in [Requests ->
       [pc: {"idle", "verified", "locked", "leased", "ended"} \cup Opened,
        endpoint: AllEndpoints \cup {None}, token: Tokens \cup {None},
        due: BOOLEAN, opened: BOOLEAN]]

Init ==
  /\ active = TRUE /\ current = TRUE /\ review = TRUE
  /\ due = FALSE /\ kept = TRUE
  /\ token = [t \in Tokens |-> [kind |-> None, expired |-> FALSE]]
  /\ uses = {}
  /\ request = [r \in Requests |-> [pc |-> "idle", endpoint |-> None,
                  token |-> None, due |-> FALSE, opened |-> FALSE]]

At(r, pc) == request[r].pc = pc
Use(r) == <<request[r].endpoint, request[r].token>>

----------------------------------------------------------------------------
(* The web process issues. *)

\* requireEvidenceAccess asks GitHub between its two reads: whether the
\* repository is active is known from before the answer only.
EvidenceIssuable == review /\ current /\ kept /\ ~due
PracticeIssuable == active /\ current
Issuable(kind) == IF kind = "evidence" THEN EvidenceIssuable ELSE PracticeIssuable

Issue(t, kind) ==
  /\ token[t].kind = None /\ Issuable(kind)
  /\ token' = [token EXCEPT ![t].kind = kind]
  /\ UNCHANGED <<world, uses, request>>

\* At most 30 or 60 seconds later.
Expire(t) ==
  /\ token[t].kind # None /\ ~token[t].expired
  /\ token' = [token EXCEPT ![t].expired = TRUE]
  /\ UNCHANGED <<world, uses, request>>

----------------------------------------------------------------------------
(* The worker's locks.  A context lease holds every row it read until its   *)
(* transaction ends, a stream's authorization holds the attempt.            *)

\* Faulty variant: the rows behind a context are not locked.
NothingLocked == FALSE

RowsLocked == \E r \in Requests : At(r, "leased")

\* Faulty variant: the attempt is read without a lock before a use is looked for.
AttemptUnlocked == RowsLocked

AttemptLocked == RowsLocked \/ \E r \in Requests : At(r, "locked")

----------------------------------------------------------------------------
(* The requests. *)

\* The signature, the binding to the path and the expiry are checked on
\* arrival; the stream goes on with the clock it read here.
Present(r, t, endpoint) ==
  /\ At(r, "idle")
  /\ token[t].kind # None /\ endpoint \in Endpoints[token[t].kind]
  /\ request' = [request EXCEPT ![r] =
       [pc |-> IF token[t].expired THEN "ended" ELSE "verified",
        endpoint |-> endpoint, token |-> t, due |-> due, opened |-> FALSE]]
  /\ UNCHANGED <<world, token, uses>>

\* authorizeAndConsumeCapability: SELECT ... FOR UPDATE OF attempt.
Streamable(r) == review /\ current /\ kept /\ ~request[r].due

LockAttempt(r) ==
  /\ At(r, "verified") /\ request[r].endpoint = "stream"
  /\ ~AttemptLocked
  /\ request' = [request EXCEPT ![r].pc =
                   IF Streamable(r) /\ Use(r) \notin uses
                   THEN "locked" ELSE "ended"]
  /\ UNCHANGED <<world, token, uses>>

\* The started event commits, the lock is gone; the bytes flow outside any
\* transaction.
OpenStream(r) ==
  /\ At(r, "locked")
  /\ uses' = uses \cup {Use(r)}
  /\ request' = [request EXCEPT ![r].pc = "streaming", ![r].opened = TRUE]
  /\ UNCHANGED <<world, token>>

EndStream(r) ==
  /\ At(r, "streaming")
  /\ request' = [request EXCEPT ![r].pc = "ended"]
  /\ UNCHANGED <<world, token, uses>>

\* authorizeAndConsumeContextCapability: the advisory lock on the capability,
\* then every row FOR UPDATE.  The started event stays uncommitted.
Reviewable == review /\ current /\ active /\ kept /\ ~due

LeaseContext(r) ==
  /\ At(r, "verified") /\ request[r].endpoint = "context"
  /\ ~AttemptLocked
  /\ request' = [request EXCEPT ![r].pc =
                   IF Reviewable /\ Use(r) \notin uses
                   THEN "leased" ELSE "ended"]
  /\ UNCHANGED <<world, token, uses>>

LeaseOver(r) == due \/ token[request[r].token].expired

\* Frames acquired, payloads decrypted, then assertLeaseStillActive and COMMIT.
ServeContext(r) ==
  /\ At(r, "leased") /\ ~LeaseOver(r)
  /\ uses' = uses \cup {Use(r)}
  /\ request' = [request EXCEPT ![r].pc = "served", ![r].opened = TRUE]
  /\ UNCHANGED <<world, token>>

\* Any failure on the way, storage included, rolls the lease back: the
\* capability may be presented again.
FailContext(r) ==
  /\ At(r, "leased")
  /\ request' = [request EXCEPT ![r].pc = "ended"]
  /\ UNCHANGED <<world, token, uses>>

\* Faulty variant: only the deadline of the evidence ends a read.
LeaseOutlastsToken(r) == FailContext(r) /\ due

\* acquireStreamBeforeDeadline and readBoundedStream race storage with the
\* deadline, so a storage that never answers does not keep the lease.
ContextDeadline(r) == FailContext(r) /\ LeaseOver(r)

\* authorizeAndConsumePracticeCapability: one transaction whose INSERT takes
\* the capability.
ConsumePractice(r) ==
  LET accepted == active /\ current /\ Use(r) \notin uses IN
  /\ At(r, "verified") /\ request[r].endpoint \in {"read", "submit"}
  /\ ~RowsLocked
  /\ uses' = IF accepted THEN uses \cup {Use(r)} ELSE uses
  /\ request' = [request EXCEPT ![r].opened = accepted,
                   ![r].pc = IF accepted THEN "consumed" ELSE "ended"]
  /\ UNCHANGED <<world, token>>

\* startPracticeSession and submitPracticeAnswer read the binding again, in
\* the transaction that writes.
MayWrite == active /\ current

WritePractice(r) ==
  /\ At(r, "consumed") /\ request[r].endpoint = "submit" /\ ~RowsLocked
  /\ request' = [request EXCEPT ![r].pc = IF MayWrite THEN "written"
                                          ELSE "ended"]
  /\ UNCHANGED <<world, token, uses>>

\* The worker dies: its transactions roll back, its responses break off.
Crash ==
  /\ \E r \in Requests : request[r].pc \notin {"idle", "ended"}
  /\ request' = [r \in Requests |->
       IF At(r, "idle") THEN request[r]
       ELSE [request[r] EXCEPT !.pc = "ended"]]
  /\ UNCHANGED <<world, token, uses>>

----------------------------------------------------------------------------
(* The world: each waits for the rows it updates. *)

Decide ==
  /\ review /\ ~AttemptLocked
  /\ review' = FALSE
  /\ UNCHANGED <<active, current, due, kept, token, uses, request>>

\* A push supersedes the revision and its attempt in one transaction.
Supersede ==
  /\ current /\ ~AttemptLocked
  /\ current' = FALSE /\ review' = FALSE
  /\ UNCHANGED <<active, due, kept, token, uses, request>>

Withdraw ==
  /\ active /\ ~RowsLocked
  /\ active' = FALSE
  /\ UNCHANGED <<current, review, due, kept, token, uses, request>>

DueTimePasses ==
  /\ ~due /\ due' = TRUE
  /\ UNCHANGED <<active, current, review, kept, token, uses, request>>

Delete ==
  /\ due /\ kept /\ ~RowsLocked
  /\ kept' = FALSE
  /\ UNCHANGED <<active, current, review, due, token, uses, request>>

Next ==
  \/ \E t \in Tokens : (\E kind \in Kinds : Issue(t, kind)) \/ Expire(t)
  \/ \E r \in Requests :
       \/ \E t \in Tokens, e \in AllEndpoints : Present(r, t, e)
       \/ LockAttempt(r) \/ OpenStream(r) \/ EndStream(r)
       \/ LeaseContext(r) \/ ServeContext(r) \/ FailContext(r)
       \/ ConsumePractice(r) \/ WritePractice(r)
  \/ Crash \/ Decide \/ Supersede \/ Withdraw \/ DueTimePasses \/ Delete

\* Capabilities expire; the deadlines of a lease are timers of the process.
Fairness ==
  /\ \A t \in Tokens : WF_vars(Expire(t))
  /\ \A r \in Requests : WF_vars(ContextDeadline(r))

Spec == Init /\ [][Next]_vars /\ Fairness

----------------------------------------------------------------------------
(* Properties. *)

\* A capability opens each of its endpoints once, however
\* many requests present it at the same time and whichever of them fail
\* (the replay checks of review-stream.ts, review-context.ts and
\* practice-http.ts).
CapabilityOpensOnce ==
  \A q, r \in Requests :
    /\ request[q].opened /\ request[r].opened
    /\ Use(q) = Use(r)
    => q = r

\* A recording starts to flow, and a review context is handed out, only while
\* the attempt is under review; the context also only while repository and
\* evidence are, at the end of the read and not merely at its start.
OpensUnderReview ==
  [][\A r \in Requests :
       /\ At(r, "locked") /\ request'[r].pc = "streaming" => review /\ current
       /\ At(r, "leased") /\ request'[r].pc = "served" => Reviewable]_vars

\* Practice is written only for the current revision of an active repository,
\* although the capability was checked in an earlier transaction.
PracticeWriteIsAuthorized ==
  [][\A r \in Requests :
       At(r, "consumed") /\ request'[r].pc = "written" => active /\ current]_vars

\* A context's lease ends, so decisions, pushes and withdrawals that wait for
\* its rows go on, even when storage never answers.
LeaseIsReleased == \A r \in Requests : At(r, "leased") ~> ~At(r, "leased")

\* What a capability opens or writes is still authorized at the moment of the
\* effect, and not only when the capability was checked (review-stream.ts,
\* review-context.ts assertLeaseStillActive, practice-http.ts).
OpensWhileAuthorized == OpensUnderReview /\ PracticeWriteIsAuthorized
=============================================================================
