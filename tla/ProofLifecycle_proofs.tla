------------------------ MODULE ProofLifecycle_proofs ------------------------
(***************************************************************************)
(* Proofs about ProofLifecycle for every set of revisions and every bound  *)
(* on attempts.                                                            *)
(***************************************************************************)
EXTENDS ProofLifecycle, TLAPS

USE NoneAssumption, OversizedAssumption, MaxAttemptsAssumption

\* The state the database starts in satisfies the inductive invariant.
LEMMA InitIInv == Init => IInv
<1> SUFFICES ASSUME Init PROVE IInv
  OBVIOUS
<1>1. TypeOK
  BY DEF Init, TypeOK, Statuses, Gates, Reasons
<1>2. \A a \in Attempts : ~IsLive(a)
  BY DEF Init, IsLive, Live
<1>3. LiveAttemptIsCurrent /\ OneLiveAttempt
  BY <1>2 DEF LiveAttemptIsCurrent, OneLiveAttempt
<1>4. AttemptIsBound /\ ProcessingOnlyWhileOpen /\ SuccessIsEarned
  BY DEF Init, AttemptIsBound, ProcessingOnlyWhileOpen, SuccessIsEarned,
         SatisfiesMergeGate
<1>5. AdvancedCheckIsBacked
  BY DEF Init, AdvancedCheckIsBacked
<1> QED
  BY <1>1, <1>3, <1>4, <1>5 DEF IInv

\* A snapshot keeps the invariant: it invalidates what it supersedes and
\* writes success only for an open head that has a passed attempt.
LEMMA SnapshotIInv ==
  ASSUME IInv, NEW r \in Revisions, NEW closed \in BOOLEAN,
         ProcessSnapshot(r, closed)
  PROVE  IInv'
<1> USE DEF Of, IsLive
<1>1. TypeOK'
  BY DEF IInv, TypeOK, ProcessSnapshot, Invalidated, WebhookGate, Statuses,
         Terminal, Gates, Reasons
<1>2. \A a \in Attempts : status'[a] \in Live =>
         status[a] \in Live /\ rev[a] = r /\ current = r /\ ~closed
  BY DEF IInv, TypeOK, LiveAttemptIsCurrent, ProcessSnapshot, Invalidated, Live
<1>3. AttemptIsBound' /\ LiveAttemptIsCurrent' /\ OneLiveAttempt'
  BY <1>2 DEF IInv, TypeOK, AttemptIsBound, LiveAttemptIsCurrent,
         OneLiveAttempt, ProcessSnapshot, Invalidated, Live
<1>4. ProcessingOnlyWhileOpen'
  BY <1>2 DEF IInv, TypeOK, ProcessingOnlyWhileOpen, ProcessSnapshot, Live
<1>5. \A q \in Revisions : HasPassed(q)' <=> HasPassed(q)
  BY DEF IInv, TypeOK, ProcessSnapshot, Invalidated, Live, HasPassed
<1>6. SuccessIsEarned'
  <2> SUFFICES ASSUME NEW q \in Revisions, check'[q].gate = "success"
               PROVE  q = r /\ ~closed /\ HasPassed(q)
    BY <1>5 DEF SuccessIsEarned, SatisfiesMergeGate, ProcessSnapshot
  <2>1. check[q].gate = "success" => q = current /\ HasPassed(q)
    BY DEF IInv, SuccessIsEarned, SatisfiesMergeGate
  <2>2. CASE q = r
    BY <2>1, <2>2 DEF ProcessSnapshot, CanApplyWebhookCheck, WebhookGate
  <2>3. CASE q # r
    BY <2>1, <2>3 DEF ProcessSnapshot
  <2> QED
    BY <2>2, <2>3
<1>7. AdvancedCheckIsBacked'
  BY <1>2 DEF IInv, TypeOK, AdvancedCheckIsBacked, AdvancedReason,
         ProcessSnapshot, CanApplyWebhookCheck, WebhookGate, Invalidated, Live,
         Retryable
<1> QED
  BY <1>1, <1>3, <1>4, <1>6, <1>7 DEF IInv

\* Inserting the next attempt of the head keeps the invariant, as long as the
\* head has no live attempt and the check is not turned to success.
LEMMA InsertIInv ==
  ASSUME IInv, NEW a \in Attempts, current # None, ~HasLive(current),
         InsertAttempt(a, current),
         UNCHANGED <<current, open>>, prepareJobs' \subseteq Revisions,
         NEW g \in Gates \ {"success"}, NEW w \in Reasons \ {"preparation_failed"},
         \/ check' = check
         \/ check' = Intent(current, g, w)
  PROVE  IInv'
<1> USE DEF Of, IsLive, HasLive, HasPassed, InsertAttempt, IsNew, Intent
<1>1. TypeOK'
  BY DEF IInv, TypeOK, Statuses, Live
<1>2. \A b \in Attempts : b # a => status'[b] = status[b] /\ rev'[b] = rev[b]
  BY DEF IInv, TypeOK
<1>3. status'[a] = "ready" /\ rev'[a] = current /\ current \in Revisions
  BY DEF IInv, TypeOK
<1>4. AttemptIsBound' /\ LiveAttemptIsCurrent' /\ ProcessingOnlyWhileOpen'
  BY <1>2, <1>3 DEF IInv, AttemptIsBound, LiveAttemptIsCurrent,
         ProcessingOnlyWhileOpen, Live
<1>5. OneLiveAttempt'
  BY <1>2, <1>3 DEF IInv, OneLiveAttempt, Live
<1>6. \A q \in Revisions : HasPassed(q) => HasPassed(q)'
  BY <1>2
<1>7. SuccessIsEarned'
  BY <1>6 DEF IInv, TypeOK, SuccessIsEarned, SatisfiesMergeGate
<1>8. AdvancedCheckIsBacked'
  BY <1>3 DEF IInv, TypeOK, AdvancedCheckIsBacked, Live
<1> QED
  BY <1>1, <1>4, <1>5, <1>7, <1>8 DEF IInv

\* Moving a live attempt keeps the invariant when private processing starts
\* only on an open pull request, a terminal attempt leaves an answer on the
\* check, and success is written only together with a pass.
LEMMA MoveIInv ==
  ASSUME IInv, NEW a \in Attempts, IsLive(a),
         NEW s \in (Live \cup Terminal) \ {"invalidated"},
         status' = [status EXCEPT ![a] = s],
         s \in {"processing", "review_required"} => open,
         UNCHANGED <<current, open, rev, due, prepareJobs>>,
         NEW g \in Gates, NEW w \in Reasons \ {"preparation_failed"},
         g = "success" => s = "passed" /\ open,
         \/ check' = check
         \/ check' = Intent(rev[a], g, w)
  PROVE  IInv'
<1> USE DEF Of, IsLive, Intent
<1>1. rev[a] = current /\ current \in Revisions
  BY DEF IInv, LiveAttemptIsCurrent, AttemptIsBound, Live
<1>2. TypeOK'
  BY <1>1 DEF IInv, TypeOK, Statuses
<1>3. \A b \in Attempts : b # a => status'[b] = status[b]
  BY DEF IInv, TypeOK
<1>4. status'[a] = s /\ status[a] \in Live
  BY DEF IInv, TypeOK
<1>5. AttemptIsBound' /\ LiveAttemptIsCurrent' /\ ProcessingOnlyWhileOpen'
  BY <1>1, <1>3, <1>4 DEF IInv, AttemptIsBound, LiveAttemptIsCurrent,
         ProcessingOnlyWhileOpen
<1>6. OneLiveAttempt'
  BY <1>3, <1>4 DEF IInv, OneLiveAttempt
<1>7. \A q \in Revisions : HasPassed(q) => HasPassed(q)'
  BY <1>3, <1>4 DEF HasPassed, Live
<1>8. SuccessIsEarned'
  <2> SUFFICES ASSUME NEW q \in Revisions, check'[q].gate = "success"
               PROVE  q = current /\ open /\ HasPassed(q)'
    BY DEF SuccessIsEarned, SatisfiesMergeGate
  <2>1. CASE check[q].gate = "success"
    BY <2>1, <1>7 DEF IInv, SuccessIsEarned, SatisfiesMergeGate
  <2>2. CASE check[q].gate # "success"
    <3>1. q = rev[a] /\ g = "success"
      BY <2>2, <1>1 DEF IInv, TypeOK
    <3> QED
      BY <3>1, <1>1, <1>4 DEF HasPassed
  <2> QED
    BY <2>1, <2>2
<1>9. AdvancedCheckIsBacked'
  <2>1. s \in Live \cup Retryable \cup {"passed"}
    BY DEF Terminal
  <2>2. \A q \in Revisions : check'[q].reason = "preparation_failed" =>
                             check'[q] = check[q]
    BY <1>1 DEF IInv, TypeOK
  <2>3. \A q \in Revisions : check'[q].reason = "preparation_failed" =>
                             check'[q].gate = "action_required"
    BY <2>2 DEF IInv, AdvancedCheckIsBacked
  <2> QED
    BY <2>1, <2>3, <1>1, <1>4 DEF AdvancedCheckIsBacked
<1> QED
  BY <1>2, <1>5, <1>6, <1>8, <1>9 DEF IInv

\* A preparation that leaves the attempts alone may write the head's check as
\* long as it is not success and a failure asks for action.
LEMMA CheckIInv ==
  ASSUME IInv, current \in Revisions,
         UNCHANGED <<current, open, status, rev, due>>,
         prepareJobs' \subseteq Revisions,
         NEW g \in Gates \ {"success"},
         NEW w \in {"analysis_ready", "preparation_failed"},
         w = "preparation_failed" => g = "action_required",
         \/ check' = check
         \/ check' = Intent(current, g, w)
  PROVE  IInv'
<1> USE DEF Intent
<1>1. TypeOK'
  BY DEF IInv, TypeOK, Reasons
<1>2. (AttemptIsBound /\ LiveAttemptIsCurrent /\ ProcessingOnlyWhileOpen
        /\ OneLiveAttempt)'
  BY DEF IInv, AttemptIsBound, LiveAttemptIsCurrent, ProcessingOnlyWhileOpen,
         OneLiveAttempt, IsLive
<1>3. SuccessIsEarned'
  BY DEF IInv, TypeOK, SuccessIsEarned, SatisfiesMergeGate, HasPassed, Of
<1>4. AdvancedCheckIsBacked'
  BY DEF IInv, TypeOK, AdvancedCheckIsBacked, AdvancedReason, Of
<1> QED
  BY <1>1, <1>2, <1>3, <1>4 DEF IInv

\* Every outcome of the prepare-revision job keeps the invariant.
LEMMA PrepareIInv ==
  ASSUME IInv, NEW r \in Revisions, Prepare(r)
  PROVE  IInv'
<1>0. prepareJobs' \subseteq Revisions
  BY DEF IInv, TypeOK, Prepare, PrepareStale, PrepareReplay, PrepareCreate,
         PrepareSplit, PrepareFails, TakePrepareJob
<1>1. ASSUME NEW g \in Gates \ {"success"},
             check' = AnalysisIntent(r, g, status) \/ check' = check,
             r = current,
             UNCHANGED <<current, open, status, rev, due>>
      PROVE  IInv'
  <2>1. check' = check \/ check' = Intent(current, g, "analysis_ready")
    BY <1>1 DEF AnalysisIntent
  <2> QED
    BY <1>0, <1>1, <2>1, CheckIInv
<1>2. CASE PrepareStale(r)
  <2>1. UNCHANGED <<current, open, status, rev, due, check>>
    BY <1>2 DEF PrepareStale
  <2> QED
    BY <2>1, <1>0 DEF IInv, TypeOK, AttemptIsBound, LiveAttemptIsCurrent,
         OneLiveAttempt, ProcessingOnlyWhileOpen, SuccessIsEarned, HasPassed,
         AdvancedCheckIsBacked, AdvancedReason, Of, IsLive
<1>3. CASE PrepareReplay(r)
  BY <1>1, <1>3 DEF PrepareReplay, Preparable, Gates
<1>4. CASE PrepareCreate(r)
  <2>1. PICK a \in Attempts : InsertAttempt(a, r)
    BY <1>4 DEF PrepareCreate
  <2>2. r = current /\ current # None /\ ~HasLive(current)
        /\ UNCHANGED <<current, open>>
    BY <1>4 DEF PrepareCreate, Preparable
  <2>3. check' = check \/ check' = Intent(current, "in_progress", "analysis_ready")
    BY <1>4, <2>2 DEF PrepareCreate, AnalysisIntent
  <2>4. "in_progress" \in Gates \ {"success"} /\
        "analysis_ready" \in Reasons \ {"preparation_failed"}
    BY DEF Gates, Reasons
  <2> QED
    BY <1>0, <2>1, <2>2, <2>3, <2>4, InsertIInv
<1>5. CASE PrepareSplit(r)
  BY <1>1, <1>5 DEF PrepareSplit, Preparable, Gates
<1>6. CASE PrepareFails(r)
  <2>1. current \in Revisions /\ UNCHANGED <<current, open, status, rev, due>>
        /\ check' = Intent(current, "action_required", "preparation_failed")
    BY <1>6 DEF PrepareFails, Preparable
  <2>2. "action_required" \in Gates \ {"success"}
    BY DEF Gates
  <2> QED
    BY <1>0, <2>1, <2>2, CheckIInv
<1> QED
  BY <1>2, <1>3, <1>4, <1>5, <1>6 DEF Prepare

\* Every request of the author, worker job and maintainer decision on an
\* attempt keeps the invariant.
LEMMA AttemptIInv ==
  ASSUME IInv, NEW a \in Attempts,
         \/ CreateReplacementAttempt(a)
         \/ StartAttempt(a)
         \/ StartUpload(a)
         \/ FinalizeUpload(a)
         \/ AbortAttempt(a)
         \/ DeadlinePasses(a)
         \/ ExpireAttempt(a)
         \/ MediaFinalizationFails(a)
         \/ TransitionToReviewRequired(a)
         \/ TransitionToTechnicalRetry(a)
         \/ \E action \in {"approve", "reject", "manual_retry"} :
               DecideReview(a, action)
  PROVE  IInv'
<1> DEFINE Step(s, g, w) ==
      /\ IsLive(a)
      /\ status' = [status EXCEPT ![a] = s]
      /\ UNCHANGED <<current, open, rev, due, prepareJobs>>
      /\ check' = check \/ check' = Intent(rev[a], g, w)
<1>0. ASSUME NEW s \in (Live \cup Terminal) \ {"invalidated"},
             NEW g \in Gates, NEW w \in Reasons \ {"preparation_failed"},
             s \in {"processing", "review_required"} => open,
             g = "success" => s = "passed" /\ open,
             Step(s, g, w)
      PROVE  IInv'
  BY <1>0, MoveIInv
<1> HIDE DEF Step
<1>1. CASE CreateReplacementAttempt(a)
  <2>1. PICK b \in Attempts : InsertAttempt(b, current)
    BY <1>1 DEF CreateReplacementAttempt
  <2>2. current # None
    BY <1>1 DEF CreateReplacementAttempt, IInv, AttemptIsBound, Retryable
  <2>3. /\ ~HasLive(current)
        /\ check' = Intent(current, "in_progress", "contributor_retry")
        /\ UNCHANGED <<current, open, prepareJobs>>
    BY <1>1 DEF CreateReplacementAttempt
  <2>4. prepareJobs' \subseteq Revisions
    BY <2>3 DEF IInv, TypeOK
  <2>5. "in_progress" \in Gates \ {"success"} /\
        "contributor_retry" \in Reasons \ {"preparation_failed"}
    BY DEF Gates, Reasons
  <2> QED
    BY <2>1, <2>2, <2>3, <2>4, <2>5, InsertIInv
<1>2. CASE StartAttempt(a)
  <2>1. Step("active", "none", "none")
    BY <1>2 DEF Step, StartAttempt, Move, IsLive, Live
  <2> QED
    BY <2>1, <1>0 DEF Live, Gates, Reasons
<1>3. CASE StartUpload(a)
  <2>1. Step("uploading", "none", "none")
    BY <1>3 DEF Step, StartUpload, Move, IsLive, Live
  <2> QED
    BY <2>1, <1>0 DEF Live, Gates, Reasons
<1>4. CASE FinalizeUpload(a)
  <2>1. Step("processing", "none", "none") /\ open
    BY <1>4 DEF Step, FinalizeUpload, Move, IsLive, Live
  <2> QED
    BY <2>1, <1>0 DEF Live, Gates, Reasons
<1>5. CASE AbortAttempt(a)
  <2>1. status[a] \in Live /\ rev[a] = current
    BY <1>5 DEF AbortAttempt, Abortable, Live, IInv, LiveAttemptIsCurrent, IsLive
  <2>2. Step("technical_retry", "action_required", "technical_retry")
    BY <1>5, <2>1 DEF Step, AbortAttempt, IsLive
  <2> QED
    BY <2>2, <1>0 DEF Terminal, Retryable, Gates, Reasons
<1>6. CASE DeadlinePasses(a)
  <2>1. UNCHANGED <<current, open, status, rev, check, prepareJobs>>
        /\ due' \in [Attempts -> BOOLEAN]
    BY <1>6 DEF DeadlinePasses, IInv, TypeOK
  <2> QED
    BY <2>1 DEF IInv, TypeOK, AttemptIsBound, LiveAttemptIsCurrent,
         OneLiveAttempt, ProcessingOnlyWhileOpen, SuccessIsEarned, HasPassed,
         AdvancedCheckIsBacked, AdvancedReason, Of, IsLive
<1>7. CASE ExpireAttempt(a)
  <2>1. Step("expired", "action_required", "attempt_expired")
    BY <1>7 DEF Step, ExpireAttempt, IsLive, Live, Abortable
  <2> QED
    BY <2>1, <1>0 DEF Terminal, Retryable, Gates, Reasons
<1>8. CASE MediaFinalizationFails(a) \/ TransitionToTechnicalRetry(a)
  <2>1. Step("technical_retry", "action_required", "technical_retry")
    BY <1>8 DEF Step, MediaFinalizationFails, TransitionToTechnicalRetry, Move,
           IsLive, Live
  <2> QED
    BY <2>1, <1>0 DEF Terminal, Retryable, Gates, Reasons
<1>9. CASE TransitionToReviewRequired(a)
  <2>1. Step("review_required", "in_progress", "review_required") /\ open
    BY <1>9 DEF Step, TransitionToReviewRequired, Move, IsLive, Live
  <2> QED
    BY <2>1, <1>0 DEF Live, Gates, Reasons
<1>10. ASSUME NEW action \in {"approve", "reject", "manual_retry"},
              DecideReview(a, action)
       PROVE  IInv'
  <2>1. open /\ status[a] = "review_required"
    BY <1>10 DEF DecideReview, Move, IInv, ProcessingOnlyWhileOpen
  <2>2. CASE action = "approve"
    <3>1. Step("passed", "success", "maintainer_decision")
      BY <1>10, <2>1, <2>2 DEF Step, DecideReview, DecisionTarget, Move, IsLive, Live
    <3> QED
      BY <3>1, <2>1, <1>0 DEF Terminal, Gates, Reasons
  <2>3. CASE action = "reject"
    <3>1. Step("retry_required", "action_required", "maintainer_decision")
      BY <1>10, <2>1, <2>3 DEF Step, DecideReview, DecisionTarget, Move, IsLive, Live
    <3> QED
      BY <3>1, <1>0 DEF Terminal, Retryable, Gates, Reasons
  <2>4. CASE action = "manual_retry"
    <3>1. Step("technical_retry", "action_required", "maintainer_decision")
      BY <1>10, <2>1, <2>4 DEF Step, DecideReview, DecisionTarget, Move, IsLive, Live
    <3> QED
      BY <3>1, <1>0 DEF Terminal, Retryable, Gates, Reasons
  <2> QED
    BY <2>2, <2>3, <2>4
<1> QED
  BY <1>1, <1>2, <1>3, <1>4, <1>5, <1>6, <1>7, <1>8, <1>9, <1>10

\* IInv is inductive, hence an invariant of the specification.
THEOREM LifecycleInvariant == Spec => []IInv
<1>1. IInv /\ [Next]_vars => IInv'
  <2> SUFFICES ASSUME IInv, [Next]_vars PROVE IInv'
    OBVIOUS
  <2>1. CASE UNCHANGED vars
    BY <2>1 DEF vars, IInv, TypeOK, AttemptIsBound, LiveAttemptIsCurrent,
         OneLiveAttempt, ProcessingOnlyWhileOpen, SuccessIsEarned, HasPassed,
         AdvancedCheckIsBacked, AdvancedReason, Of, IsLive
  <2>2. CASE Next
    BY <2>2, SnapshotIInv, PrepareIInv, AttemptIInv DEF Next
  <2> QED
    BY <2>1, <2>2
<1> QED
  BY <1>1, InitIInv, PTL DEF Spec

\* The check is success only for the open head with a passed attempt, in
\* every state of every instance.
THEOREM EarnedSuccess == Spec => []SuccessIsEarned
<1>1. IInv => SuccessIsEarned
  BY DEF IInv
<1> QED
  BY <1>1, LifecycleInvariant, PTL

\* At most one attempt of a revision is live, and it belongs to the head.
THEOREM SingleLiveHeadAttempt == Spec => [](OneLiveAttempt /\ LiveAttemptIsCurrent)
<1>1. IInv => OneLiveAttempt /\ LiveAttemptIsCurrent
  BY DEF IInv
<1> QED
  BY <1>1, LifecycleInvariant, PTL

\* Private processing never outlives the close of the pull request.
THEOREM ClosedStopsProcessing == Spec => []ProcessingOnlyWhileOpen
<1>1. IInv => ProcessingOnlyWhileOpen
  BY DEF IInv
<1> QED
  BY <1>1, LifecycleInvariant, PTL

\* No sequence of pushes, closes, failures and retries strands the open head.
THEOREM NoDeadEnd == Spec => []HeadHasAWayForward
<1>1. IInv => HeadHasAWayForward
  BY DEF IInv, TypeOK, AdvancedCheckIsBacked, HeadHasAWayForward, ShouldPrepare,
         HasLive, HasPassed, IsLive
<1> QED
  BY <1>1, LifecycleInvariant, PTL

\* Every step of an attempt follows the transition graph that the database
\* trigger enforces.
THEOREM GraphIsFollowed == Spec => StatusFollowsGraph
<1> DEFINE Follows ==
      \A a \in Attempts :
         status'[a] # status[a] => <<status[a], status'[a]>> \in AllowedTransitions
<1>1. ASSUME IInv, [Next]_vars PROVE Follows
  <2>1. ASSUME NEW a \in Attempts, NEW s, status' = [status EXCEPT ![a] = s],
               <<status[a], s>> \in AllowedTransitions
        PROVE  Follows
    BY <1>1, <2>1 DEF IInv, TypeOK
  <2>2. CASE UNCHANGED status
    BY <2>2
  <2>3. ASSUME NEW r \in Revisions, NEW closed \in BOOLEAN, ProcessSnapshot(r, closed)
        PROVE  Follows
    BY <1>1, <2>3 DEF ProcessSnapshot, Invalidated, IsLive, AllowedTransitions
  <2>4. ASSUME NEW a \in Attempts, NEW r, InsertAttempt(a, r)
        PROVE  Follows
    BY <2>1, <2>4 DEF InsertAttempt, IsNew, AllowedTransitions
  <2>5. ASSUME NEW r \in Revisions, Prepare(r)
        PROVE  Follows
    BY <2>2, <2>4, <2>5 DEF Prepare, PrepareStale, PrepareReplay, PrepareCreate,
           PrepareSplit, PrepareFails
  <2>6. ASSUME NEW a \in Attempts, NEW from, NEW to, Move(a, from, to),
               <<from, to>> \in AllowedTransitions
        PROVE  Follows
    BY <2>1, <2>6 DEF Move
  <2>7. ASSUME NEW a \in Attempts, AbortAttempt(a) \/ ExpireAttempt(a)
        PROVE  Follows
    <3>1. status[a] \in Live
      BY <2>7 DEF AbortAttempt, ExpireAttempt, Abortable, Live
    <3>2. PICK s \in {"technical_retry", "expired", "invalidated"} :
             status' = [status EXCEPT ![a] = s]
      BY <2>7 DEF AbortAttempt, ExpireAttempt
    <3> QED
      BY <3>1, <3>2, <2>1 DEF AllowedTransitions
  <2>8. ASSUME NEW a \in Attempts,
               \/ StartAttempt(a) \/ StartUpload(a) \/ FinalizeUpload(a)
               \/ MediaFinalizationFails(a)
               \/ TransitionToReviewRequired(a) \/ TransitionToTechnicalRetry(a)
        PROVE  Follows
    BY <2>6, <2>8 DEF StartAttempt, StartUpload, FinalizeUpload,
           MediaFinalizationFails, TransitionToReviewRequired,
           TransitionToTechnicalRetry, AllowedTransitions, Live
  <2>9. ASSUME NEW a \in Attempts, NEW action \in {"approve", "reject", "manual_retry"},
               DecideReview(a, action)
        PROVE  Follows
    <3>1. <<"review_required", DecisionTarget(action)>> \in AllowedTransitions
      BY DEF DecisionTarget, AllowedTransitions, Live
    <3> QED
      BY <2>6, <2>9, <3>1 DEF DecideReview
  <2>10. ASSUME NEW a \in Attempts, CreateReplacementAttempt(a) \/ DeadlinePasses(a)
         PROVE  Follows
    BY <2>2, <2>4, <2>10 DEF CreateReplacementAttempt, DeadlinePasses
  <2> HIDE DEF Follows
  <2> QED
    BY <1>1, <2>2, <2>3, <2>5, <2>7, <2>8, <2>9, <2>10 DEF Next, vars
<1>2. IInv /\ [Next]_vars => [Follows]_vars
  BY <1>1
<1> QED
  BY <1>2, LifecycleInvariant, PTL DEF Spec, StatusFollowsGraph

\* The lifecycle implements ProofGate: GitHub can merge only the open head a
\* maintainer confirmed, and only a confirmation or a report raises the gate.
THEOREM LifecycleImplementsGate == Spec => GateSpec
<1> DEFINE P == {r \in Revisions : HasPassed(r)}
           G == {r \in Revisions : check[r].gate = "success"}
<1>1. Init => Gate!Init
  <2> SUFFICES ASSUME Init PROVE Gate!Init
    OBVIOUS
  <2>1. \A r \in Revisions : ~HasPassed(r) /\ check[r].gate # "success"
    BY DEF Init, HasPassed, Of
  <2> QED
    BY <2>1 DEF Init, Gate!Init, SatisfiesMergeGate
<1>2. ASSUME IInv, [Next]_vars PROVE [Gate!Next]_Gate!vars
  <2>0. G \subseteq {current} /\ G \subseteq Revisions
    BY <1>2 DEF IInv, SuccessIsEarned, SatisfiesMergeGate
  <2>1. ASSUME UNCHANGED <<current, open>>, P' = P, G' = G \/ G' = {}
        PROVE  [Gate!Next]_Gate!vars
    BY <2>1 DEF Gate!Next, Gate!Lower, Gate!vars, SatisfiesMergeGate
  <2>2. ASSUME NEW r \in Revisions, NEW closed \in BOOLEAN, ProcessSnapshot(r, closed)
        PROVE  Gate!Next
    <3>1. \A q \in Revisions : HasPassed(q)' <=> HasPassed(q)
      BY <1>2, <2>2 DEF IInv, TypeOK, ProcessSnapshot, Invalidated, Live,
             HasPassed, Of, IsLive
    <3>2. SuccessIsEarned'
      BY <1>2, <2>2, SnapshotIInv DEF IInv
    <3>3. ~closed /\ HasPassed(r) => check'[r].gate = "success"
      BY <2>2 DEF ProcessSnapshot, CanApplyWebhookCheck, WebhookGate
    <3>4. \A q \in Revisions : check'[q].gate = "success" =>
                               q = r /\ ~closed /\ HasPassed(r)
      BY <2>2, <3>1, <3>2 DEF SuccessIsEarned, SatisfiesMergeGate, ProcessSnapshot
    <3>5. G' = IF ~closed /\ r \in P THEN {r} ELSE {}
      BY <3>3, <3>4
    <3>6. P' = P /\ current' = r /\ open' = ~closed
      BY <2>2, <3>1 DEF ProcessSnapshot
    <3>7. Gate!Report(r, ~closed)
      BY <3>5, <3>6 DEF Gate!Report, SatisfiesMergeGate
    <3> QED
      BY <3>7 DEF Gate!Next
  <2>3. ASSUME NEW r \in Revisions \cup {None}, r = current,
               NEW g \in Gates \ {"success"}, NEW w,
               check' = check \/ check' = Intent(r, g, w)
        PROVE  G' = G \/ G' = {}
    BY <1>2, <2>0, <2>3 DEF IInv, TypeOK, Intent
  <2>4. ASSUME NEW a \in Attempts, NEW r, InsertAttempt(a, r)
        PROVE  P' = P
    <3>1. status[a] = "absent" /\ status'[a] = "ready"
          /\ \A b \in Attempts \ {a} : status'[b] = status[b] /\ rev'[b] = rev[b]
      BY <1>2, <2>4 DEF InsertAttempt, IsNew, IInv, TypeOK
    <3> QED
      BY <3>1 DEF HasPassed, Of
  <2>5. ASSUME NEW r \in Revisions, Prepare(r)
        PROVE  [Gate!Next]_Gate!vars
    <3>1. CASE PrepareStale(r)
      BY <2>1, <3>1 DEF PrepareStale, HasPassed, Of
    <3>2. CASE PrepareReplay(r) \/ PrepareSplit(r) \/ PrepareFails(r)
      <4>1. r = current /\ UNCHANGED <<current, open, status, rev>>
        BY <3>2 DEF PrepareReplay, PrepareSplit, PrepareFails, Preparable
      <4>2. \E g \in Gates \ {"success"}, w \in Reasons :
              check' = check \/ check' = Intent(r, g, w)
        BY <3>2 DEF PrepareReplay, PrepareSplit, PrepareFails, AnalysisIntent,
               Gates, Reasons
      <4>3. P' = P
        BY <4>1 DEF HasPassed, Of
      <4> QED
        BY <2>1, <2>3, <4>1, <4>2, <4>3
    <3>3. CASE PrepareCreate(r)
      <4>1. r = current /\ UNCHANGED <<current, open>> /\ P' = P
        BY <3>3, <2>4 DEF PrepareCreate, Preparable
      <4>2. \E g \in Gates \ {"success"}, w \in Reasons :
              check' = check \/ check' = Intent(r, g, w)
        BY <3>3 DEF PrepareCreate, AnalysisIntent, Gates, Reasons
      <4> QED
        BY <2>1, <2>3, <4>1, <4>2
    <3> QED
      BY <2>5, <3>1, <3>2, <3>3 DEF Prepare
  <2>6. ASSUME NEW a \in Attempts, NEW s, IsLive(a), s # "passed",
               status' = [status EXCEPT ![a] = s], UNCHANGED rev
        PROVE  P' = P
    BY <1>2, <2>6 DEF IInv, TypeOK, HasPassed, Of, IsLive, Live
  <2>7. ASSUME NEW a \in Attempts, NEW s, IsLive(a), s # "passed",
               status' = [status EXCEPT ![a] = s],
               UNCHANGED <<current, open, rev>>,
               NEW g \in Gates \ {"success"}, NEW w,
               check' = check \/ check' = Intent(rev[a], g, w)
        PROVE  [Gate!Next]_Gate!vars
    <3>1. rev[a] = current /\ current \in Revisions \cup {None}
      BY <1>2, <2>7 DEF IInv, TypeOK, LiveAttemptIsCurrent
    <3> QED
      BY <2>1, <2>3, <2>6, <2>7, <3>1
  <2>8. ASSUME NEW a \in Attempts, CreateReplacementAttempt(a)
        PROVE  [Gate!Next]_Gate!vars
    <3>1. rev[a] = current /\ current \in Revisions \cup {None}
          /\ UNCHANGED <<current, open>> /\ P' = P
      BY <1>2, <2>4, <2>8 DEF CreateReplacementAttempt, IInv, TypeOK
    <3>2. check' = Intent(current, "in_progress", "contributor_retry")
      BY <2>8, <3>1 DEF CreateReplacementAttempt
    <3>3. "in_progress" \in Gates \ {"success"}
      BY DEF Gates
    <3> QED
      BY <2>1, <2>3, <3>1, <3>2, <3>3
  <2>9. ASSUME NEW a \in Attempts, StartAttempt(a) \/ StartUpload(a) \/ FinalizeUpload(a)
        PROVE  [Gate!Next]_Gate!vars
    <3>1. PICK s \in {"active", "uploading", "processing"} :
            status' = [status EXCEPT ![a] = s] /\ IsLive(a)
            /\ UNCHANGED <<current, open, rev, check>>
      BY <2>9 DEF StartAttempt, StartUpload, FinalizeUpload, Move, IsLive, Live
    <3>2. "none" \in Gates \ {"success"}
      BY DEF Gates
    <3> QED
      BY <2>7, <3>1, <3>2
  <2>10. ASSUME NEW a \in Attempts,
                \/ AbortAttempt(a) \/ ExpireAttempt(a)
                \/ MediaFinalizationFails(a)
                \/ TransitionToReviewRequired(a) \/ TransitionToTechnicalRetry(a)
         PROVE  [Gate!Next]_Gate!vars
    <3>1. IsLive(a) /\ UNCHANGED <<current, open, rev>>
      BY <2>10 DEF AbortAttempt, ExpireAttempt, MediaFinalizationFails,
             TransitionToReviewRequired, TransitionToTechnicalRetry, Move,
             Abortable, IsLive, Live
    <3>2. \E s \in {"technical_retry", "invalidated", "expired", "review_required"} :
            status' = [status EXCEPT ![a] = s]
      BY <2>10 DEF AbortAttempt, ExpireAttempt, MediaFinalizationFails,
             TransitionToReviewRequired, TransitionToTechnicalRetry, Move
    <3>3. \E g \in Gates \ {"success"}, w \in Reasons :
            check' = check \/ check' = Intent(rev[a], g, w)
      BY <2>10 DEF AbortAttempt, ExpireAttempt, MediaFinalizationFails,
             TransitionToReviewRequired, TransitionToTechnicalRetry, Gates, Reasons
    <3> QED
      BY <2>7, <3>1, <3>2, <3>3
  <2>11. ASSUME NEW a \in Attempts, NEW action \in {"reject", "manual_retry"},
                DecideReview(a, action)
         PROVE  [Gate!Next]_Gate!vars
    <3>1. IsLive(a) /\ UNCHANGED <<current, open, rev>>
          /\ check' = Intent(rev[a], "action_required", "maintainer_decision")
      BY <2>11 DEF DecideReview, Move, IsLive, Live
    <3>2. \E s \in {"technical_retry", "retry_required"} :
            status' = [status EXCEPT ![a] = s]
      BY <2>11 DEF DecideReview, DecisionTarget, Move
    <3>3. "action_required" \in Gates \ {"success"}
      BY DEF Gates
    <3> QED
      BY <2>7, <3>1, <3>2, <3>3
  <2>12. ASSUME NEW a \in Attempts, DecideReview(a, "approve")
         PROVE  Gate!Next
    <3>1. /\ status[a] = "review_required" /\ rev[a] = current
          /\ status' = [status EXCEPT ![a] = "passed"]
          /\ check' = Intent(current, "success", "maintainer_decision")
          /\ UNCHANGED <<current, open, rev>>
      BY <2>12 DEF DecideReview, DecisionTarget, Move
    <3>2. open /\ current \in Revisions
      BY <1>2, <3>1 DEF IInv, ProcessingOnlyWhileOpen, AttemptIsBound
    <3>3. P' = P \cup {current}
      BY <1>2, <3>1, <3>2 DEF IInv, TypeOK, HasPassed, Of
    <3>4. G' = {current}
      BY <1>2, <2>0, <3>1, <3>2 DEF IInv, TypeOK, Intent
    <3>5. Gate!Confirm
      BY <3>1, <3>2, <3>3, <3>4 DEF Gate!Confirm, SatisfiesMergeGate
    <3> QED
      BY <3>5 DEF Gate!Next
  <2>13. ASSUME NEW a \in Attempts, DeadlinePasses(a)
         PROVE  [Gate!Next]_Gate!vars
    BY <2>1, <2>13 DEF DeadlinePasses, HasPassed, Of
  <2>14. CASE UNCHANGED vars
    BY <2>1, <2>14 DEF vars, HasPassed, Of
  <2> QED
    BY <1>2, <2>2, <2>5, <2>8, <2>9, <2>10, <2>11, <2>12, <2>13, <2>14 DEF Next
<1> QED
  BY <1>1, <1>2, LifecycleInvariant, PTL DEF Spec, GateSpec, Gate!Spec
=============================================================================
