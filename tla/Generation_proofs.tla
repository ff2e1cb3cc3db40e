--------------------------- MODULE Generation_proofs ---------------------------
(***************************************************************************)
(* Proofs about the generation of questions and feedback.  The jobs        *)
(* (SemanticGeneration), for any number of executions and any bound on     *)
(* contents, changes and faults: an execution acts on what it read before  *)
(* it waited, and it still holds.  The bounding of a pull request          *)
(* (ContextBudget), for every pull request, limit and cost: the counters   *)
(* of the loop are sums, so the proof is about sums first.                 *)
(***************************************************************************)
EXTENDS MCGeneration, FiniteSetTheorems, SequenceTheorems, WellFoundedInduction, TLAPS

\* A learning run is reserved only behind a frozen proof, and that proof stays.
LearningFollowsProof ==
  runs["learning"] # "none" => plan # None /\ attempt # "none"

\* What the executions under way have read still holds.
ReadsStillHold ==
  \A w \in Workers :
    /\ wk[w].job = "learning" => runs["learning"] # "none"
    /\ At(w, "learning", "generate") => wk[w].saw = plan
    /\ wk[w].replay => plan # None

\* The inductive invariant.
GenerationIInv ==
  /\ TypeOK
  /\ LearningAvoidsProof
  /\ LearningFollowsProof
  /\ ReadsStillHold

\* TypeOK in parts that are preserved separately.
HeadTypes ==
  /\ current \in BOOLEAN /\ open \in BOOLEAN /\ access \in BOOLEAN
  /\ storable \in BOOLEAN
  /\ intent \in {"webhook", "queued", "failed", "advanced"}
  /\ attempt \in {"none", "live", "ended", "invalidated"}
  /\ budget \in BOOLEAN
  /\ session \in {"none", "active", "deleted"} /\ due \in BOOLEAN
  /\ changes \in 0..MaxChanges /\ faults \in 0..MaxFaults
RunTypes ==
  /\ runs \in [Purposes -> {"none", "reserved", "completed"}]
  /\ plan \in Contents \cup {None} /\ (plan # None <=> runs["proof"] = "completed")
  /\ ~storable => plan = None
PrivateTypes ==
  /\ private \in [Artifacts -> {"none", "active", "deleted"}]
  /\ private["bundle"] # "none" <=> runs["learning"] = "completed"
  /\ private["feedback"] # "none" <=> runs["feedback"] = "completed"
  /\ avoids \in Contents \cup {None}
JobTypes == jobs \in [Jobs -> {"none", "pending", "active", "failed"}]
Execution == [job : Purposes \cup {"none"},
              at : {"idle", "load", "replay", "generate", "fail"},
              replay : BOOLEAN, saw : Contents \cup {None}, leased : BOOLEAN]
WorkTypes == wk \in [Workers -> Execution]

\* The parts together are the type invariant.
LEMMA TypeParts ==
  TypeOK <=> HeadTypes /\ RunTypes /\ PrivateTypes /\ JobTypes /\ WorkTypes
BY DEF TypeOK, HeadTypes, RunTypes, PrivateTypes, JobTypes, WorkTypes, Execution

\* Going to another step keeps an execution well typed.
LEMMA GotoWork ==
  ASSUME WorkTypes, NEW w \in Workers,
         NEW p \in {"idle", "load", "replay", "generate", "fail"}, Goto(w, p)
  PROVE  WorkTypes'
BY DEF WorkTypes, Execution, Goto

\* So does leaving.
LEMMA LeaveWork ==
  ASSUME WorkTypes, NEW w \in Workers, Leave(w)
  PROVE  WorkTypes'
BY DEF WorkTypes, Execution, Leave, Idle, Purposes

\* Every step keeps the pull request, the attempt, the check and the counters well
\* typed.
LEMMA HeadStep ==
  ASSUME HeadTypes, [Next]_vars
  PROVE  HeadTypes'
<1> USE SemanticNoneAssumption, SemanticBoundsAssumption
    DEF HeadTypes,
        Bound, Schedule, RecoverOrExpedite, Ended, Retried, Thrown, Leave, Finish, Goto,
            At, FrozenProof, AnalysisReady, Completed, ProofToSchedule,
            ScheduleRevision, Reservable, WaitsForProof, Take, ReplayMatches,
            IssueAttempt, Changing, Idle, headVars, proofVars, practiceVars, vars
<1>1. ASSUME Prepare
      PROVE  HeadTypes'
  BY <1>1 DEF Prepare
<1>2. ASSUME NEW w \in Workers, NEW j \in Purposes, ReserveNothing(w, j)
      PROVE  HeadTypes'
  BY <1>2 DEF ReserveNothing
<1>3. ASSUME NEW w \in Workers, NEW j \in Purposes, Reserve(w, j)
      PROVE  HeadTypes'
  BY <1>3 DEF Reserve
<1>4. ASSUME NEW w \in Workers, ReplayProof(w)
      PROVE  HeadTypes'
  BY <1>4 DEF ReplayProof
<1>5. ASSUME NEW w \in Workers, PersistProof(w)
      PROVE  HeadTypes'
  BY <1>5 DEF PersistProof
<1>6. ASSUME NEW w \in Workers, FailProof(w)
      PROVE  HeadTypes'
  BY <1>6 DEF FailProof
<1>7. ASSUME NEW w \in Workers, LoadLearning(w)
      PROVE  HeadTypes'
  BY <1>7 DEF LoadLearning
<1>8. ASSUME NEW w \in Workers, PersistLearning(w)
      PROVE  HeadTypes'
  BY <1>8 DEF PersistLearning, PersistPrivate, ReplayPrivate
<1>9. ASSUME NEW w \in Workers, LoadFeedback(w)
      PROVE  HeadTypes'
  BY <1>9 DEF LoadFeedback
<1>10. ASSUME NEW w \in Workers, PersistFeedback(w)
      PROVE  HeadTypes'
  BY <1>10 DEF PersistFeedback, PersistPrivate, ReplayPrivate
<1>11. ASSUME NEW w \in Workers, ProofError(w)
      PROVE  HeadTypes'
  BY <1>11 DEF ProofError
<1>12. ASSUME NEW w \in Workers, Crash(w)
      PROVE  HeadTypes'
  BY <1>12 DEF Crash
<1>13. ASSUME NEW w \in Workers, Expire(w)
      PROVE  HeadTypes'
  BY <1>13 DEF Expire
<1>14. ASSUME StartPracticeSession \/ SubmitPracticeAnswer
      PROVE  HeadTypes'
  BY <1>14 DEF StartPracticeSession, SubmitPracticeAnswer
<1>15. ASSUME NEW k \in Artifacts, ExpirePrivate(k) \/ ExpiryFails(k)
      PROVE  HeadTypes'
  BY <1>15 DEF ExpirePrivate, ExpiryFails, Shredded, Cascade
<1>16. ASSUME Sweep
      PROVE  HeadTypes'
  BY <1>16 DEF Sweep
<1>17. ASSUME Depart \/ Return \/ ToggleAccess \/ AttemptAdvances \/ DeadlinePasses
      PROVE  HeadTypes'
  <2>0. CASE Depart
    <3>1. changes' \in 0..MaxChanges
      BY <2>0 DEF Depart
    <3>2. current' \in BOOLEAN /\ open' \in BOOLEAN
      BY <2>0 DEF Depart
    <3>3. attempt' \in {"none", "live", "ended", "invalidated"}
      BY <2>0 DEF Depart
    <3>4. UNCHANGED <<access, storable, intent, budget, session, due, faults>>
      BY <2>0 DEF Depart
    <3> QED
      BY <3>1, <3>2, <3>3, <3>4
  <2>1. CASE Return
    BY <2>1 DEF Return
  <2>2. CASE ToggleAccess
    BY <2>2 DEF ToggleAccess
  <2>3. CASE AttemptAdvances
    BY <2>3 DEF AttemptAdvances
  <2>4. CASE DeadlinePasses
    BY <2>4 DEF DeadlinePasses
  <2> QED
    BY <1>17, <2>0, <2>1, <2>2, <2>3, <2>4
<1>18. ASSUME UNCHANGED vars
      PROVE  HeadTypes'
  BY <1>18 DEF vars
<1> QED
  BY <1>1, <1>2, <1>3, <1>4, <1>5, <1>6, <1>7, <1>8, <1>9, <1>10, <1>11, <1>12,
      <1>13, <1>14, <1>15, <1>16, <1>17, <1>18
     DEF Next, ProofStep, LearningStep, FeedbackStep, Purposes

\* A stored plan and a completed proof run come together, in one transaction
\* (persistProofPlanAndCreateAttempt).
LEMMA RunStep ==
  ASSUME RunTypes, WorkTypes, ReadsStillHold, [Next]_vars
  PROVE  RunTypes'
<1> USE SemanticNoneAssumption, SemanticBoundsAssumption
    DEF RunTypes, Purposes, WorkTypes, Execution, ReadsStillHold,
        Bound, Schedule, RecoverOrExpedite, Ended, Retried, Thrown, Leave, Finish, Goto,
            At, FrozenProof, AnalysisReady, Completed, ProofToSchedule,
            ScheduleRevision, Reservable, WaitsForProof, Take, ReplayMatches,
            IssueAttempt, Changing, Idle, headVars, proofVars, practiceVars, vars
<1>1. ASSUME Prepare
      PROVE  RunTypes'
  BY <1>1 DEF Prepare
<1>2. ASSUME NEW w \in Workers, NEW j \in Purposes, ReserveNothing(w, j)
      PROVE  RunTypes'
  BY <1>2 DEF ReserveNothing
<1>3. ASSUME NEW w \in Workers, NEW j \in Purposes, Reserve(w, j)
      PROVE  RunTypes'
  BY <1>3 DEF Reserve
<1>4. ASSUME NEW w \in Workers, ReplayProof(w)
      PROVE  RunTypes'
  BY <1>4 DEF ReplayProof
<1>5. ASSUME NEW w \in Workers, PersistProof(w)
      PROVE  RunTypes'
  BY <1>5 DEF PersistProof
<1>6. ASSUME NEW w \in Workers, FailProof(w)
      PROVE  RunTypes'
  BY <1>6 DEF FailProof
<1>7. ASSUME NEW w \in Workers, LoadLearning(w)
      PROVE  RunTypes'
  BY <1>7 DEF LoadLearning
<1>8. ASSUME NEW w \in Workers, PersistLearning(w)
      PROVE  RunTypes'
  BY <1>8 DEF PersistLearning, PersistPrivate, ReplayPrivate
<1>9. ASSUME NEW w \in Workers, LoadFeedback(w)
      PROVE  RunTypes'
  BY <1>9 DEF LoadFeedback
<1>10. ASSUME NEW w \in Workers, PersistFeedback(w)
      PROVE  RunTypes'
  BY <1>10 DEF PersistFeedback, PersistPrivate, ReplayPrivate
<1>11. ASSUME NEW w \in Workers, ProofError(w)
      PROVE  RunTypes'
  BY <1>11 DEF ProofError
<1>12. ASSUME NEW w \in Workers, Crash(w)
      PROVE  RunTypes'
  BY <1>12 DEF Crash
<1>13. ASSUME NEW w \in Workers, Expire(w)
      PROVE  RunTypes'
  BY <1>13 DEF Expire
<1>14. ASSUME StartPracticeSession \/ SubmitPracticeAnswer
      PROVE  RunTypes'
  BY <1>14 DEF StartPracticeSession, SubmitPracticeAnswer
<1>15. ASSUME NEW k \in Artifacts, ExpirePrivate(k) \/ ExpiryFails(k)
      PROVE  RunTypes'
  BY <1>15 DEF ExpirePrivate, ExpiryFails, Shredded, Cascade
<1>16. ASSUME Sweep
      PROVE  RunTypes'
  BY <1>16 DEF Sweep
<1>17. ASSUME Depart \/ Return \/ ToggleAccess \/ AttemptAdvances \/ DeadlinePasses
      PROVE  RunTypes'
  BY <1>17 DEF Depart, Return, ToggleAccess, AttemptAdvances, DeadlinePasses
<1>18. ASSUME UNCHANGED vars
      PROVE  RunTypes'
  BY <1>18 DEF vars
<1> QED
  BY <1>1, <1>2, <1>3, <1>4, <1>5, <1>6, <1>7, <1>8, <1>9, <1>10, <1>11, <1>12,
      <1>13, <1>14, <1>15, <1>16, <1>17, <1>18
     DEF Next, ProofStep, LearningStep, FeedbackStep, Purposes

\* Private material and the completion of its run come together; shredding only
\* marks it deleted (persistPrivateArtifact, semantic.expire-private).
LEMMA PrivateStep ==
  ASSUME PrivateTypes, RunTypes, WorkTypes, [Next]_vars
  PROVE  PrivateTypes'
<1> USE SemanticNoneAssumption, SemanticBoundsAssumption
    DEF PrivateTypes, RunTypes, WorkTypes, Execution, Purposes, Artifacts,
        Bound, Schedule, RecoverOrExpedite, Ended, Retried, Thrown, Leave, Finish, Goto,
            At, FrozenProof, AnalysisReady, Completed, ProofToSchedule,
            ScheduleRevision, Reservable, WaitsForProof, Take, ReplayMatches,
            IssueAttempt, Changing, Idle, headVars, proofVars, practiceVars, vars
<1>1. ASSUME Prepare
      PROVE  PrivateTypes'
  BY <1>1 DEF Prepare
<1>2. ASSUME NEW w \in Workers, NEW j \in Purposes, ReserveNothing(w, j)
      PROVE  PrivateTypes'
  BY <1>2 DEF ReserveNothing
<1>3. ASSUME NEW w \in Workers, NEW j \in Purposes, Reserve(w, j)
      PROVE  PrivateTypes'
  BY <1>3 DEF Reserve
<1>4. ASSUME NEW w \in Workers, ReplayProof(w)
      PROVE  PrivateTypes'
  BY <1>4 DEF ReplayProof
<1>5. ASSUME NEW w \in Workers, PersistProof(w)
      PROVE  PrivateTypes'
  BY <1>5 DEF PersistProof
<1>6. ASSUME NEW w \in Workers, FailProof(w)
      PROVE  PrivateTypes'
  BY <1>6 DEF FailProof
<1>7. ASSUME NEW w \in Workers, LoadLearning(w)
      PROVE  PrivateTypes'
  BY <1>7 DEF LoadLearning
<1>8. ASSUME NEW w \in Workers, PersistLearning(w)
      PROVE  PrivateTypes'
  BY <1>8 DEF PersistLearning, PersistPrivate, ReplayPrivate
<1>9. ASSUME NEW w \in Workers, LoadFeedback(w)
      PROVE  PrivateTypes'
  BY <1>9 DEF LoadFeedback
<1>10. ASSUME NEW w \in Workers, PersistFeedback(w)
      PROVE  PrivateTypes'
  BY <1>10 DEF PersistFeedback, PersistPrivate, ReplayPrivate
<1>11. ASSUME NEW w \in Workers, ProofError(w)
      PROVE  PrivateTypes'
  BY <1>11 DEF ProofError
<1>12. ASSUME NEW w \in Workers, Crash(w)
      PROVE  PrivateTypes'
  BY <1>12 DEF Crash
<1>13. ASSUME NEW w \in Workers, Expire(w)
      PROVE  PrivateTypes'
  BY <1>13 DEF Expire
<1>14. ASSUME StartPracticeSession \/ SubmitPracticeAnswer
      PROVE  PrivateTypes'
  BY <1>14 DEF StartPracticeSession, SubmitPracticeAnswer
<1>15. ASSUME NEW k \in Artifacts, ExpirePrivate(k) \/ ExpiryFails(k)
      PROVE  PrivateTypes'
  BY <1>15 DEF ExpirePrivate, ExpiryFails, Shredded, Cascade
<1>16. ASSUME Sweep
      PROVE  PrivateTypes'
  BY <1>16 DEF Sweep
<1>17. ASSUME Depart \/ Return \/ ToggleAccess \/ AttemptAdvances \/ DeadlinePasses
      PROVE  PrivateTypes'
  BY <1>17 DEF Depart, Return, ToggleAccess, AttemptAdvances, DeadlinePasses
<1>18. ASSUME UNCHANGED vars
      PROVE  PrivateTypes'
  BY <1>18 DEF vars
<1> QED
  BY <1>1, <1>2, <1>3, <1>4, <1>5, <1>6, <1>7, <1>8, <1>9, <1>10, <1>11, <1>12,
      <1>13, <1>14, <1>15, <1>16, <1>17, <1>18
     DEF Next, ProofStep, LearningStep, FeedbackStep, Purposes

\* Every step keeps the singleton jobs well typed.
LEMMA JobStep ==
  ASSUME JobTypes, [Next]_vars
  PROVE  JobTypes'
<1> USE SemanticNoneAssumption, SemanticBoundsAssumption
    DEF JobTypes,
        Bound, Schedule, RecoverOrExpedite, Ended, Retried, Thrown, Leave, Finish, Goto,
            At, FrozenProof, AnalysisReady, Completed, ProofToSchedule,
            ScheduleRevision, Reservable, WaitsForProof, Take, ReplayMatches,
            IssueAttempt, Changing, Idle, headVars, proofVars, practiceVars, vars
<1>1. ASSUME Prepare
      PROVE  JobTypes'
  BY <1>1 DEF Prepare
<1>2. ASSUME NEW w \in Workers, NEW j \in Purposes, ReserveNothing(w, j)
      PROVE  JobTypes'
  BY <1>2 DEF ReserveNothing
<1>3. ASSUME NEW w \in Workers, NEW j \in Purposes, Reserve(w, j)
      PROVE  JobTypes'
  BY <1>3 DEF Reserve
<1>4. ASSUME NEW w \in Workers, ReplayProof(w)
      PROVE  JobTypes'
  BY <1>4 DEF ReplayProof
<1>5. ASSUME NEW w \in Workers, PersistProof(w)
      PROVE  JobTypes'
  BY <1>5 DEF PersistProof
<1>6. ASSUME NEW w \in Workers, FailProof(w)
      PROVE  JobTypes'
  BY <1>6 DEF FailProof
<1>7. ASSUME NEW w \in Workers, LoadLearning(w)
      PROVE  JobTypes'
  BY <1>7 DEF LoadLearning
<1>8. ASSUME NEW w \in Workers, PersistLearning(w)
      PROVE  JobTypes'
  BY <1>8 DEF PersistLearning, PersistPrivate, ReplayPrivate
<1>9. ASSUME NEW w \in Workers, LoadFeedback(w)
      PROVE  JobTypes'
  BY <1>9 DEF LoadFeedback
<1>10. ASSUME NEW w \in Workers, PersistFeedback(w)
      PROVE  JobTypes'
  BY <1>10 DEF PersistFeedback, PersistPrivate, ReplayPrivate
<1>11. ASSUME NEW w \in Workers, ProofError(w)
      PROVE  JobTypes'
  BY <1>11 DEF ProofError
<1>12. ASSUME NEW w \in Workers, Crash(w)
      PROVE  JobTypes'
  BY <1>12 DEF Crash
<1>13. ASSUME NEW w \in Workers, Expire(w)
      PROVE  JobTypes'
  BY <1>13 DEF Expire
<1>14. ASSUME StartPracticeSession \/ SubmitPracticeAnswer
      PROVE  JobTypes'
  BY <1>14 DEF StartPracticeSession, SubmitPracticeAnswer
<1>15. ASSUME NEW k \in Artifacts, ExpirePrivate(k) \/ ExpiryFails(k)
      PROVE  JobTypes'
  BY <1>15 DEF ExpirePrivate, ExpiryFails, Shredded, Cascade
<1>16. ASSUME Sweep
      PROVE  JobTypes'
  BY <1>16 DEF Sweep
<1>17. ASSUME Depart \/ Return \/ ToggleAccess \/ AttemptAdvances \/ DeadlinePasses
      PROVE  JobTypes'
  BY <1>17 DEF Depart, Return, ToggleAccess, AttemptAdvances, DeadlinePasses
<1>18. ASSUME UNCHANGED vars
      PROVE  JobTypes'
  BY <1>18 DEF vars
<1> QED
  BY <1>1, <1>2, <1>3, <1>4, <1>5, <1>6, <1>7, <1>8, <1>9, <1>10, <1>11, <1>12,
      <1>13, <1>14, <1>15, <1>16, <1>17, <1>18
     DEF Next, ProofStep, LearningStep, FeedbackStep, Purposes

\* Every step keeps the executions well typed.
LEMMA WorkStep ==
  ASSUME WorkTypes, RunTypes, [Next]_vars
  PROVE  WorkTypes'
<1> USE SemanticNoneAssumption, SemanticBoundsAssumption
    DEF WorkTypes, Execution, RunTypes, Purposes,
        Bound, Schedule, RecoverOrExpedite, Ended, Retried, Thrown, Leave, Finish, Goto,
            At, FrozenProof, AnalysisReady, Completed, ProofToSchedule,
            ScheduleRevision, Reservable, WaitsForProof, Take, ReplayMatches,
            IssueAttempt, Changing, Idle, headVars, proofVars, practiceVars, vars
<1>1. ASSUME Prepare
      PROVE  WorkTypes'
  BY <1>1 DEF Prepare
<1>2. ASSUME NEW w \in Workers, NEW j \in Purposes, ReserveNothing(w, j)
      PROVE  WorkTypes'
  BY <1>2 DEF ReserveNothing
<1>3. ASSUME NEW w \in Workers, NEW j \in Purposes, Reserve(w, j)
      PROVE  WorkTypes'
  BY <1>3 DEF Reserve
<1>4. ASSUME NEW w \in Workers, ReplayProof(w)
      PROVE  WorkTypes'
  <2>1. Goto(w, "generate") \/ Leave(w)
    BY <1>4 DEF ReplayProof
  <2> QED
    BY <2>1, GotoWork, LeaveWork
<1>5. ASSUME NEW w \in Workers, PersistProof(w)
      PROVE  WorkTypes'
  <2>1. Leave(w)
    BY <1>5 DEF PersistProof
  <2> QED
    BY <2>1, LeaveWork
<1>6. ASSUME NEW w \in Workers, FailProof(w)
      PROVE  WorkTypes'
  BY <1>6 DEF FailProof
<1>7. ASSUME NEW w \in Workers, LoadLearning(w)
      PROVE  WorkTypes'
  <2>1. FrozenProof \in Contents \cup {None}
    OBVIOUS
  <2> HIDE DEF FrozenProof
  <2>2. wk' = [wk EXCEPT ![w].at = "generate", ![w].saw = FrozenProof]
    BY <1>7 DEF LoadLearning
  <2>3. wk'[w] \in Execution
    <3>1. wk'[w] = [wk[w] EXCEPT !.at = "generate", !.saw = FrozenProof]
      BY <2>2
    <3>2. wk[w] \in Execution
      OBVIOUS
    <3> QED
      BY <2>1, <3>1, <3>2
  <2>4. \A v \in Workers \ {w} : wk'[v] = wk[v]
    BY <2>2
  <2>5. wk' = [v \in Workers |-> wk'[v]]
    BY <2>2
  <2> QED
    <3> HIDE DEF Execution
    <3> QED
      BY <2>3, <2>4, <2>5
<1>8. ASSUME NEW w \in Workers, PersistLearning(w)
      PROVE  WorkTypes'
  BY <1>8 DEF PersistLearning, PersistPrivate, ReplayPrivate
<1>9. ASSUME NEW w \in Workers, LoadFeedback(w)
      PROVE  WorkTypes'
  <2>1. Goto(w, "generate") \/ Leave(w)
    BY <1>9 DEF LoadFeedback
  <2> QED
    BY <2>1, GotoWork, LeaveWork
<1>10. ASSUME NEW w \in Workers, PersistFeedback(w)
      PROVE  WorkTypes'
  BY <1>10 DEF PersistFeedback, PersistPrivate, ReplayPrivate
<1>11. ASSUME NEW w \in Workers, ProofError(w)
      PROVE  WorkTypes'
  <2>1. CASE Goto(w, "fail")
    BY <2>1, GotoWork
  <2>2. CASE wk' = [wk EXCEPT ![w] = [Idle EXCEPT !.job = "proof", !.at = "fail",
                                               !.leased = TRUE]]
    BY <2>2
  <2> QED
    BY <1>11, <2>1, <2>2 DEF ProofError
<1>12. ASSUME NEW w \in Workers, Crash(w)
      PROVE  WorkTypes'
  BY <1>12 DEF Crash
<1>13. ASSUME NEW w \in Workers, Expire(w)
      PROVE  WorkTypes'
  BY <1>13 DEF Expire
<1>14. ASSUME StartPracticeSession \/ SubmitPracticeAnswer
      PROVE  WorkTypes'
  BY <1>14 DEF StartPracticeSession, SubmitPracticeAnswer
<1>15. ASSUME NEW k \in Artifacts, ExpirePrivate(k) \/ ExpiryFails(k)
      PROVE  WorkTypes'
  BY <1>15 DEF ExpirePrivate, ExpiryFails, Shredded, Cascade
<1>16. ASSUME Sweep
      PROVE  WorkTypes'
  BY <1>16 DEF Sweep
<1>17. ASSUME Depart \/ Return \/ ToggleAccess \/ AttemptAdvances \/ DeadlinePasses
      PROVE  WorkTypes'
  BY <1>17 DEF Depart, Return, ToggleAccess, AttemptAdvances, DeadlinePasses
<1>18. ASSUME UNCHANGED vars
      PROVE  WorkTypes'
  BY <1>18 DEF vars
<1> QED
  BY <1>1, <1>2, <1>3, <1>4, <1>5, <1>6, <1>7, <1>8, <1>9, <1>10, <1>11, <1>12,
      <1>13, <1>14, <1>15, <1>16, <1>17, <1>18
     DEF Next, ProofStep, LearningStep, FeedbackStep, Purposes

\* What a learning execution read of the frozen proof is still the plan when it
\* persists (loadFrozenProofContent, persistPrivateArtifact), because a plan is
\* frozen and its run is reserved behind it.
LEMMA ReadStep ==
  ASSUME HeadTypes, RunTypes, PrivateTypes, WorkTypes, LearningAvoidsProof,
         LearningFollowsProof, ReadsStillHold, [Next]_vars
  PROVE  LearningAvoidsProof' /\ LearningFollowsProof' /\ ReadsStillHold'
<1> USE SemanticNoneAssumption, SemanticBoundsAssumption
    DEF HeadTypes, RunTypes, PrivateTypes, WorkTypes, Execution, Purposes,
        Artifacts, LearningAvoidsProof, LearningFollowsProof, ReadsStillHold,
        Bound, Schedule, RecoverOrExpedite, Ended, Retried, Thrown, Leave, Finish, Goto,
            At, FrozenProof, AnalysisReady, Completed, ProofToSchedule,
            ScheduleRevision, Reservable, WaitsForProof, Take, ReplayMatches,
            IssueAttempt, Changing, Idle, headVars, proofVars, practiceVars, vars
<1>1. ASSUME Prepare
      PROVE  LearningAvoidsProof' /\ LearningFollowsProof' /\ ReadsStillHold'
  BY <1>1 DEF Prepare
<1>2. ASSUME NEW w \in Workers, NEW j \in Purposes, ReserveNothing(w, j)
      PROVE  LearningAvoidsProof' /\ LearningFollowsProof' /\ ReadsStillHold'
  BY <1>2 DEF ReserveNothing
<1>3. ASSUME NEW w \in Workers, NEW j \in Purposes, Reserve(w, j)
      PROVE  LearningAvoidsProof' /\ LearningFollowsProof' /\ ReadsStillHold'
  BY <1>3 DEF Reserve
<1>4. ASSUME NEW w \in Workers, ReplayProof(w)
      PROVE  LearningAvoidsProof' /\ LearningFollowsProof' /\ ReadsStillHold'
  BY <1>4 DEF ReplayProof
<1>5. ASSUME NEW w \in Workers, PersistProof(w)
      PROVE  LearningAvoidsProof' /\ LearningFollowsProof' /\ ReadsStillHold'
  BY <1>5 DEF PersistProof
<1>6. ASSUME NEW w \in Workers, FailProof(w)
      PROVE  LearningAvoidsProof' /\ LearningFollowsProof' /\ ReadsStillHold'
  BY <1>6 DEF FailProof
<1>7. ASSUME NEW w \in Workers, LoadLearning(w)
      PROVE  LearningAvoidsProof' /\ LearningFollowsProof' /\ ReadsStillHold'
  BY <1>7 DEF LoadLearning
<1>8. ASSUME NEW w \in Workers, PersistLearning(w)
      PROVE  LearningAvoidsProof' /\ LearningFollowsProof' /\ ReadsStillHold'
  BY <1>8 DEF PersistLearning, PersistPrivate, ReplayPrivate
<1>9. ASSUME NEW w \in Workers, LoadFeedback(w)
      PROVE  LearningAvoidsProof' /\ LearningFollowsProof' /\ ReadsStillHold'
  BY <1>9 DEF LoadFeedback
<1>10. ASSUME NEW w \in Workers, PersistFeedback(w)
      PROVE  LearningAvoidsProof' /\ LearningFollowsProof' /\ ReadsStillHold'
  BY <1>10 DEF PersistFeedback, PersistPrivate, ReplayPrivate
<1>11. ASSUME NEW w \in Workers, ProofError(w)
      PROVE  LearningAvoidsProof' /\ LearningFollowsProof' /\ ReadsStillHold'
  <2>1. UNCHANGED <<plan, attempt, runs, private, avoids>>
    BY <1>11 DEF ProofError
  <2>2. wk'[w].job = "proof" /\ wk'[w].at = "fail" /\ ~wk'[w].replay
    <3>1. CASE wk' = [wk EXCEPT ![w] = [Idle EXCEPT !.job = "proof", !.at = "fail",
                                                 !.leased = TRUE]]
      BY <3>1
    <3>2. CASE At(w, "proof", "generate") /\ ~wk[w].replay /\ Goto(w, "fail")
      <4>1. wk[w] \in Execution /\ wk'[w] = [wk[w] EXCEPT !.at = "fail"]
        BY <3>2
      <4>2. wk[w].job = "proof" /\ ~wk[w].replay
        BY <3>2
      <4> QED
        BY <4>1, <4>2
    <3> QED
      BY <1>11, <3>1, <3>2 DEF ProofError
  <2>3. \A v \in Workers \ {w} : wk'[v] = wk[v]
    BY <1>11 DEF ProofError
  <2> QED
    BY <2>1, <2>2, <2>3
<1>12. ASSUME NEW w \in Workers, Crash(w)
      PROVE  LearningAvoidsProof' /\ LearningFollowsProof' /\ ReadsStillHold'
  BY <1>12 DEF Crash
<1>13. ASSUME NEW w \in Workers, Expire(w)
      PROVE  LearningAvoidsProof' /\ LearningFollowsProof' /\ ReadsStillHold'
  BY <1>13 DEF Expire
<1>14. ASSUME StartPracticeSession \/ SubmitPracticeAnswer
      PROVE  LearningAvoidsProof' /\ LearningFollowsProof' /\ ReadsStillHold'
  BY <1>14 DEF StartPracticeSession, SubmitPracticeAnswer
<1>15. ASSUME NEW k \in Artifacts, ExpirePrivate(k) \/ ExpiryFails(k)
      PROVE  LearningAvoidsProof' /\ LearningFollowsProof' /\ ReadsStillHold'
  BY <1>15 DEF ExpirePrivate, ExpiryFails, Shredded, Cascade
<1>16. ASSUME Sweep
      PROVE  LearningAvoidsProof' /\ LearningFollowsProof' /\ ReadsStillHold'
  BY <1>16 DEF Sweep
<1>17. ASSUME Depart \/ Return \/ ToggleAccess \/ AttemptAdvances \/ DeadlinePasses
      PROVE  LearningAvoidsProof' /\ LearningFollowsProof' /\ ReadsStillHold'
  BY <1>17 DEF Depart, Return, ToggleAccess, AttemptAdvances, DeadlinePasses
<1>18. ASSUME UNCHANGED vars
      PROVE  LearningAvoidsProof' /\ LearningFollowsProof' /\ ReadsStillHold'
  BY <1>18 DEF vars
<1> QED
  BY <1>1, <1>2, <1>3, <1>4, <1>5, <1>6, <1>7, <1>8, <1>9, <1>10, <1>11, <1>12,
      <1>13, <1>14, <1>15, <1>16, <1>17, <1>18
     DEF Next, ProofStep, LearningStep, FeedbackStep, Purposes

\* A prepared revision starts in the invariant.
LEMMA InitGeneration == Init => GenerationIInv
<1> SUFFICES ASSUME Init PROVE GenerationIInv
  OBVIOUS
<1> USE SemanticNoneAssumption, SemanticBoundsAssumption DEF Init
<1>1. HeadTypes
  <2>1. changes \in 0..MaxChanges /\ faults \in 0..MaxFaults
    OBVIOUS
  <2> QED
    BY <2>1 DEF HeadTypes
<1>2. RunTypes /\ PrivateTypes
  BY DEF RunTypes, PrivateTypes, Purposes, Artifacts
<1>3. JobTypes
  BY DEF JobTypes
<1>4. WorkTypes
  BY DEF WorkTypes, Execution, Idle
<1>5. LearningAvoidsProof /\ LearningFollowsProof /\ ReadsStillHold
  BY DEF LearningAvoidsProof, LearningFollowsProof, ReadsStillHold, At, Idle,
      Purposes, Artifacts
<1> QED
  BY <1>1, <1>2, <1>3, <1>4, <1>5, TypeParts DEF GenerationIInv

\* The invariant of semantic generation is inductive.
LEMMA StepGeneration == GenerationIInv /\ [Next]_vars => GenerationIInv'
<1> SUFFICES ASSUME GenerationIInv, [Next]_vars PROVE GenerationIInv'
  OBVIOUS
<1>1. HeadTypes /\ RunTypes /\ PrivateTypes /\ JobTypes /\ WorkTypes
  BY TypeParts DEF GenerationIInv
<1>2. (HeadTypes /\ RunTypes /\ PrivateTypes /\ JobTypes /\ WorkTypes)'
  BY <1>1, HeadStep, RunStep, PrivateStep, JobStep, WorkStep DEF GenerationIInv
<1>3. TypeOK'
  BY <1>2 DEF TypeOK, HeadTypes, RunTypes, PrivateTypes, JobTypes, WorkTypes, Execution
<1> QED
  BY <1>1, <1>3, ReadStep DEF GenerationIInv

\* Learning material was validated against the questions of the proof that is
\* served, for any number of executions, contents, changes and faults
\* (semantic-generation-repository.ts persistLearning).
THEOREM GenerationInvariant == Spec => []GenerationInv
<1>1. GenerationIInv => GenerationInv
  BY DEF GenerationIInv, GenerationInv
<1> QED
  BY <1>1, InitGeneration, StepGeneration, PTL DEF Spec

\* What was issued stays issued: neither its questions nor its check change through
\* a late, retried or overlapping execution (assertProofReplay,
\* failProofPreparation).
THEOREM IssuedProofFinal == Spec => IssuedProofIsFinal
<1> DEFINE PlanKept == plan # None => plan' = plan
           IssueKept == attempt # "none" /\ intent # "failed" => intent' # "failed"
<1>1. GenerationIInv /\ [Next]_vars => [PlanKept]_vars /\ [IssueKept]_vars
  <2> SUFFICES ASSUME GenerationIInv, Next PROVE PlanKept /\ IssueKept
    OBVIOUS
  <2> USE DEF headVars, proofVars, practiceVars
  <2>1. ASSUME NEW w \in Workers, PersistProof(w) PROVE PlanKept /\ IssueKept
    BY <2>1 DEF PersistProof, IssueAttempt, ReplayMatches, AnalysisReady
  <2>2. ASSUME NEW w \in Workers, FailProof(w) PROVE PlanKept /\ IssueKept
    BY <2>2 DEF FailProof
  <2>3. CASE Prepare
    BY <2>3 DEF Prepare, AnalysisReady
  <2>4. CASE AttemptAdvances \/ Return
    BY <2>4 DEF AttemptAdvances, Return
  <2> QED
    BY <2>1, <2>2, <2>3, <2>4
       DEF Next, ProofStep, LearningStep, FeedbackStep, ReserveNothing, Reserve,
           ReplayProof,
           LoadLearning, PersistLearning, LoadFeedback, PersistFeedback,
               ProofError, Crash,
           Expire, StartPracticeSession, SubmitPracticeAnswer, ExpirePrivate,
               ExpiryFails,
           Sweep, Depart, ToggleAccess, DeadlinePasses
<1> QED
  BY <1>1, InitGeneration, StepGeneration, PTL
     DEF Spec, IssuedProofIsFinal, FrozenPlanIsFinal, FailureSparesIssuedProof

-----------------------------------------------------------------------------
(* The bounding of a pull request: the inductive invariant.                *)

\* The variables, except that budgets are not yet upper bounds.
BoundTypes ==
  /\ source \in Sources
  /\ phase \in {"start", "selecting", "fitting", "accepted", "refused"}
  /\ file \in Nat \ {0} /\ hunk \in Nat \ {0}
  /\ {title, body, remaining, fileBytes, patchBytes} \subseteq Nat
  /\ kept \in Seq(Seq(HunkRow))
  /\ exclusions \in Seq(Nat) /\ Len(exclusions) = Len(source.files)
  /\ hits \subseteq Bounding!Hits /\ context.hits \subseteq Bounding!Hits

\* How far the loop is, and what it has kept so far.
Progress ==
  /\ file <= Bounding!Selected + 1 /\ Len(kept) = file - 1
  /\ phase = "start" => file = 1 /\ hunk = 1
  /\ phase \in {"fitting", "accepted", "refused"} => file = Bounding!Selected + 1
  /\ file > Bounding!Selected => hunk = 1
  /\ file <= Bounding!Selected =>
       /\ hunk <= Len(source.files[file].hunks) + 1
       /\ source.files[file].kind # "text" => hunk = 1

\* The hunks taken of the file under way.
Taken == IF hunk = 1 THEN <<>> ELSE SubSeq(source.files[file].hunks, 1, hunk - 1)

\* The counters say what was taken, and the budgets hold.
Counted ==
  /\ fileBytes = Bounding!Bytes(Taken) /\ fileBytes <= MaxFile
  /\ patchBytes = Bounding!BytesOf(kept) + fileBytes
  /\ title + body + patchBytes + remaining <= MaxTotal
  /\ Bounding!HunksOf(kept) + hunk - 1 <= MaxHunks
  /\ \A f \in 1 .. Len(kept) : Bounding!Bytes(kept[f]) <= MaxFile

\* Whatever is left out is listed or marked when it is left out.
Told ==
  phase # "start" =>
    /\ \A f \in 1 .. Len(source.files) :
         f <= Len(kept) \/ f > MaxFiles => Bounding!Complete(f) \/ exclusions[f] > 0
    /\ title < source.title => "title_bytes" \in hits
    /\ body < source.body => "body_bytes" \in hits

\* What every step of the bounding keeps.
ContextIInv ==
  /\ BoundTypes
  /\ Progress
  /\ Counted
  /\ Told
  /\ Bounding!PatchHasNoGap
  /\ Bounding!BoundingRefusesNothing
  /\ Bounding!NothingVanishesSilently
  /\ Bounding!AnalysisIsComplete

-----------------------------------------------------------------------------
(* Numbers and sequences, by induction.                                    *)

\* A nonempty set of natural numbers has a least one.
LEMMA LeastNumber ==
    ASSUME NEW T, T \subseteq Nat, T # {}
    PROVE  \E x \in T : \A y \in T : x <= y
<1> DEFINE R == {s \in Nat \X Nat : s[1] < s[2]}
<1>1. IsWellFoundedOn(R, Nat)
  BY NatLessThanWellFounded, Zenon DEF OpToRel
<1>2. PICK x \in T : \A y \in T : ~(<<y, x>> \in R)
  <2> HIDE DEF R
  <2> QED
    BY <1>1, WFMin
<1>3. ASSUME NEW y \in T PROVE x <= y
  <2>1. ~(y < x)
    BY <1>2
  <2> QED
    BY <2>1
<1> QED
  BY <1>3

\* A nonempty set of natural numbers below a bound has a greatest one: the
\* least of its upper bounds.
LEMMA GreatestNumber ==
    ASSUME NEW n \in Nat, NEW T, T \subseteq 0 .. n, T # {}
    PROVE  \E x \in T : \A y \in T : x >= y
<1> DEFINE U == {u \in Nat : \A y \in T : y <= u}
<1>1. n \in U
  OBVIOUS
<1>2. PICK u \in U : \A v \in U : u <= v
  <2>1. U \subseteq Nat /\ U # {}
    BY <1>1
  <2> HIDE DEF U
  <2> QED
    BY <2>1, LeastNumber
<1>3. u \in T
  <2> SUFFICES ASSUME u \notin T PROVE FALSE
    OBVIOUS
  <2>1. \A y \in T : y \in Nat /\ y < u
    BY <1>2
  <2>2. u - 1 \in Nat
    <3>1. PICK y \in T : TRUE
      OBVIOUS
    <3>2. y \in Nat /\ y < u /\ u \in Nat
      BY <2>1
    <3> QED
      BY <3>2
  <2>3. \A y \in T : y <= u - 1
    BY <2>1
  <2>4. u - 1 \in U
    BY <2>2, <2>3
  <2> QED
    BY <1>2, <2>4
<1> QED
  BY <1>2, <1>3

\* A set with 0 and the successor of each of its members has all numbers.
LEMMA Induction ==
    ASSUME NEW S \in SUBSET Nat, 0 \in S, \A n \in S : n + 1 \in S
    PROVE  S = Nat
<1> SUFFICES ASSUME Nat \ S # {} PROVE FALSE
  OBVIOUS
<1>1. PICK x \in Nat \ S : \A y \in Nat \ S : x <= y
  BY LeastNumber
<1>2. x - 1 \in Nat /\ x - 1 \notin Nat \ S
  BY <1>1
<1>3. (x - 1) + 1 \in S
  BY <1>2
<1> QED
  BY <1>1, <1>3

\* A set with the empty sequence, and with every extension of its members by
\* one element, has every sequence.
LEMMA SeqInduction ==
    ASSUME NEW E, NEW P \in SUBSET Seq(E), <<>> \in P,
           \A s \in P, e \in E : Append(s, e) \in P
    PROVE  P = Seq(E)
<1> DEFINE S == {n \in Nat : \A s \in Seq(E) : Len(s) = n => s \in P}
<1>1. 0 \in S
  BY EmptySeq
<1>2. \A n \in S : n + 1 \in S
  <2> TAKE n \in S
  <2>1. ASSUME NEW s \in Seq(E), Len(s) = n + 1 PROVE s \in P
    <3>1. s # <<>>
      BY <2>1, EmptySeq
    <3>2. PICK t \in Seq(E), e \in E : s = Append(t, e)
      BY <3>1, SequenceEmptyOrAppend
    <3>3. Len(t) = n
      BY <2>1, <3>2, AppendProperties, LenProperties
    <3> QED
      BY <3>2, <3>3
  <2> QED
    BY <2>1
<1>3. S = Nat
  <2>1. S \in SUBSET Nat
    OBVIOUS
  <2> HIDE DEF S
  <2> QED
    BY <1>1, <1>2, <2>1, Induction
<1> QED
  BY <1>3, LenProperties

-----------------------------------------------------------------------------
(* Sums.                                                                   *)

\* The recursion of Total.
Sums(s, f) == f = [n \in 0 .. Len(s) |-> IF n = 0 THEN 0 ELSE f[n - 1] + s[n]]

\* Whatever satisfies the recursion is what Total computes.
LEMMA TotalUnique ==
    ASSUME NEW s, Len(s) \in Nat, NEW f, Sums(s, f)
    PROVE  Bounding!Total(s) = f[Len(s)]
<1> DEFINE Sm(g) == g = [n \in 0 .. Len(s) |-> IF n = 0 THEN 0 ELSE g[n - 1] + s[n]]
           g == CHOOSE h : Sm(h)
<1>1. Bounding!Total(s) = g[Len(s)]
  BY DEF Bounding!Total
<1>2. Sm(g)
  BY DEF Sums
<1> HIDE DEF g
<1> DEFINE S == {k \in Nat : k <= Len(s) => g[k] = f[k]}
<1>3. 0 \in S
  BY <1>2 DEF Sums
<1>4. \A k \in S : k + 1 \in S
  <2> SUFFICES ASSUME NEW k \in S, k + 1 <= Len(s) PROVE g[k + 1] = f[k + 1]
    OBVIOUS
  <2>1. k + 1 \in 0 .. Len(s) /\ k + 1 # 0 /\ (k + 1) - 1 = k /\ g[k] = f[k]
    OBVIOUS
  <2>2. g[k + 1] = g[k] + s[k + 1]
    BY <1>2, <2>1
  <2>3. f[k + 1] = f[k] + s[k + 1]
    BY <2>1 DEF Sums
  <2> QED
    BY <2>1, <2>2, <2>3
<1>5. S = Nat
  <2>1. S \in SUBSET Nat
    OBVIOUS
  <2> HIDE DEF S
  <2> QED
    BY <1>3, <1>4, <2>1, Induction
<1> QED
  BY <1>1, <1>5

\* One summand more continues the recursion.
LEMMA SumsAppend ==
    ASSUME NEW s \in Seq(Nat), NEW e \in Nat, NEW f \in [0 .. Len(s) -> Nat], Sums(s, f)
    PROVE  \E g \in [0 .. Len(Append(s, e)) -> Nat] :
              Sums(Append(s, e), g) /\ g[Len(s) + 1] = f[Len(s)] + e
<1> DEFINE t == Append(s, e)
           n == Len(s)
           g == [k \in 0 .. n + 1 |-> IF k <= n THEN f[k] ELSE f[n] + e]
<1>1. n \in Nat /\ Len(t) = n + 1 /\ t[n + 1] = e /\ \A i \in 1 .. n : t[i] = s[i]
  BY AppendProperties, LenProperties
<1> HIDE DEF t, n
<1>2. f \in [0 .. n -> Nat]
      /\ \A k \in 0 .. n : f[k] = IF k = 0 THEN 0 ELSE f[k - 1] + s[k]
  BY DEF Sums, n
<1>3. g \in [0 .. n + 1 -> Nat]
  BY <1>1, <1>2
<1>4. ASSUME NEW k \in 0 .. n + 1
      PROVE  g[k] = IF k = 0 THEN 0 ELSE g[k - 1] + t[k]
  <2>1. CASE k = 0
    BY <1>1, <1>2, <2>1
  <2>2. CASE k \in 1 .. n
    <3>1. k \in 0 .. n /\ k # 0 /\ k - 1 \in 0 .. n /\ k <= n /\ k - 1 <= n
          /\ k - 1 \in 0 .. n + 1
      BY <1>1, <2>2
    <3>2. g[k] = f[k] /\ g[k - 1] = f[k - 1] /\ t[k] = s[k]
      BY <1>1, <2>2, <3>1
    <3>3. f[k] = f[k - 1] + s[k]
      BY <1>2, <3>1
    <3> QED
      BY <3>1, <3>2, <3>3
  <2>3. CASE k = n + 1
    <3>1. k # 0 /\ k - 1 = n /\ n \in 0 .. n + 1 /\ ~(k <= n)
      BY <1>1, <2>3
    <3>2. g[k] = f[n] + e /\ g[n] = f[n] /\ t[k] = e
      BY <1>1, <2>3, <3>1
    <3> QED
      BY <3>1, <3>2
  <2> QED
    BY <1>1, <2>1, <2>2, <2>3
<1>5. g = [k \in 0 .. Len(t) |-> IF k = 0 THEN 0 ELSE g[k - 1] + t[k]]
  BY <1>1, <1>4
<1>6. g[n + 1] = f[n] + e
  BY <1>1
<1> HIDE DEF g
<1>7. Sums(t, g)
  BY <1>5 DEF Sums
<1> QED
  BY <1>1, <1>3, <1>6, <1>7 DEF t, n

\* Something satisfies the recursion, whatever the summands.
LEMMA SumsExists ==
    ASSUME NEW s \in Seq(Nat)
    PROVE  \E f \in [0 .. Len(s) -> Nat] : Sums(s, f)
<1> DEFINE P == {u \in Seq(Nat) : \E f \in [0 .. Len(u) -> Nat] : Sums(u, f)}
<1>1. <<>> \in P
  <2> DEFINE f == [n \in 0 .. 0 |-> 0]
  <2>1. <<>> \in Seq(Nat) /\ Len(<<>>) = 0
    BY EmptySeq
  <2>2. f \in [0 .. 0 -> Nat]
    OBVIOUS
  <2>3. \A n \in 0 .. 0 : n = 0
    OBVIOUS
  <2>4. f = [n \in 0 .. 0 |-> IF n = 0 THEN 0 ELSE f[n - 1] + <<>>[n]]
    BY <2>3
  <2> HIDE DEF f
  <2> QED
    BY <2>1, <2>2, <2>4 DEF Sums
<1>2. \A u \in P, e \in Nat : Append(u, e) \in P
  <2> TAKE u \in P, e \in Nat
  <2>1. PICK f \in [0 .. Len(u) -> Nat] : Sums(u, f)
    OBVIOUS
  <2>2. u \in Seq(Nat)
    OBVIOUS
  <2>3. Append(u, e) \in Seq(Nat)
    BY <2>2, AppendProperties
  <2>4. \E g \in [0 .. Len(Append(u, e)) -> Nat] : Sums(Append(u, e), g)
    BY <2>1, <2>2, SumsAppend
  <2> QED
    BY <2>3, <2>4
<1>3. P = Seq(Nat)
  <2>1. P \in SUBSET Seq(Nat)
    OBVIOUS
  <2> HIDE DEF P
  <2> QED
    BY <1>1, <1>2, <2>1, SeqInduction
<1> QED
  BY <1>3

\* What Total computes: nothing for no summand, and one summand more is added.
LEMMA TotalSteps ==
    /\ Bounding!Total(<<>>) = 0
    /\ \A s \in Seq(Nat) : Bounding!Total(s) \in Nat
    /\ \A s \in Seq(Nat), e \in Nat :
          Bounding!Total(Append(s, e)) = Bounding!Total(s) + e
<1>1. ASSUME NEW s \in Seq(Nat), NEW f \in [0 .. Len(s) -> Nat], Sums(s, f)
      PROVE  Bounding!Total(s) = f[Len(s)] /\ f[Len(s)] \in Nat
  BY <1>1, TotalUnique, LenProperties
<1>2. Bounding!Total(<<>>) = 0
  <2>1. <<>> \in Seq(Nat) /\ Len(<<>>) = 0
    BY EmptySeq
  <2>2. PICK f \in [0 .. Len(<<>>) -> Nat] : Sums(<<>>, f)
    BY <2>1, SumsExists
  <2>3. f[0] = 0
    BY <2>1, <2>2 DEF Sums
  <2> QED
    BY <1>1, <2>1, <2>2, <2>3
<1>3. ASSUME NEW s \in Seq(Nat) PROVE Bounding!Total(s) \in Nat
  BY <1>1, SumsExists
<1>4. ASSUME NEW s \in Seq(Nat), NEW e \in Nat
      PROVE  Bounding!Total(Append(s, e)) = Bounding!Total(s) + e
  <2>1. PICK f \in [0 .. Len(s) -> Nat] : Sums(s, f)
    BY SumsExists
  <2>2. PICK g \in [0 .. Len(Append(s, e)) -> Nat] :
           Sums(Append(s, e), g) /\ g[Len(s) + 1] = f[Len(s)] + e
    BY <2>1, SumsAppend
  <2>3. Append(s, e) \in Seq(Nat) /\ Len(Append(s, e)) = Len(s) + 1
    BY AppendProperties
  <2> QED
    BY <1>1, <2>1, <2>2, <2>3
<1> QED
  BY <1>2, <1>3, <1>4

\* A sum grows with its summands, and equal sums of such have equal summands.
LEMMA TotalMonotone ==
    ASSUME NEW s \in Seq(Nat), NEW t \in Seq(Nat), Len(s) = Len(t),
           \A i \in 1 .. Len(t) : s[i] <= t[i]
    PROVE  /\ Bounding!Total(s) <= Bounding!Total(t)
           /\ Bounding!Total(s) = Bounding!Total(t) => s = t
<1> DEFINE Below(u, v) == Len(u) = Len(v) /\ \A i \in 1 .. Len(v) : u[i] <= v[i]
           Grows(u, v) == /\ Bounding!Total(u) <= Bounding!Total(v)
                          /\ Bounding!Total(u) = Bounding!Total(v) => u = v
           P == {v \in Seq(Nat) : \A u \in Seq(Nat) : Below(u, v) => Grows(u, v)}
<1>1. <<>> \in P
  <2>1. <<>> \in Seq(Nat) /\ Len(<<>>) = 0 /\ \A u \in Seq(Nat) : Len(u) = 0 => u = <<>>
    BY EmptySeq
  <2>2. Bounding!Total(<<>>) \in Nat
    BY <2>1, TotalSteps
  <2> HIDE DEF Below
  <2>3. Grows(<<>>, <<>>)
    BY <2>2
  <2>4. \A u \in Seq(Nat) : Below(u, <<>>) => u = <<>>
    BY <2>1 DEF Below
  <2> QED
    BY <2>1, <2>3, <2>4
<1>2. \A v \in P, e \in Nat : Append(v, e) \in P
  <2> TAKE v \in P, e \in Nat
  <2>1. v \in Seq(Nat) /\ \A u \in Seq(Nat) : Below(u, v) => Grows(u, v)
    OBVIOUS
  <2>2. /\ Append(v, e) \in Seq(Nat) /\ Len(Append(v, e)) = Len(v) + 1
        /\ \A i \in 1 .. Len(v) : Append(v, e)[i] = v[i]
        /\ Append(v, e)[Len(v) + 1] = e /\ Len(v) \in Nat
    BY <2>1, AppendProperties, LenProperties
  <2>3. ASSUME NEW u \in Seq(Nat), Below(u, Append(v, e))
        PROVE  Grows(u, Append(v, e))
    <3>1. u # <<>>
      BY <2>2, <2>3, EmptySeq
    <3>2. PICK w \in Seq(Nat), d \in Nat : u = Append(w, d)
      BY <3>1, SequenceEmptyOrAppend
    <3>3. /\ Len(u) = Len(w) + 1 /\ Len(w) \in Nat /\ u[Len(w) + 1] = d
          /\ \A i \in 1 .. Len(w) : u[i] = w[i]
      BY <3>2, AppendProperties, LenProperties
    <3>4. Len(w) = Len(v)
      BY <2>2, <2>3, <3>3
    <3>5. d <= e
      <4>1. Len(v) + 1 \in 1 .. Len(Append(v, e))
        BY <2>2
      <4> QED
        BY <2>2, <2>3, <3>3, <3>4, <4>1
    <3>6. Below(w, v)
      <4>1. ASSUME NEW i \in 1 .. Len(v) PROVE w[i] <= v[i]
        <5>1. i \in 1 .. Len(Append(v, e)) /\ i \in 1 .. Len(w)
          BY <2>2, <3>4
        <5> QED
          BY <2>2, <2>3, <3>3, <5>1
      <4> QED
        BY <3>4, <4>1
    <3>7. Grows(w, v)
      BY <2>1, <3>6
    <3>8. /\ Bounding!Total(u) = Bounding!Total(w) + d
          /\ Bounding!Total(Append(v, e)) = Bounding!Total(v) + e
          /\ Bounding!Total(w) \in Nat /\ Bounding!Total(v) \in Nat
      BY <2>1, <3>2, TotalSteps
    <3>9. Bounding!Total(u) <= Bounding!Total(Append(v, e))
      BY <3>5, <3>7, <3>8
    <3>10. Bounding!Total(u) = Bounding!Total(Append(v, e)) =>
              Bounding!Total(w) = Bounding!Total(v) /\ d = e
      BY <3>5, <3>7, <3>8
    <3> HIDE DEF Below
    <3> QED
      BY <3>2, <3>7, <3>9, <3>10
  <2> HIDE DEF Below, Grows
  <2> QED
    BY <2>2, <2>3
<1>3. P = Seq(Nat)
  <2>1. P \in SUBSET Seq(Nat)
    OBVIOUS
  <2> HIDE DEF P
  <2> QED
    BY <1>1, <1>2, <2>1, SeqInduction
<1>4. Below(s, t)
  OBVIOUS
<1> HIDE DEF Below
<1> QED
  BY <1>3, <1>4

\* The sum of zeros is zero.
LEMMA TotalZero ==
    ASSUME NEW s \in Seq(Nat), \A i \in 1 .. Len(s) : s[i] = 0
    PROVE  Bounding!Total(s) = 0
<1> DEFINE P == {u \in Seq(Nat) :
                   (\A i \in 1 .. Len(u) : u[i] = 0) => Bounding!Total(u) = 0}
<1>1. <<>> \in P
  BY EmptySeq, TotalSteps
<1>2. \A u \in P, e \in Nat : Append(u, e) \in P
  <2> TAKE u \in P, e \in Nat
  <2>1. u \in Seq(Nat)
    OBVIOUS
  <2>2. /\ Append(u, e) \in Seq(Nat) /\ Len(Append(u, e)) = Len(u) + 1
        /\ \A i \in 1 .. Len(u) : Append(u, e)[i] = u[i]
        /\ Append(u, e)[Len(u) + 1] = e /\ Len(u) \in Nat
    BY <2>1, AppendProperties, LenProperties
  <2>3. ASSUME \A i \in 1 .. Len(Append(u, e)) : Append(u, e)[i] = 0
        PROVE  Bounding!Total(Append(u, e)) = 0
    <3>1. \A i \in 1 .. Len(u) : i \in 1 .. Len(Append(u, e))
      BY <2>2
    <3>2. \A i \in 1 .. Len(u) : u[i] = 0
      BY <2>2, <2>3, <3>1
    <3>3. e = 0
      BY <2>2, <2>3
    <3>4. Bounding!Total(u) = 0
      BY <3>2
    <3> QED
      BY <2>1, <3>3, <3>4, TotalSteps
  <2> QED
    BY <2>2, <2>3
<1>3. P = Seq(Nat)
  <2>1. P \in SUBSET Seq(Nat)
    OBVIOUS
  <2> HIDE DEF P
  <2> QED
    BY <1>1, <1>2, <2>1, SeqInduction
<1> QED
  BY <1>3

-----------------------------------------------------------------------------
(* Hunks and files.                                                        *)

\* A sequence built from another one of the same length.
LEMMA BuiltSeq ==
    ASSUME NEW S, NEW X, NEW s \in Seq(S), NEW t \in [DOMAIN s -> X]
    PROVE  t \in Seq(X) /\ Len(t) = Len(s)
BY LenProperties

\* The bytes of a list of hunks, one hunk after the other.
LEMMA BytesSteps ==
    /\ Bounding!Bytes(<<>>) = 0
    /\ \A hs \in Seq(HunkRow) : Bounding!Bytes(hs) \in Nat
    /\ \A hs \in Seq(HunkRow) : hs # <<>> => Bounding!Bytes(hs) > 0
    /\ \A hs \in Seq(HunkRow), h \in HunkRow :
          Bounding!Bytes(Append(hs, h))
            = Bounding!Bytes(hs) + h.bytes + (IF hs = <<>> THEN 0 ELSE 1)
<1> DEFINE B(hs) == [h \in DOMAIN hs |-> hs[h].bytes]
<1>1. ASSUME NEW hs \in Seq(HunkRow)
      PROVE  B(hs) \in Seq(Nat) /\ Len(B(hs)) = Len(hs)
  <2>1. B(hs) \in [DOMAIN hs -> Nat]
    <3>1. \A h \in DOMAIN hs : hs[h] \in HunkRow
      BY LenProperties, ElementOfSeq
    <3> QED
      BY <3>1 DEF HunkRow
  <2> QED
    BY <2>1, BuiltSeq
<1>2. ASSUME NEW hs \in Seq(HunkRow), NEW h \in HunkRow
      PROVE  Bounding!Total(B(Append(hs, h))) = Bounding!Total(B(hs)) + h.bytes
  <2>1. /\ Append(hs, h) \in Seq(HunkRow) /\ Len(Append(hs, h)) = Len(hs) + 1
        /\ \A i \in 1 .. Len(hs) : Append(hs, h)[i] = hs[i]
        /\ Append(hs, h)[Len(hs) + 1] = h /\ Len(hs) \in Nat
    BY AppendProperties, LenProperties
  <2>2. B(hs) \in Seq(Nat) /\ Len(B(hs)) = Len(hs) /\ h.bytes \in Nat
    BY <1>1 DEF HunkRow
  <2>3. B(Append(hs, h)) \in Seq(Nat) /\ Len(B(Append(hs, h))) = Len(hs) + 1
    BY <1>1, <2>1
  <2>4. /\ Append(B(hs), h.bytes) \in Seq(Nat)
        /\ Len(Append(B(hs), h.bytes)) = Len(hs) + 1
        /\ \A i \in 1 .. Len(hs) : Append(B(hs), h.bytes)[i] = B(hs)[i]
        /\ Append(B(hs), h.bytes)[Len(hs) + 1] = h.bytes
    <3> HIDE DEF B
    <3> QED
      BY <2>2, AppendProperties
  <2>5. DOMAIN hs = 1 .. Len(hs) /\ DOMAIN Append(hs, h) = 1 .. Len(hs) + 1
    BY <2>1, LenProperties
  <2>6. \A i \in 1 .. Len(hs) + 1 : B(Append(hs, h))[i] = Append(B(hs), h.bytes)[i]
    <3> TAKE i \in 1 .. Len(hs) + 1
    <3>1. B(Append(hs, h))[i] = Append(hs, h)[i].bytes
      BY <2>5
    <3>2. CASE i \in 1 .. Len(hs)
      BY <2>1, <2>4, <2>5, <3>1, <3>2
    <3>3. CASE i = Len(hs) + 1
      BY <2>1, <2>4, <3>1, <3>3
    <3> QED
      BY <2>1, <3>2, <3>3
  <2>7. B(Append(hs, h)) = Append(B(hs), h.bytes)
    <3> HIDE DEF B
    <3> QED
      BY <2>3, <2>4, <2>6, SeqEqual
  <2> HIDE DEF B
  <2> QED
    BY <2>2, <2>7, TotalSteps
<1>3. Bounding!Bytes(<<>>) = 0
  BY DEF Bounding!Bytes
<1>4. ASSUME NEW hs \in Seq(HunkRow)
      PROVE  /\ Bounding!Bytes(hs) \in Nat
             /\ hs # <<>> => Bounding!Bytes(hs) > 0
             /\ hs # <<>> => Bounding!Bytes(hs) = Bounding!Total(B(hs)) + Len(hs) - 1
  <2>1. CASE hs = <<>>
    BY <1>3, <2>1
  <2>2. CASE hs # <<>>
    <3>1. PICK gs \in Seq(HunkRow), g \in HunkRow : hs = Append(gs, g)
      BY <2>2, SequenceEmptyOrAppend
    <3>2. Bounding!Total(B(hs)) = Bounding!Total(B(gs)) + g.bytes
      BY <1>2, <3>1
    <3>3. Bounding!Total(B(gs)) \in Nat /\ g.bytes \in Nat \ {0} /\ Len(hs) \in Nat \ {0}
      <4>1. B(gs) \in Seq(Nat)
        BY <1>1
      <4>2. g.bytes \in Nat \ {0} /\ Len(hs) \in Nat \ {0}
        BY <2>2, EmptySeq DEF HunkRow
      <4> HIDE DEF B
      <4> QED
        BY <4>1, <4>2, TotalSteps
    <3>4. Bounding!Bytes(hs) = Bounding!Total(B(hs)) + Len(hs) - 1
      BY <2>2 DEF Bounding!Bytes
    <3> HIDE DEF B
    <3> QED
      BY <2>2, <3>2, <3>3, <3>4
  <2> QED
    BY <2>1, <2>2
<1>5. ASSUME NEW hs \in Seq(HunkRow), NEW h \in HunkRow
      PROVE  Bounding!Bytes(Append(hs, h))
               = Bounding!Bytes(hs) + h.bytes + (IF hs = <<>> THEN 0 ELSE 1)
  <2>1. /\ Append(hs, h) \in Seq(HunkRow) /\ Append(hs, h) # <<>>
        /\ Len(Append(hs, h)) = Len(hs) + 1 /\ Len(hs) \in Nat
    BY AppendProperties, LenProperties
  <2>2. Bounding!Bytes(Append(hs, h)) = Bounding!Total(B(hs)) + h.bytes + Len(hs)
    <3>1. Bounding!Total(B(Append(hs, h))) = Bounding!Total(B(hs)) + h.bytes
      BY <1>2
    <3>2. Bounding!Total(B(hs)) \in Nat /\ h.bytes \in Nat
      <4>1. B(hs) \in Seq(Nat)
        BY <1>1
      <4>2. h.bytes \in Nat
        BY DEF HunkRow
      <4> HIDE DEF B
      <4> QED
        BY <4>1, <4>2, TotalSteps
    <3>3. Bounding!Bytes(Append(hs, h))
            = Bounding!Total(B(Append(hs, h))) + Len(Append(hs, h)) - 1
      BY <1>4, <2>1
    <3> HIDE DEF B
    <3> QED
      BY <2>1, <3>1, <3>2, <3>3
  <2>3. CASE hs = <<>>
    <3>1. B(hs) = <<>>
      BY <1>1, <2>3, EmptySeq
    <3>2. Bounding!Total(B(hs)) = 0
      BY <3>1, TotalSteps
    <3>3. Len(hs) = 0 /\ h.bytes \in Nat
      BY <2>3 DEF HunkRow
    <3> HIDE DEF B
    <3> QED
      BY <1>3, <2>2, <2>3, <3>2, <3>3
  <2>4. CASE hs # <<>>
    <3>1. Bounding!Bytes(hs) = Bounding!Total(B(hs)) + Len(hs) - 1
      BY <1>4, <2>4
    <3>2. Bounding!Total(B(hs)) \in Nat /\ h.bytes \in Nat
      <4>1. B(hs) \in Seq(Nat)
        BY <1>1
      <4>2. h.bytes \in Nat
        BY DEF HunkRow
      <4> HIDE DEF B
      <4> QED
        BY <4>1, <4>2, TotalSteps
    <3> HIDE DEF B
    <3> QED
      BY <2>1, <2>2, <2>4, <3>1, <3>2
  <2> QED
    BY <2>3, <2>4
<1> HIDE DEF B
<1> QED
  BY <1>3, <1>4, <1>5

\* Without its last hunk a file has one hunk less and no more bytes.
LEMMA FrontShrinks ==
    ASSUME NEW hs \in Seq(HunkRow), hs # <<>>
    PROVE  LET front == SubSeq(hs, 1, Len(hs) - 1)
           IN /\ front \in Seq(HunkRow) /\ Len(front) = Len(hs) - 1
              /\ \A i \in 1 .. Len(front) : front[i] = hs[i]
              /\ Bounding!Bytes(front) <= Bounding!Bytes(hs)
<1> DEFINE front == SubSeq(hs, 1, Len(hs) - 1)
<1>1. Len(hs) \in Nat \ {0} /\ \A i \in 1 .. Len(hs) : hs[i] \in HunkRow
  BY EmptySeq, LenProperties
<1>2. /\ front \in Seq(HunkRow) /\ Len(front) = Len(hs) - 1
      /\ \A i \in 1 .. Len(front) : front[i] = hs[i]
  <2> DEFINE n == Len(hs) - 1
  <2>1. n \in Nat /\ n - 1 + 1 = n /\ \A i \in 1 .. n : hs[i] \in HunkRow /\ 1 + i - 1 = i
    BY <1>1
  <2>2. n \in Int /\ 1 \in Int /\ \A i \in 1 .. n : hs[i] \in HunkRow
    BY <2>1
  <2> HIDE DEF n
  <2>3. /\ SubSeq(hs, 1, n) \in Seq(HunkRow)
        /\ Len(SubSeq(hs, 1, n)) = IF 1 <= n THEN n - 1 + 1 ELSE 0
        /\ \A i \in 1 .. n - 1 + 1 : SubSeq(hs, 1, n)[i] = hs[1 + i - 1]
    BY <2>2, SubSeqProperties
  <2>4. Len(SubSeq(hs, 1, n)) = n
    BY <2>1, <2>3
  <2>5. \A i \in 1 .. n : SubSeq(hs, 1, n)[i] = hs[i]
    BY <2>1, <2>3
  <2> QED
    BY <2>3, <2>4, <2>5 DEF n
<1>3. PICK gs \in Seq(HunkRow), g \in HunkRow : hs = Append(gs, g)
  BY SequenceEmptyOrAppend
<1>4. Len(gs) = Len(hs) - 1 /\ \A i \in 1 .. Len(gs) : hs[i] = gs[i]
  BY <1>3, AppendProperties, LenProperties
<1> HIDE DEF front
<1>5. front = gs
  BY <1>2, <1>4, SeqEqual
<1>6. Bounding!Bytes(gs) <= Bounding!Bytes(hs)
  <2>1. g.bytes \in Nat /\ Bounding!Bytes(gs) \in Nat
    BY BytesSteps DEF HunkRow
  <2>2. Bounding!Bytes(hs) = Bounding!Bytes(gs) + g.bytes + (IF gs = <<>> THEN 0 ELSE 1)
    BY <1>3, BytesSteps
  <2> QED
    BY <2>1, <2>2
<1> QED
  BY <1>2, <1>5, <1>6 DEF front

\* The hunks and the bytes of the files, as sequences of numbers.
HunkCounts(files) == [f \in DOMAIN files |-> Len(files[f])]
ByteCounts(files) == [f \in DOMAIN files |-> Bounding!Bytes(files[f])]

\* They are such sequences.
LEMMA CountsType ==
    ASSUME NEW files \in Seq(Seq(HunkRow))
    PROVE  /\ HunkCounts(files) \in Seq(Nat) /\ Len(HunkCounts(files)) = Len(files)
           /\ ByteCounts(files) \in Seq(Nat) /\ Len(ByteCounts(files)) = Len(files)
           /\ DOMAIN files = 1 .. Len(files) /\ Len(files) \in Nat
           /\ \A f \in 1 .. Len(files) :
                /\ files[f] \in Seq(HunkRow)
                /\ HunkCounts(files)[f] = Len(files[f]) /\ Len(files[f]) \in Nat
                /\ ByteCounts(files)[f] = Bounding!Bytes(files[f])
                /\ Bounding!Bytes(files[f]) \in Nat
<1>1. DOMAIN files = 1 .. Len(files) /\ Len(files) \in Nat
  BY LenProperties
<1>2. \A f \in DOMAIN files : files[f] \in Seq(HunkRow)
  BY <1>1, ElementOfSeq
<1>3. \A f \in DOMAIN files : Len(files[f]) \in Nat /\ Bounding!Bytes(files[f]) \in Nat
  BY <1>2, BytesSteps, LenProperties
<1>4. HunkCounts(files) \in [DOMAIN files -> Nat] /\ ByteCounts(files) \in [DOMAIN files -> Nat]
  BY <1>3 DEF HunkCounts, ByteCounts
<1>5. /\ HunkCounts(files) \in Seq(Nat) /\ Len(HunkCounts(files)) = Len(files)
      /\ ByteCounts(files) \in Seq(Nat) /\ Len(ByteCounts(files)) = Len(files)
  BY <1>4, BuiltSeq
<1> QED
  BY <1>1, <1>2, <1>3, <1>5 DEF HunkCounts, ByteCounts

\* One file more adds its hunks and its bytes.
LEMMA FilesAppend ==
    ASSUME NEW files \in Seq(Seq(HunkRow)), NEW hs \in Seq(HunkRow)
    PROVE  /\ Bounding!HunksOf(files) \in Nat /\ Bounding!BytesOf(files) \in Nat
           /\ Bounding!HunksOf(Append(files, hs)) = Bounding!HunksOf(files) + Len(hs)
           /\ Bounding!BytesOf(Append(files, hs))
                = Bounding!BytesOf(files) + Bounding!Bytes(hs)
<1> DEFINE more == Append(files, hs)
<1>1. /\ more \in Seq(Seq(HunkRow)) /\ Len(more) = Len(files) + 1
      /\ \A i \in 1 .. Len(files) : more[i] = files[i]
      /\ more[Len(files) + 1] = hs /\ Len(files) \in Nat
  BY AppendProperties, LenProperties
<1> HIDE DEF more
<1>2. /\ Bounding!HunksOf(files) = Bounding!Total(HunkCounts(files))
      /\ Bounding!HunksOf(more) = Bounding!Total(HunkCounts(more))
      /\ Bounding!BytesOf(files) = Bounding!Total(ByteCounts(files))
      /\ Bounding!BytesOf(more) = Bounding!Total(ByteCounts(more))
  BY DEF Bounding!HunksOf, Bounding!BytesOf, HunkCounts, ByteCounts
<1>3. Len(hs) \in Nat /\ Bounding!Bytes(hs) \in Nat
  BY LenProperties, BytesSteps
<1>4. \A i \in 1 .. Len(files) + 1 : i \in 1 .. Len(files) \/ i = Len(files) + 1
  BY <1>1
<1>5. HunkCounts(more) = Append(HunkCounts(files), Len(hs))
  <2>1. /\ Append(HunkCounts(files), Len(hs)) \in Seq(Nat)
        /\ Len(Append(HunkCounts(files), Len(hs))) = Len(files) + 1
        /\ \A i \in 1 .. Len(files) :
             Append(HunkCounts(files), Len(hs))[i] = HunkCounts(files)[i]
        /\ Append(HunkCounts(files), Len(hs))[Len(files) + 1] = Len(hs)
    BY <1>3, CountsType, AppendProperties
  <2>2. \A i \in 1 .. Len(files) + 1 :
           HunkCounts(more)[i] = Append(HunkCounts(files), Len(hs))[i]
    <3> TAKE i \in 1 .. Len(files) + 1
    <3>1. HunkCounts(more)[i] = Len(more[i])
      BY <1>1, CountsType
    <3>2. CASE i \in 1 .. Len(files)
      <4>1. more[i] = files[i] /\ HunkCounts(files)[i] = Len(files[i])
        BY <1>1, <3>2, CountsType
      <4> QED
        BY <2>1, <3>1, <3>2, <4>1
    <3>3. CASE i = Len(files) + 1
      BY <1>1, <2>1, <3>1, <3>3
    <3> QED
      BY <1>4, <3>2, <3>3
  <2>3. HunkCounts(more) \in Seq(Nat) /\ Len(HunkCounts(more)) = Len(files) + 1
    BY <1>1, CountsType
  <2> QED
    BY <2>1, <2>2, <2>3, SeqEqual
<1>6. ByteCounts(more) = Append(ByteCounts(files), Bounding!Bytes(hs))
  <2>1. /\ Append(ByteCounts(files), Bounding!Bytes(hs)) \in Seq(Nat)
        /\ Len(Append(ByteCounts(files), Bounding!Bytes(hs))) = Len(files) + 1
        /\ \A i \in 1 .. Len(files) :
             Append(ByteCounts(files), Bounding!Bytes(hs))[i] = ByteCounts(files)[i]
        /\ Append(ByteCounts(files), Bounding!Bytes(hs))[Len(files) + 1]
             = Bounding!Bytes(hs)
    BY <1>3, CountsType, AppendProperties
  <2>2. \A i \in 1 .. Len(files) + 1 :
           ByteCounts(more)[i] = Append(ByteCounts(files), Bounding!Bytes(hs))[i]
    <3> TAKE i \in 1 .. Len(files) + 1
    <3>1. ByteCounts(more)[i] = Bounding!Bytes(more[i])
      BY <1>1, CountsType
    <3>2. CASE i \in 1 .. Len(files)
      <4>1. more[i] = files[i] /\ ByteCounts(files)[i] = Bounding!Bytes(files[i])
        BY <1>1, <3>2, CountsType
      <4> QED
        BY <2>1, <3>1, <3>2, <4>1
    <3>3. CASE i = Len(files) + 1
      BY <1>1, <2>1, <3>1, <3>3
    <3> QED
      BY <1>4, <3>2, <3>3
  <2>3. ByteCounts(more) \in Seq(Nat) /\ Len(ByteCounts(more)) = Len(files) + 1
    BY <1>1, CountsType
  <2> QED
    BY <2>1, <2>2, <2>3, SeqEqual
<1> QED
  BY <1>2, <1>3, <1>5, <1>6, CountsType, TotalSteps DEF more

\* A file that gives up hunks makes neither sum larger.
LEMMA FilesShrink ==
    ASSUME NEW files \in Seq(Seq(HunkRow)), NEW f \in 1 .. Len(files),
           NEW hs \in Seq(HunkRow), Len(hs) <= Len(files[f]),
           Bounding!Bytes(hs) <= Bounding!Bytes(files[f])
    PROVE  /\ Bounding!HunksOf([files EXCEPT ![f] = hs]) <= Bounding!HunksOf(files)
           /\ Bounding!BytesOf([files EXCEPT ![f] = hs]) <= Bounding!BytesOf(files)
<1> DEFINE less == [files EXCEPT ![f] = hs]
<1>1. /\ less \in Seq(Seq(HunkRow)) /\ Len(less) = Len(files)
      /\ \A i \in 1 .. Len(files) : less[i] = IF i = f THEN hs ELSE files[i]
  BY ExceptSeq
<1> HIDE DEF less
<1>2. /\ Bounding!HunksOf(files) = Bounding!Total(HunkCounts(files))
      /\ Bounding!HunksOf(less) = Bounding!Total(HunkCounts(less))
      /\ Bounding!BytesOf(files) = Bounding!Total(ByteCounts(files))
      /\ Bounding!BytesOf(less) = Bounding!Total(ByteCounts(less))
  BY DEF Bounding!HunksOf, Bounding!BytesOf, HunkCounts, ByteCounts
<1>3. \A i \in 1 .. Len(files) :
        /\ HunkCounts(less)[i] = Len(less[i]) /\ HunkCounts(files)[i] = Len(files[i])
        /\ ByteCounts(less)[i] = Bounding!Bytes(less[i])
        /\ ByteCounts(files)[i] = Bounding!Bytes(files[i])
        /\ Len(files[i]) \in Nat /\ Bounding!Bytes(files[i]) \in Nat
  BY <1>1, CountsType
<1>4. \A i \in 1 .. Len(files) :
        HunkCounts(less)[i] <= HunkCounts(files)[i] /\ ByteCounts(less)[i] <= ByteCounts(files)[i]
  <2> TAKE i \in 1 .. Len(files)
  <2>1. CASE i = f
    BY <1>1, <1>3, <2>1
  <2>2. CASE i # f
    <3>1. less[i] = files[i]
      BY <1>1, <2>2
    <3>2. HunkCounts(less)[i] = Len(files[i]) /\ ByteCounts(less)[i] = Bounding!Bytes(files[i])
      BY <1>3, <3>1
    <3> QED
      BY <1>3, <3>2
  <2> QED
    BY <2>1, <2>2
<1>5. /\ HunkCounts(less) \in Seq(Nat) /\ HunkCounts(files) \in Seq(Nat)
      /\ ByteCounts(less) \in Seq(Nat) /\ ByteCounts(files) \in Seq(Nat)
      /\ Len(HunkCounts(less)) = Len(files) /\ Len(HunkCounts(files)) = Len(files)
      /\ Len(ByteCounts(less)) = Len(files) /\ Len(ByteCounts(files)) = Len(files)
  BY <1>1, CountsType
<1>6. Bounding!Total(HunkCounts(less)) <= Bounding!Total(HunkCounts(files))
  BY <1>4, <1>5, TotalMonotone
<1>7. Bounding!Total(ByteCounts(less)) <= Bounding!Total(ByteCounts(files))
  BY <1>4, <1>5, TotalMonotone
<1> QED
  BY <1>2, <1>6, <1>7 DEF less

-----------------------------------------------------------------------------
(* The material and its trimming.                                          *)

\* The constants are numbers.
LEMMA Limits ==
    /\ MaxFiles \in Nat /\ MaxHunks \in Nat /\ MaxTotal \in Nat /\ MaxFile \in Nat
    /\ MaxTitle \in Nat /\ MaxBody \in Nat /\ MaxExclusions \in Nat /\ LineLimit \in Nat
    /\ Escape \in Nat /\ Frame \in Nat /\ FileCost \in Nat /\ AnchorCost \in Nat
    /\ ExclusionCost \in Nat /\ HitCost \in Nat /\ MaxTitle <= MaxTotal
BY LimitsAssumption

\* The instance counts as the library does.
LEMMA SameCount == \A S : Bounding!Cardinality(S) = Cardinality(S)
<1>1. \A S : Bounding!IsFiniteSet(S) <=> IsFiniteSet(S)
  BY DEF Bounding!IsFiniteSet, IsFiniteSet
<1> QED
  BY <1>1 DEF Bounding!Cardinality, Cardinality

\* A product of numbers is a number, and grows with its second factor.
LEMMA Products ==
    ASSUME NEW a \in Nat, NEW b \in Nat, NEW c \in Nat, b <= c
    PROVE  a * b \in Nat /\ a * b <= a * c
<1> DEFINE S == {d \in Nat : a * b <= a * (b + d)}
<1>1. 0 \in S
  OBVIOUS
<1>2. \A d \in S : d + 1 \in S
  <2> TAKE d \in S
  <2>1. a * (b + (d + 1)) = a * (b + d) + a
    OBVIOUS
  <2> QED
    BY <2>1
<1>3. S = Nat
  <2>1. S \in SUBSET Nat
    OBVIOUS
  <2> HIDE DEF S
  <2> QED
    BY <1>1, <1>2, <2>1, Induction
<1>4. c - b \in S /\ b + (c - b) = c
  BY <1>3
<1>5. a * b \in Nat
  OBVIOUS
<1> QED
  BY <1>4, <1>5

\* There are finitely many markers, and any set of them is counted.
LEMMA HitsCount ==
    ASSUME NEW hs \in SUBSET Bounding!Hits
    PROVE  /\ Bounding!Cardinality(hs) \in Nat
           /\ HitCost * Bounding!Cardinality(hs) \in Nat
           /\ Frame + HitCost * Bounding!Cardinality(hs) <= MaxTotal
<1>1. IsFiniteSet(Bounding!Hits)
  <2>1. ASSUME NEW S, NEW T, IsFiniteSet(S), IsFiniteSet(T) PROVE IsFiniteSet(S \cup T)
    BY <2>1, FS_Union
  <2>2. ASSUME NEW a, NEW b PROVE IsFiniteSet({a, b})
    <3>1. IsFiniteSet({a} \cup {b})
      BY <2>1, FS_Singleton
    <3>2. {a, b} = {a} \cup {b}
      OBVIOUS
    <3> QED
      BY <3>1, <3>2
  <2>3. /\ IsFiniteSet({"file_count", "hunk_count"}) /\ IsFiniteSet({"file_bytes", "total_bytes"})
        /\ IsFiniteSet({"title_bytes", "body_bytes"})
        /\ IsFiniteSet({"source_patch_unavailable"})
    BY <2>2, FS_Singleton
  <2>4. Bounding!Hits = ({"file_count", "hunk_count"} \cup {"file_bytes", "total_bytes"})
           \cup ({"title_bytes", "body_bytes"} \cup {"source_patch_unavailable"})
    BY DEF Bounding!Hits
  <2>5. /\ IsFiniteSet({"file_count", "hunk_count"} \cup {"file_bytes", "total_bytes"})
        /\ IsFiniteSet({"title_bytes", "body_bytes"} \cup {"source_patch_unavailable"})
    BY <2>1, <2>3
  <2> QED
    BY <2>1, <2>4, <2>5
<1>2. /\ Cardinality(hs) \in Nat /\ Cardinality(Bounding!Hits) \in Nat
      /\ Cardinality(hs) <= Cardinality(Bounding!Hits)
  BY <1>1, FS_Subset, FS_CardinalityType
<1>3. HitCost * Cardinality(hs) \in Nat
      /\ HitCost * Cardinality(hs) <= HitCost * Cardinality(Bounding!Hits)
  BY <1>2, Limits, Products
<1>4. Frame + HitCost * Bounding!Cardinality(Bounding!Hits) <= MaxTotal
  BY LimitsAssumption DEF Bounding!EnvelopeFits
<1>5. HitCost * Cardinality(Bounding!Hits) \in Nat
  BY <1>2, Limits, Products
<1> QED
  BY <1>2, <1>3, <1>4, <1>5, Limits, SameCount

\* What can be trimmed.
Trimmable == [title : Nat, body : Nat, exclusions : Nat, hits : SUBSET Bounding!Hits]

\* The largest of what fits is what fits, or nothing.
LEMMA LargestFits ==
    ASSUME NEW n \in Nat, NEW room \in SUBSET (0 .. n)
    PROVE  /\ Bounding!Largest(room) \in 0 .. n
           /\ room # {} => Bounding!Largest(room) \in room
           /\ room = {} => Bounding!Largest(room) = 0
<1> DEFINE T == {0} \cup room
           Top(x) == x \in T /\ \A y \in T : x >= y
<1>1. T \subseteq 0 .. n /\ T # {}
  OBVIOUS
<1>2. \E x \in T : \A y \in T : x >= y
  <2> HIDE DEF T
  <2> QED
    BY <1>1, GreatestNumber
<1>3. Bounding!Largest(room) = CHOOSE x \in T : \A y \in T : x >= y
  BY DEF Bounding!Largest, Bounding!Max
<1> DEFINE top == CHOOSE x \in T : \A y \in T : x >= y
<1>4. top \in T /\ \A y \in T : top >= y
  <2> HIDE DEF T
  <2> QED
    BY <1>2
<1> HIDE DEF top
<1>5. ASSUME room # {} PROVE top \in room
  <2>1. PICK y \in room : TRUE
    BY <1>5
  <2>2. top >= y /\ y \in 0 .. n
    BY <1>4
  <2> QED
    BY <1>1, <1>4, <2>2
<1> QED
  BY <1>1, <1>3, <1>4, <1>5 DEF top

\* How large the material is.
LEMMA SizeIs ==
    ASSUME NEW m \in Trimmable, Bounding!FilesSize \in Nat
    PROVE  /\ Bounding!Size(m) = Frame + m.title + m.body + ExclusionCost * m.exclusions
                + HitCost * Bounding!Cardinality(m.hits) + Bounding!FilesSize
           /\ Bounding!Size(m) \in Nat
           /\ ExclusionCost * m.exclusions \in Nat
           /\ HitCost * Bounding!Cardinality(m.hits) \in Nat
<1>1. m.title \in Nat /\ m.body \in Nat /\ m.exclusions \in Nat
      /\ m.hits \in SUBSET Bounding!Hits
  BY DEF Trimmable
<1>2. ExclusionCost * m.exclusions \in Nat
  BY <1>1, Limits, Products
<1>3. HitCost * Bounding!Cardinality(m.hits) \in Nat
  BY <1>1, HitsCount
<1> QED
  BY <1>1, <1>2, <1>3, Limits DEF Bounding!Size

\* Taking a part of the material away, whichever amounts of it fit.
RoomOf(m, part_) ==
  CASE part_ = "exclusions" ->
         {k \in 0 .. m.exclusions : Bounding!Fits([m EXCEPT !.exclusions = k])}
    [] part_ = "body" -> {k \in 0 .. m.body : Bounding!Fits([m EXCEPT !.body = k])}
    [] part_ = "title" -> {k \in 0 .. m.title : Bounding!Fits([m EXCEPT !.title = k])}

\* What Trim does, in its three steps.
Listed(m) == [m EXCEPT !.exclusions = Bounding!Largest(RoomOf(m, "exclusions"))]
Bodied(m) == [m EXCEPT !.body = Bounding!Largest(RoomOf(m, "body"))]
Titled(m) == [m EXCEPT !.title = Bounding!Largest(RoomOf(m, "title"))]
LEMMA TrimIs == ASSUME NEW m PROVE Bounding!Trim(m) = Titled(Bodied(Listed(m)))
BY DEF Bounding!Trim, Titled, Bodied, Listed, RoomOf

\* Each step leaves trimmable material with the same markers.
LEMMA TrimStep ==
    ASSUME NEW m \in Trimmable
    PROVE  /\ Listed(m) \in Trimmable /\ Bodied(m) \in Trimmable /\ Titled(m) \in Trimmable
           /\ Listed(m).hits = m.hits /\ Bodied(m).hits = m.hits /\ Titled(m).hits = m.hits
           /\ Bounding!Largest(RoomOf(m, "exclusions")) \in Nat
           /\ Bounding!Largest(RoomOf(m, "body")) \in Nat
           /\ Bounding!Largest(RoomOf(m, "title")) \in Nat
<1>1. m.title \in Nat /\ m.body \in Nat /\ m.exclusions \in Nat
      /\ m.hits \in SUBSET Bounding!Hits
  BY DEF Trimmable
<1>2. /\ RoomOf(m, "exclusions") \in SUBSET (0 .. m.exclusions)
      /\ RoomOf(m, "body") \in SUBSET (0 .. m.body)
      /\ RoomOf(m, "title") \in SUBSET (0 .. m.title)
  BY DEF RoomOf
<1>3. /\ Bounding!Largest(RoomOf(m, "exclusions")) \in Nat
      /\ Bounding!Largest(RoomOf(m, "body")) \in Nat
      /\ Bounding!Largest(RoomOf(m, "title")) \in Nat
  <2>1. /\ Bounding!Largest(RoomOf(m, "exclusions")) \in 0 .. m.exclusions
        /\ Bounding!Largest(RoomOf(m, "body")) \in 0 .. m.body
        /\ Bounding!Largest(RoomOf(m, "title")) \in 0 .. m.title
    BY <1>1, <1>2, LargestFits
  <2> QED
    BY <1>1, <2>1
<1> QED
  BY <1>1, <1>3 DEF Trimmable, Listed, Bodied, Titled

\* Trimming keeps the markers.
LEMMA TrimKeeps ==
    ASSUME NEW m \in Trimmable
    PROVE  Bounding!Trim(m) \in Trimmable /\ Bounding!Trim(m).hits = m.hits
<1>1. Listed(m) \in Trimmable /\ Listed(m).hits = m.hits
  BY TrimStep
<1>2. Bodied(Listed(m)) \in Trimmable /\ Bodied(Listed(m)).hits = m.hits
  BY <1>1, TrimStep
<1>3. Titled(Bodied(Listed(m))) \in Trimmable /\ Titled(Bodied(Listed(m))).hits = m.hits
  BY <1>2, TrimStep
<1> QED
  BY <1>3, TrimIs

\* Material of which everything is taken away fits, if no files go with it.
LEMMA EmptyFits ==
    ASSUME NEW m \in Trimmable, Bounding!FilesSize = 0,
           m.title = 0, m.body = 0, m.exclusions = 0
    PROVE  Bounding!Fits(m)
<1>1. m.hits \in SUBSET Bounding!Hits
  BY DEF Trimmable
<1>2. Bounding!Size(m) = Frame + 0 + 0 + ExclusionCost * 0
                           + HitCost * Bounding!Cardinality(m.hits) + 0
  BY DEF Bounding!Size
<1>3. ExclusionCost * 0 = 0
  BY Limits
<1>4. /\ HitCost * Bounding!Cardinality(m.hits) \in Nat
      /\ Frame + HitCost * Bounding!Cardinality(m.hits) <= MaxTotal
  BY <1>1, HitsCount
<1> QED
  BY <1>2, <1>3, <1>4, Limits DEF Bounding!Fits

\* A step of the trimming fits, or has taken its part away, if that part is
\* all that the step may take.
LEMMA StepFits ==
    ASSUME NEW m \in Trimmable
    PROVE  /\ Bounding!Fits(Listed(m)) \/ Listed(m).exclusions = 0
           /\ Bounding!Fits(Bodied(m)) \/ (Bodied(m).body = 0 /\ ~Bounding!Fits(m))
           /\ Bounding!Fits(Titled(m)) \/ (Titled(m).title = 0 /\ ~Bounding!Fits(m))
           /\ Bodied(m).exclusions = m.exclusions
           /\ Titled(m).exclusions = m.exclusions /\ Titled(m).body = m.body
<1>1. m.title \in Nat /\ m.body \in Nat /\ m.exclusions \in Nat
  BY DEF Trimmable
<1>2. /\ m = [m EXCEPT !.body = m.body] /\ m = [m EXCEPT !.title = m.title]
  BY DEF Trimmable
<1>3. /\ Listed(m).exclusions = Bounding!Largest(RoomOf(m, "exclusions"))
      /\ Bodied(m).body = Bounding!Largest(RoomOf(m, "body"))
      /\ Titled(m).title = Bounding!Largest(RoomOf(m, "title"))
      /\ Bodied(m).exclusions = m.exclusions
      /\ Titled(m).exclusions = m.exclusions /\ Titled(m).body = m.body
  BY DEF Trimmable, Listed, Bodied, Titled
<1>4. /\ RoomOf(m, "exclusions")
           = {k \in 0 .. m.exclusions : Bounding!Fits([m EXCEPT !.exclusions = k])}
      /\ RoomOf(m, "body") = {k \in 0 .. m.body : Bounding!Fits([m EXCEPT !.body = k])}
      /\ RoomOf(m, "title") = {k \in 0 .. m.title : Bounding!Fits([m EXCEPT !.title = k])}
  BY DEF RoomOf
<1>5. Bounding!Fits(Listed(m)) \/ Listed(m).exclusions = 0
  <2>1. CASE RoomOf(m, "exclusions") = {}
    BY <1>1, <1>3, <1>4, <2>1, LargestFits
  <2>2. CASE RoomOf(m, "exclusions") # {}
    <3>1. Bounding!Largest(RoomOf(m, "exclusions")) \in RoomOf(m, "exclusions")
      BY <1>1, <1>4, <2>2, LargestFits
    <3> QED
      BY <1>4, <3>1 DEF Listed
  <2> QED
    BY <2>1, <2>2
<1>6. Bounding!Fits(Bodied(m)) \/ (Bodied(m).body = 0 /\ ~Bounding!Fits(m))
  <2>1. CASE RoomOf(m, "body") = {}
    <3>1. Bounding!Largest(RoomOf(m, "body")) = 0
      BY <1>1, <1>4, <2>1, LargestFits
    <3>2. ~Bounding!Fits([m EXCEPT !.body = m.body])
      BY <1>1, <1>4, <2>1
    <3> QED
      BY <1>2, <1>3, <3>1, <3>2
  <2>2. CASE RoomOf(m, "body") # {}
    <3>1. Bounding!Largest(RoomOf(m, "body")) \in RoomOf(m, "body")
      BY <1>1, <1>4, <2>2, LargestFits
    <3> QED
      BY <1>4, <3>1 DEF Bodied
  <2> QED
    BY <2>1, <2>2
<1>7. Bounding!Fits(Titled(m)) \/ (Titled(m).title = 0 /\ ~Bounding!Fits(m))
  <2>1. CASE RoomOf(m, "title") = {}
    <3>1. Bounding!Largest(RoomOf(m, "title")) = 0
      BY <1>1, <1>4, <2>1, LargestFits
    <3>2. ~Bounding!Fits([m EXCEPT !.title = m.title])
      BY <1>1, <1>4, <2>1
    <3> QED
      BY <1>2, <1>3, <3>1, <3>2
  <2>2. CASE RoomOf(m, "title") # {}
    <3>1. Bounding!Largest(RoomOf(m, "title")) \in RoomOf(m, "title")
      BY <1>1, <1>4, <2>2, LargestFits
    <3> QED
      BY <1>4, <3>1 DEF Titled
  <2> QED
    BY <2>1, <2>2
<1> QED
  BY <1>3, <1>5, <1>6, <1>7

\* Without files every material is trimmed until it fits: if nothing else is
\* left to take, only the frame and the markers remain.
LEMMA TrimFits ==
    ASSUME NEW m \in Trimmable, Bounding!FilesSize = 0
    PROVE  Bounding!Fits(Bounding!Trim(m))
<1> DEFINE e == Listed(m)
           b == Bodied(e)
           t == Titled(b)
<1>1. e \in Trimmable
  BY TrimStep
<1>2. b \in Trimmable
  BY <1>1, TrimStep
<1>3. t \in Trimmable
  BY <1>2, TrimStep
<1>4. Bounding!Fits(e) \/ e.exclusions = 0
  BY StepFits
<1>5. /\ Bounding!Fits(b) \/ (b.body = 0 /\ ~Bounding!Fits(e))
      /\ b.exclusions = e.exclusions
  BY <1>1, StepFits
<1>6. /\ Bounding!Fits(t) \/ (t.title = 0 /\ ~Bounding!Fits(b))
      /\ t.exclusions = b.exclusions /\ t.body = b.body
  BY <1>2, StepFits
<1>7. Bounding!Trim(m) = t
  BY TrimIs
<1> HIDE DEF e, b, t
<1> QED
  BY <1>3, <1>4, <1>5, <1>6, <1>7, EmptyFits

\* The material is left as it is, or it carries a marker; markers are not lost.
LEMMA FitMarks ==
    ASSUME NEW m \in Trimmable
    PROVE  /\ Bounding!Fit(m) \in Trimmable
           /\ Bounding!Fit(m) = m \/ "total_bytes" \in Bounding!Fit(m).hits
           /\ Bounding!FilesSize = 0 => Bounding!Fits(Bounding!Fit(m))
<1> DEFINE once == Bounding!Trim(m)
           marked == Bounding!Marked(once)
<1>1. once \in Trimmable /\ once.hits = m.hits
  BY TrimKeeps
<1>2. Bounding!Fit(m) = IF once = m \/ "total_bytes" \in m.hits THEN once
                        ELSE Bounding!Trim(marked)
  BY DEF Bounding!Fit
<1> HIDE DEF once
<1>3. marked \in Trimmable /\ "total_bytes" \in marked.hits
  <2>1. "total_bytes" \in Bounding!Hits
    BY DEF Bounding!Hits
  <2> QED
    BY <1>1, <2>1 DEF Trimmable, Bounding!Marked
<1> HIDE DEF marked
<1>4. Bounding!Trim(marked) \in Trimmable /\ "total_bytes" \in Bounding!Trim(marked).hits
  BY <1>3, TrimKeeps
<1>5. Bounding!FilesSize = 0 => Bounding!Fits(once) /\ Bounding!Fits(Bounding!Trim(marked))
  BY <1>3, TrimFits DEF once
<1> QED
  BY <1>1, <1>2, <1>4, <1>5

-----------------------------------------------------------------------------
(* What the analysis shows.                                                *)

\* The bytes of the files that are shown.
ShownBytes ==
  [f \in DOMAIN kept |-> IF f \in Bounding!Shown THEN Bounding!Bytes(kept[f]) ELSE 0]

\* They are at most the bytes of all files.
LEMMA ShownType ==
    ASSUME kept \in Seq(Seq(HunkRow))
    PROVE  /\ ShownBytes \in Seq(Nat) /\ Len(ShownBytes) = Len(kept)
           /\ \A f \in 1 .. Len(kept) :
                /\ ShownBytes[f] = IF f \in Bounding!Shown THEN Bounding!Bytes(kept[f]) ELSE 0
                /\ ShownBytes[f] <= ByteCounts(kept)[f]
           /\ Bounding!CoversSource <=> patchBytes = Bounding!Total(ShownBytes)
<1>1. /\ DOMAIN kept = 1 .. Len(kept)
      /\ \A f \in 1 .. Len(kept) :
            Bounding!Bytes(kept[f]) \in Nat /\ ByteCounts(kept)[f] = Bounding!Bytes(kept[f])
  BY CountsType
<1>2. ShownBytes \in [DOMAIN kept -> Nat]
  BY <1>1 DEF ShownBytes
<1>3. ShownBytes \in Seq(Nat) /\ Len(ShownBytes) = Len(kept)
  BY <1>2, BuiltSeq
<1>4. \A f \in 1 .. Len(kept) :
        ShownBytes[f] = IF f \in Bounding!Shown THEN Bounding!Bytes(kept[f]) ELSE 0
  BY <1>1 DEF ShownBytes
<1>5. \A f \in 1 .. Len(kept) : ShownBytes[f] <= ByteCounts(kept)[f]
  <2> TAKE f \in 1 .. Len(kept)
  <2>1. ShownBytes[f] = ByteCounts(kept)[f] \/ ShownBytes[f] = 0
    BY <1>1, <1>4
  <2>2. ByteCounts(kept)[f] \in Nat
    BY <1>1
  <2> QED
    BY <2>1, <2>2
<1>6. Bounding!CoversSource <=> patchBytes = Bounding!Total(ShownBytes)
  BY DEF Bounding!CoversSource, ShownBytes
<1> QED
  BY <1>3, <1>4, <1>5, <1>6

\* Once no text is left, nothing is shown, and that covers the source.
LEMMA NothingShown ==
    ASSUME kept \in Seq(Seq(HunkRow)), Bounding!Texts = {},
           patchBytes = Bounding!BytesOf(kept)
    PROVE  Bounding!FilesSize = 0 /\ Bounding!CoversSource
<1>1. DOMAIN kept = 1 .. Len(kept) /\ Len(kept) \in Nat
  BY CountsType
<1>2. \A f \in 1 .. Len(kept) : kept[f] = <<>>
  BY <1>1 DEF Bounding!Texts
<1>3. \A f \in 1 .. Len(kept) : f \notin Bounding!Shown
  <2> TAKE f \in 1 .. Len(kept)
  <2>1. DOMAIN kept[f] = {}
    BY <1>2, EmptySeq
  <2> QED
    BY <2>1 DEF Bounding!Shown, Bounding!Anchors
<1>4. \A f \in 1 .. Len(kept) : ByteCounts(kept)[f] = 0
  BY <1>2, CountsType, BytesSteps
<1>5. Bounding!BytesOf(kept) = 0
  <2>1. Bounding!BytesOf(kept) = Bounding!Total(ByteCounts(kept))
    BY DEF Bounding!BytesOf, ByteCounts
  <2>2. ByteCounts(kept) \in Seq(Nat) /\ Len(ByteCounts(kept)) = Len(kept)
    BY CountsType
  <2> QED
    BY <1>4, <2>1, <2>2, TotalZero
<1>6. Bounding!Total(ShownBytes) = 0
  BY <1>3, ShownType, TotalZero
<1>7. Bounding!FilesSize = 0
  <2> DEFINE sizes == [f \in DOMAIN kept |->
             IF f \in Bounding!Shown THEN FileCost + Escape * Bounding!Bytes(kept[f])
                                    + AnchorCost * Bounding!Cardinality(Bounding!Anchors(f))
             ELSE 0]
  <2>1. Bounding!FilesSize = Bounding!Total(sizes)
    BY DEF Bounding!FilesSize
  <2>2. sizes \in [DOMAIN kept -> Nat] /\ \A f \in 1 .. Len(kept) : sizes[f] = 0
    BY <1>1, <1>3
  <2> HIDE DEF sizes
  <2>3. sizes \in Seq(Nat) /\ Len(sizes) = Len(kept)
    BY <2>2, BuiltSeq
  <2> QED
    BY <2>1, <2>2, <2>3, TotalZero
<1> QED
  BY <1>5, <1>6, <1>7, ShownType

\* What covers the source shows every text of it.
LEMMA CoveredIsShown ==
    ASSUME kept \in Seq(Seq(HunkRow)), patchBytes = Bounding!BytesOf(kept),
           Bounding!CoversSource
    PROVE  \A f \in Bounding!Texts : f \in Bounding!Analyzed /\ Bounding!Anchors(f) # {}
<1>1. Bounding!BytesOf(kept) = Bounding!Total(ByteCounts(kept))
  BY DEF Bounding!BytesOf, ByteCounts
<1>2. ByteCounts(kept) \in Seq(Nat) /\ Len(ByteCounts(kept)) = Len(kept)
  BY CountsType
<1>3. ShownBytes = ByteCounts(kept)
  BY <1>1, <1>2, ShownType, TotalMonotone
<1> TAKE f \in Bounding!Texts
<1>4. f \in 1 .. Len(kept) /\ kept[f] # <<>> /\ kept[f] \in Seq(HunkRow)
  BY CountsType DEF Bounding!Texts
<1>5. ByteCounts(kept)[f] > 0
  BY <1>4, CountsType, BytesSteps
<1>6. f \in Bounding!Shown
  BY <1>3, <1>4, <1>5, ShownType
<1> QED
  BY <1>6 DEF Bounding!Shown

-----------------------------------------------------------------------------
(* Prefixes of a file's hunks.                                             *)

\* The first n hunks of a file.
LEMMA Prefix ==
    ASSUME NEW hs \in Seq(HunkRow), NEW n \in 0 .. Len(hs)
    PROVE  /\ SubSeq(hs, 1, n) \in Seq(HunkRow) /\ Len(SubSeq(hs, 1, n)) = n
           /\ n = 0 => SubSeq(hs, 1, n) = <<>>
           /\ n = Len(hs) => SubSeq(hs, 1, n) = hs
           /\ n < Len(hs) => /\ hs[n + 1] \in HunkRow
                             /\ SubSeq(hs, 1, n + 1) = Append(SubSeq(hs, 1, n), hs[n + 1])
<1>1. Len(hs) \in Nat /\ \A i \in 1 .. Len(hs) : hs[i] \in HunkRow
  BY LenProperties
<1>2. ASSUME NEW k \in 0 .. Len(hs)
      PROVE  /\ SubSeq(hs, 1, k) \in Seq(HunkRow) /\ Len(SubSeq(hs, 1, k)) = k
             /\ \A i \in 1 .. k : SubSeq(hs, 1, k)[i] = hs[i]
  <2>1. /\ k \in Int /\ 1 \in Int /\ k - 1 + 1 = k
        /\ \A i \in 1 .. k : hs[i] \in HunkRow
        /\ \A i \in 1 .. k : 1 + i - 1 = i
    BY <1>1
  <2>2. /\ SubSeq(hs, 1, k) \in Seq(HunkRow)
        /\ Len(SubSeq(hs, 1, k)) = IF 1 <= k THEN k - 1 + 1 ELSE 0
        /\ \A i \in 1 .. k - 1 + 1 : SubSeq(hs, 1, k)[i] = hs[1 + i - 1]
    BY <2>1, SubSeqProperties
  <2>3. Len(SubSeq(hs, 1, k)) = k
    BY <1>1, <2>1, <2>2
  <2>4. \A i \in 1 .. k : SubSeq(hs, 1, k)[i] = hs[i]
    BY <2>1, <2>2
  <2> QED
    BY <2>2, <2>3, <2>4
<1>3. n = 0 => SubSeq(hs, 1, n) = <<>>
  BY SubSeqEmpty
<1>4. n = Len(hs) => SubSeq(hs, 1, n) = hs
  BY <1>1, <1>2, SeqEqual
<1>5. ASSUME n < Len(hs)
      PROVE  /\ hs[n + 1] \in HunkRow
             /\ SubSeq(hs, 1, n + 1) = Append(SubSeq(hs, 1, n), hs[n + 1])
  <2>1. n + 1 \in 1 .. Len(hs) /\ n + 1 \in 0 .. Len(hs) /\ n \in Nat
    BY <1>1, <1>5
  <2>2. hs[n + 1] \in HunkRow
    BY <1>1, <2>1
  <2> DEFINE p == SubSeq(hs, 1, n)
             q == SubSeq(hs, 1, n + 1)
  <2>3. /\ q \in Seq(HunkRow) /\ Len(q) = n + 1 /\ \A i \in 1 .. n + 1 : q[i] = hs[i]
        /\ p \in Seq(HunkRow) /\ Len(p) = n /\ \A i \in 1 .. n : p[i] = hs[i]
    BY <1>2, <2>1
  <2> HIDE DEF p, q
  <2>4. /\ Append(p, hs[n + 1]) \in Seq(HunkRow) /\ Len(Append(p, hs[n + 1])) = n + 1
        /\ \A i \in 1 .. n : Append(p, hs[n + 1])[i] = p[i]
        /\ Append(p, hs[n + 1])[n + 1] = hs[n + 1]
    BY <2>2, <2>3, AppendProperties
  <2>5. \A i \in 1 .. n + 1 : q[i] = Append(p, hs[n + 1])[i]
    <3> TAKE i \in 1 .. n + 1
    <3>1. CASE i = n + 1
      BY <2>1, <2>3, <2>4, <3>1
    <3>2. CASE i # n + 1
      <4>1. i \in 1 .. n
        BY <2>1, <3>2
      <4> QED
        BY <2>3, <2>4, <4>1
    <3> QED
      BY <3>1, <3>2
  <2>6. q = Append(p, hs[n + 1])
    BY <2>3, <2>4, <2>5, SeqEqual
  <2> QED
    BY <2>2, <2>6 DEF p, q
<1> QED
  BY <1>2, <1>3, <1>4, <1>5

\* A prefix without its last hunk is a prefix.
LEMMA FrontOfPrefix ==
    ASSUME NEW hs, NEW t \in Seq(HunkRow), t # <<>>, t = SubSeq(hs, 1, Len(t))
    PROVE  SubSeq(t, 1, Len(t) - 1) = SubSeq(hs, 1, Len(t) - 1)
<1> DEFINE n == Len(t)
           S == {hs[i] : i \in 1 .. n}
<1>1. n \in Nat \ {0} /\ \A i \in 1 .. n : t[i] \in HunkRow
  BY EmptySeq, LenProperties
<1>2. \A i \in 1 .. n : t[i] = hs[i]
  <2>1. n \in Int /\ 1 \in Int /\ n - 1 + 1 = n /\ (\A i \in 1 .. n : hs[i] \in S)
        /\ \A i \in 1 .. n : 1 + i - 1 = i
    BY <1>1
  <2> HIDE DEF S, n
  <2>2. \A i \in 1 .. n - 1 + 1 : SubSeq(hs, 1, n)[i] = hs[1 + i - 1]
    BY <2>1, SubSeqProperties
  <2>3. t = SubSeq(hs, 1, n)
    BY DEF n
  <2> QED
    BY <2>1, <2>2, <2>3
<1> DEFINE k == n - 1
<1>3. /\ k \in Nat /\ k \in Int /\ 1 \in Int /\ k - 1 + 1 = k
      /\ \A i \in 1 .. k : i \in 1 .. n /\ 1 + i - 1 = i
  BY <1>1
<1>4. \A i \in 1 .. k : t[i] \in HunkRow /\ hs[i] = t[i]
  BY <1>1, <1>2, <1>3
<1> HIDE DEF k, n
<1>5. ASSUME NEW s, \A i \in 1 .. k : s[i] \in HunkRow
      PROVE  /\ SubSeq(s, 1, k) \in Seq(HunkRow)
             /\ Len(SubSeq(s, 1, k)) = k
             /\ \A i \in 1 .. k : SubSeq(s, 1, k)[i] = s[i]
  <2>1. /\ SubSeq(s, 1, k) \in Seq(HunkRow)
        /\ Len(SubSeq(s, 1, k)) = IF 1 <= k THEN k - 1 + 1 ELSE 0
        /\ \A i \in 1 .. k - 1 + 1 : SubSeq(s, 1, k)[i] = s[1 + i - 1]
    BY <1>3, <1>5, SubSeqProperties
  <2> QED
    BY <1>3, <2>1
<1>6. /\ SubSeq(t, 1, k) \in Seq(HunkRow) /\ Len(SubSeq(t, 1, k)) = k
      /\ \A i \in 1 .. k : SubSeq(t, 1, k)[i] = t[i]
  BY <1>4, <1>5
<1>7. /\ SubSeq(hs, 1, k) \in Seq(HunkRow) /\ Len(SubSeq(hs, 1, k)) = k
      /\ \A i \in 1 .. k : SubSeq(hs, 1, k)[i] = hs[i]
  <2>1. \A i \in 1 .. k : hs[i] \in HunkRow
    BY <1>4
  <2> QED
    BY <1>5, <2>1
<1>8. SubSeq(t, 1, k) = SubSeq(hs, 1, k)
  BY <1>4, <1>6, <1>7, SeqEqual
<1> QED
  BY <1>8 DEF k, n

-----------------------------------------------------------------------------
(* The pull request and the loop over it.                                  *)

\* What is known of the pull request, and of the files selected of it.
LEMMA SourceIs ==
    ASSUME BoundTypes
    PROVE  /\ source.title \in Nat /\ source.body \in Nat
           /\ DOMAIN source.files = 1 .. Len(source.files) /\ Len(source.files) \in Nat
           /\ \A f \in 1 .. Len(source.files) :
                /\ source.files[f].hunks \in Seq(HunkRow)
                /\ Len(source.files[f].hunks) \in Nat
           /\ Bounding!Selected \in Nat /\ Bounding!Selected <= Len(source.files)
           /\ Bounding!Selected <= MaxFiles
           /\ \A f \in 1 .. Len(source.files) : f <= Bounding!Selected \/ f > MaxFiles
<1>1. source \in SourceRow
  BY SourcesAssumption DEF BoundTypes
<1>2. /\ source.title \in Nat /\ source.body \in Nat
      /\ source.files \in Seq([kind : STRING, hunks : Seq(HunkRow)])
  BY <1>1 DEF SourceRow
<1>3. DOMAIN source.files = 1 .. Len(source.files) /\ Len(source.files) \in Nat
  BY <1>2, LenProperties
<1>4. \A f \in 1 .. Len(source.files) : source.files[f] \in [kind : STRING, hunks : Seq(HunkRow)]
  BY <1>2, ElementOfSeq
<1>5. \A f \in 1 .. Len(source.files) :
        source.files[f].hunks \in Seq(HunkRow) /\ Len(source.files[f].hunks) \in Nat
  BY <1>4, LenProperties
<1>6. Bounding!Selected = IF MaxFiles < Len(source.files) THEN MaxFiles ELSE Len(source.files)
  BY DEF Bounding!Selected, Bounding!Least
<1>7. /\ Bounding!Selected \in Nat /\ Bounding!Selected <= Len(source.files)
      /\ Bounding!Selected <= MaxFiles
      /\ \A f \in 1 .. Len(source.files) : f <= Bounding!Selected \/ f > MaxFiles
  BY <1>3, <1>6, Limits
<1> QED
  BY <1>2, <1>3, <1>5, <1>7

\* What is known where the loop stands.
LEMMA LoopIs ==
    ASSUME BoundTypes, Progress
    PROVE  /\ Len(kept) = file - 1 /\ DOMAIN kept = 1 .. Len(kept) /\ Len(kept) \in Nat
           /\ Len(kept) <= Bounding!Selected
           /\ \A f \in 1 .. Len(kept) :
                f \in 1 .. Len(source.files) /\ kept[f] \in Seq(HunkRow)
           /\ file <= Bounding!Selected =>
                /\ file \in 1 .. Len(source.files)
                /\ source.files[file].hunks \in Seq(HunkRow)
                /\ hunk - 1 \in 0 .. Len(source.files[file].hunks)
                /\ Taken = SubSeq(source.files[file].hunks, 1, hunk - 1)
           /\ Taken \in Seq(HunkRow) /\ Len(Taken) = hunk - 1
<1>1. file \in Nat \ {0} /\ hunk \in Nat \ {0} /\ kept \in Seq(Seq(HunkRow))
  BY DEF BoundTypes
<1>2. /\ Len(kept) = file - 1 /\ file <= Bounding!Selected + 1
      /\ file > Bounding!Selected => hunk = 1
      /\ file <= Bounding!Selected => hunk <= Len(source.files[file].hunks) + 1
  BY DEF Progress
<1>3. /\ DOMAIN kept = 1 .. Len(kept) /\ Len(kept) \in Nat
      /\ \A f \in 1 .. Len(kept) : kept[f] \in Seq(HunkRow)
  BY <1>1, CountsType
<1>4. Len(kept) <= Bounding!Selected /\ \A f \in 1 .. Len(kept) : f \in 1 .. Len(source.files)
  BY <1>1, <1>2, <1>3, SourceIs
<1>5. ASSUME file <= Bounding!Selected
      PROVE  /\ file \in 1 .. Len(source.files)
             /\ source.files[file].hunks \in Seq(HunkRow)
             /\ hunk - 1 \in 0 .. Len(source.files[file].hunks)
             /\ Taken = SubSeq(source.files[file].hunks, 1, hunk - 1)
  <2>1. file \in 1 .. Len(source.files)
    BY <1>1, <1>5, SourceIs
  <2>2. /\ source.files[file].hunks \in Seq(HunkRow)
        /\ Len(source.files[file].hunks) \in Nat
    BY <2>1, SourceIs
  <2>3. hunk - 1 \in 0 .. Len(source.files[file].hunks)
    BY <1>1, <1>2, <1>5, <2>2
  <2>4. hunk = 1 => SubSeq(source.files[file].hunks, 1, hunk - 1) = <<>>
    BY SubSeqEmpty
  <2> QED
    BY <2>1, <2>2, <2>3, <2>4 DEF Taken
<1>6. Taken \in Seq(HunkRow) /\ Len(Taken) = hunk - 1
  <2>1. CASE hunk = 1
    <3>1. Taken = <<>>
      BY <2>1 DEF Taken
    <3> QED
      BY <2>1, <3>1, EmptySeq
  <2>2. CASE hunk # 1
    <3>1. file <= Bounding!Selected
      BY <1>1, <1>2, <2>2, SourceIs
    <3> QED
      BY <1>5, <3>1, Prefix
  <2> QED
    BY <2>1, <2>2
<1> QED
  BY <1>2, <1>3, <1>4, <1>5, <1>6

-----------------------------------------------------------------------------
(* The steps of the bounding.                                              *)

\* The steps that keep what is in phases "accepted" and "refused" by not
\* reaching them.
LEMMA UnderWay ==
    ASSUME phase \notin {"accepted", "refused"}
    PROVE  /\ Bounding!BoundingRefusesNothing
           /\ Bounding!NothingVanishesSilently
           /\ Bounding!AnalysisIsComplete
BY DEF Bounding!BoundingRefusesNothing, Bounding!NothingVanishesSilently,
       Bounding!AnalysisIsComplete

\* Before the loop nothing is counted.
LEMMA InitContext == Bounding!Init => ContextIInv
<1> SUFFICES ASSUME Bounding!Init PROVE ContextIInv
  OBVIOUS
<1> USE DEF Bounding!Init
<1>1. BoundTypes
  <2>1. source \in SourceRow
    BY SourcesAssumption
  <2>2. source.files \in Seq([kind : STRING, hunks : Seq(HunkRow)])
    BY <2>1 DEF SourceRow
  <2>3. exclusions \in [DOMAIN source.files -> Nat]
    OBVIOUS
  <2>4. exclusions \in Seq(Nat) /\ Len(exclusions) = Len(source.files)
    BY <2>2, <2>3, BuiltSeq
  <2>5. kept \in Seq(Seq(HunkRow))
    BY EmptySeq
  <2> QED
    BY <2>4, <2>5 DEF BoundTypes, Bounding!NoContext
<1>2. Bounding!Selected \in Nat /\ Bounding!Selected <= Len(source.files)
      /\ \A f \in 1 .. Len(source.files) : Len(source.files[f].hunks) \in Nat
  BY <1>1, SourceIs
<1>3. Len(kept) = 0
  BY EmptySeq
<1>4. Progress
  <2>1. ASSUME file <= Bounding!Selected
        PROVE  hunk <= Len(source.files[file].hunks) + 1
    <3>1. file \in 1 .. Len(source.files)
      BY <1>1, <1>2, <2>1, SourceIs
    <3> QED
      BY <1>2, <3>1
  <2> QED
    BY <1>2, <1>3, <2>1 DEF Progress
<1>5. Counted
  <2>1. Taken = <<>> /\ Bounding!Bytes(Taken) = 0
    BY BytesSteps DEF Taken
  <2>2. Bounding!BytesOf(kept) = 0 /\ Bounding!HunksOf(kept) = 0
    <3>1. DOMAIN kept = {}
      BY EmptySeq
    <3>2. HunkCounts(kept) \in Seq(Nat) /\ ByteCounts(kept) \in Seq(Nat)
          /\ Len(HunkCounts(kept)) = 0 /\ Len(ByteCounts(kept)) = 0
      BY <1>1, <1>3, CountsType DEF BoundTypes
    <3>3. HunkCounts(kept) = <<>> /\ ByteCounts(kept) = <<>>
      BY <3>2, EmptySeq
    <3>4. Bounding!BytesOf(kept) = Bounding!Total(ByteCounts(kept))
          /\ Bounding!HunksOf(kept) = Bounding!Total(HunkCounts(kept))
      BY DEF Bounding!BytesOf, Bounding!HunksOf, ByteCounts, HunkCounts
    <3> QED
      BY <3>3, <3>4, TotalSteps
  <2> QED
    BY <1>3, <2>1, <2>2, Limits DEF Counted
<1>6. Told
  BY DEF Told
<1>7. Bounding!PatchHasNoGap
  <2>1. DOMAIN kept = {}
    BY EmptySeq
  <2> QED
    BY <2>1 DEF Bounding!PatchHasNoGap
<1> QED
  BY <1>1, <1>4, <1>5, <1>6, <1>7, UnderWay DEF ContextIInv

\* Start: what the limits cut off is marked, and what is left of the budget
\* is counted.
LEMMA StartStep == ContextIInv /\ Bounding!Start => ContextIInv'
<1> SUFFICES ASSUME ContextIInv, Bounding!Start PROVE ContextIInv'
  OBVIOUS
<1> USE DEF Bounding!Start
<1>1. BoundTypes /\ Progress /\ Counted /\ Bounding!PatchHasNoGap
  BY DEF ContextIInv
<1>2. file = 1 /\ hunk = 1 /\ Len(kept) = 0 /\ file <= Bounding!Selected + 1
  BY <1>1 DEF Progress
<1>3. /\ source' = source /\ file' = file /\ hunk' = hunk /\ kept' = kept
      /\ fileBytes' = fileBytes /\ patchBytes' = patchBytes /\ context' = context
      /\ phase = "start" /\ phase' = "selecting"
  OBVIOUS
<1>4. /\ source.title \in Nat /\ source.body \in Nat
      /\ DOMAIN source.files = 1 .. Len(source.files) /\ Len(source.files) \in Nat
  BY <1>1, SourceIs
<1> DEFINE room == MaxTotal - title'
           limit == Bounding!Least(MaxBody, room)
<1>5. /\ title' \in Nat /\ title' <= MaxTitle /\ room \in Nat /\ limit \in Nat /\ limit <= room
      /\ title' + room = MaxTotal
  <2>1. title' = IF source.title < MaxTitle THEN source.title ELSE MaxTitle
    BY DEF Bounding!Least
  <2>2. title' \in Nat /\ title' <= MaxTitle
    BY <1>4, <2>1, Limits
  <2>3. room \in Nat /\ title' + room = MaxTotal
    BY <2>2, Limits
  <2> HIDE DEF room
  <2>4. limit = IF MaxBody < room THEN MaxBody ELSE room
    BY DEF Bounding!Least
  <2> QED
    BY <2>2, <2>3, <2>4, Limits
<1>6. body' = Bounding!Least(source.body, limit) /\ remaining' = room - body'
  OBVIOUS
<1>7. /\ body' \in Nat /\ remaining' \in Nat
      /\ title' + body' + 0 + remaining' <= MaxTotal
  <2> HIDE DEF room, limit, Bounding!Start
  <2>1. body' = IF source.body < limit THEN source.body ELSE limit
    BY <1>6 DEF Bounding!Least
  <2>2. body' \in Nat /\ body' <= limit
    BY <1>4, <1>5, <2>1
  <2>3. body' <= room /\ room \in Nat
    BY <1>5, <2>2
  <2>4. remaining' \in Nat /\ body' + remaining' = room
    BY <1>6, <2>2, <2>3
  <2>5. title' \in Nat /\ title' + room = MaxTotal
    BY <1>5
  <2>6. ASSUME NEW a \in Nat, NEW b \in Nat, NEW c \in Nat, NEW r \in Nat,
               b + c = r, a + r = MaxTotal
        PROVE  a + b + 0 + c <= MaxTotal
    BY <2>6, Limits
  <2>7. title' + body' + 0 + remaining' <= MaxTotal
    BY <2>2, <2>3, <2>4, <2>5, <2>6
  <2> QED
    BY <2>2, <2>4, <2>7
<1>8. exclusions' = [f \in DOMAIN source.files |-> IF f > MaxFiles THEN 1 ELSE 0]
  OBVIOUS
<1>9. exclusions' \in Seq(Nat) /\ Len(exclusions') = Len(source.files)
  <2>1. source.files \in Seq([kind : STRING, hunks : Seq(HunkRow)])
    <3>1. source \in SourceRow
      BY <1>1, SourcesAssumption DEF BoundTypes
    <3> QED
      BY <3>1 DEF SourceRow
  <2>2. exclusions' \in [DOMAIN source.files -> Nat]
    BY <1>8
  <2> QED
    BY <2>1, <2>2, BuiltSeq
<1>10. hits' \subseteq Bounding!Hits
  OBVIOUS
<1>11. /\ title' < source.title => "title_bytes" \in hits'
       /\ body' < source.body => "body_bytes" \in hits'
  <2>1. "title_bytes" \in Bounding!Hits /\ "body_bytes" \in Bounding!Hits
    BY DEF Bounding!Hits
  <2> QED
    BY <2>1
<1> HIDE DEF Bounding!Start
<1>12. BoundTypes'
  BY <1>1, <1>3, <1>5, <1>7, <1>9, <1>10 DEF BoundTypes
<1>13. Progress'
  BY <1>1, <1>2, <1>3 DEF Progress, Bounding!Selected
<1>14. Counted'
  <2>1. Taken' = Taken
    BY <1>3 DEF Taken
  <2>2. patchBytes = 0
    <3>1. kept = <<>>
      BY <1>1, <1>2, EmptySeq DEF BoundTypes
    <3>2. Bounding!Bytes(Taken) = 0
      BY <1>2, BytesSteps DEF Taken
    <3>3. Bounding!Total(ByteCounts(kept)) = 0
      <4>1. ByteCounts(kept) \in Seq(Nat) /\ Len(ByteCounts(kept)) = 0
        BY <1>1, <1>2, CountsType DEF BoundTypes
      <4>2. ByteCounts(kept) = <<>>
        BY <4>1, EmptySeq
      <4> QED
        BY <4>2, TotalSteps
    <3>4. Bounding!BytesOf(kept) = 0
      BY <3>3 DEF Bounding!BytesOf, ByteCounts
    <3> QED
      BY <1>1, <3>2, <3>4 DEF Counted
  <2>3. /\ fileBytes' = Bounding!Bytes(Taken') /\ fileBytes' <= MaxFile
        /\ patchBytes' = Bounding!BytesOf(kept') + fileBytes'
        /\ Bounding!HunksOf(kept') + hunk' - 1 <= MaxHunks
        /\ \A f \in 1 .. Len(kept') : Bounding!Bytes(kept'[f]) <= MaxFile
    BY <1>1, <1>3, <2>1 DEF Counted
  <2>4. title' + body' + patchBytes' + remaining' <= MaxTotal
    BY <1>3, <1>7, <2>2
  <2> QED
    BY <2>3, <2>4 DEF Counted
<1>15. Told'
  <2>1. ASSUME NEW f \in 1 .. Len(source'.files), f <= Len(kept') \/ f > MaxFiles
        PROVE  exclusions'[f] > 0
    <3>1. f > MaxFiles /\ f \in DOMAIN source.files
      BY <1>2, <1>3, <1>4, <2>1
    <3> QED
      BY <1>8, <3>1
  <2> QED
    BY <1>3, <1>11, <2>1 DEF Told
<1>16. Bounding!PatchHasNoGap'
  BY <1>1, <1>3 DEF Bounding!PatchHasNoGap
<1>17. Bounding!BoundingRefusesNothing' /\ Bounding!NothingVanishesSilently'
       /\ Bounding!AnalysisIsComplete'
  BY <1>3 DEF Bounding!BoundingRefusesNothing, Bounding!NothingVanishesSilently,
              Bounding!AnalysisIsComplete
<1> QED
  BY <1>12, <1>13, <1>14, <1>15, <1>16, <1>17 DEF ContextIInv

\* Appending to what is kept leaves the earlier files as they are, so a
\* prefix stays a prefix, and what was told of them holds.
LEMMA FileEnds ==
    ASSUME ContextIInv, phase = "selecting", file <= Bounding!Selected,
           NEW hs \in Seq(HunkRow), source' = source,
           kept' = Append(kept, hs), hs = SubSeq(source.files[file].hunks, 1, Len(hs))
    PROVE  /\ kept' \in Seq(Seq(HunkRow)) /\ Len(kept') = file
           /\ kept'[file] = hs
           /\ \A f \in 1 .. file : f # file => f \in 1 .. Len(kept) /\ kept'[f] = kept[f]
           /\ Bounding!PatchHasNoGap'
<1>1. BoundTypes /\ Progress /\ Bounding!PatchHasNoGap
  BY DEF ContextIInv
<1>2. kept \in Seq(Seq(HunkRow)) /\ Len(kept) = file - 1 /\ file \in Nat \ {0}
      /\ DOMAIN kept = 1 .. Len(kept)
  BY <1>1, LoopIs DEF BoundTypes
<1>3. /\ kept' \in Seq(Seq(HunkRow)) /\ Len(kept') = Len(kept) + 1
      /\ \A f \in 1 .. Len(kept) : kept'[f] = kept[f]
      /\ kept'[Len(kept) + 1] = hs
  BY <1>2, AppendProperties
<1>4. Len(kept') = file /\ kept'[file] = hs /\ DOMAIN kept' = 1 .. file
  BY <1>2, <1>3, LenProperties
<1>5. \A f \in 1 .. file : f # file => f \in 1 .. Len(kept) /\ kept'[f] = kept[f]
  BY <1>2, <1>3
<1>6. ASSUME NEW f \in DOMAIN kept'
      PROVE  kept'[f] = SubSeq(source'.files[f].hunks, 1, Len(kept'[f]))
  <2>1. CASE f = file
    BY <1>4, <2>1
  <2>2. CASE f # file
    <3>1. f \in DOMAIN kept /\ kept'[f] = kept[f]
      BY <1>2, <1>4, <1>5, <2>2
    <3> QED
      BY <1>1, <3>1 DEF Bounding!PatchHasNoGap
  <2> QED
    BY <2>1, <2>2
<1>7. Bounding!PatchHasNoGap'
  BY <1>6 DEF Bounding!PatchHasNoGap
<1> QED
  BY <1>3, <1>4, <1>5, <1>7

\* The loop stands before the first hunk of the next file, or at the end.
LEMMA NextFile ==
    ASSUME ContextIInv, phase = "selecting", file <= Bounding!Selected,
           source' = source, phase' = "selecting", file' = file + 1, hunk' = 1,
           Len(kept') = file
    PROVE  Progress'
<1>1. BoundTypes /\ Progress
  BY DEF ContextIInv
<1>2. /\ Bounding!Selected \in Nat /\ Bounding!Selected <= Len(source.files)
      /\ file \in Nat \ {0} /\ Len(source.files) \in Nat
      /\ \A f \in 1 .. Len(source.files) : Len(source.files[f].hunks) \in Nat
  BY <1>1, SourceIs DEF BoundTypes
<1>3. Bounding!Selected' = Bounding!Selected
  BY DEF Bounding!Selected
<1>4. ASSUME file' <= Bounding!Selected'
      PROVE  hunk' <= Len(source'.files[file'].hunks) + 1
  <2>1. file' \in 1 .. Len(source.files)
    BY <1>2, <1>3, <1>4
  <2> QED
    BY <1>2, <2>1
<1>5. file' <= Bounding!Selected' + 1 /\ Len(kept') = file' - 1
  BY <1>2, <1>3
<1> QED
  BY <1>4, <1>5 DEF Progress

\* The counters after a file, when the next one has not begun.
LEMMA FileCounted ==
    ASSUME ContextIInv, phase = "selecting", file <= Bounding!Selected,
           kept' = Append(kept, Taken), hunk' = 1, fileBytes' = 0,
           patchBytes' = patchBytes, remaining' = remaining,
           title' = title, body' = body
    PROVE  Counted'
<1>1. BoundTypes /\ Progress /\ Counted
  BY DEF ContextIInv
<1>2. kept \in Seq(Seq(HunkRow)) /\ hunk \in Nat \ {0} /\ fileBytes \in Nat
  BY <1>1 DEF BoundTypes
<1>3. Taken \in Seq(HunkRow) /\ Len(Taken) = hunk - 1 /\ Bounding!Bytes(Taken) \in Nat
  BY <1>1, LoopIs, BytesSteps
<1>4. /\ Bounding!HunksOf(kept') = Bounding!HunksOf(kept) + (hunk - 1)
      /\ Bounding!BytesOf(kept') = Bounding!BytesOf(kept) + Bounding!Bytes(Taken)
      /\ Bounding!HunksOf(kept) \in Nat /\ Bounding!BytesOf(kept) \in Nat
  BY <1>2, <1>3, FilesAppend
<1>5. /\ fileBytes = Bounding!Bytes(Taken) /\ fileBytes <= MaxFile
      /\ patchBytes = Bounding!BytesOf(kept) + fileBytes
      /\ title + body + patchBytes + remaining <= MaxTotal
      /\ Bounding!HunksOf(kept) + hunk - 1 <= MaxHunks
      /\ \A f \in 1 .. Len(kept) : Bounding!Bytes(kept[f]) <= MaxFile
  BY <1>1 DEF Counted
<1>6. Taken' = <<>> /\ Bounding!Bytes(Taken') = 0
  BY BytesSteps DEF Taken
<1>7. fileBytes' = Bounding!Bytes(Taken') /\ fileBytes' <= MaxFile
  BY <1>6, Limits
<1>8. patchBytes' = Bounding!BytesOf(kept') + fileBytes'
  <2>1. patchBytes = Bounding!BytesOf(kept')
    BY <1>4, <1>5
  <2>2. Bounding!BytesOf(kept') \in Nat
    BY <1>3, <1>4
  <2> QED
    BY <2>1, <2>2
<1>9. title' + body' + patchBytes' + remaining' <= MaxTotal
  BY <1>5
<1>10. Bounding!HunksOf(kept') + hunk' - 1 <= MaxHunks
  BY <1>2, <1>4, <1>5, Limits
<1>11. \A f \in 1 .. Len(kept') : Bounding!Bytes(kept'[f]) <= MaxFile
  <2>1. /\ Len(kept') = Len(kept) + 1 /\ Len(kept) \in Nat
        /\ \A f \in 1 .. Len(kept) : kept'[f] = kept[f]
        /\ kept'[Len(kept) + 1] = Taken
    BY <1>2, <1>3, AppendProperties, LenProperties
  <2> TAKE f \in 1 .. Len(kept')
  <2>2. CASE f = Len(kept) + 1
    BY <1>5, <2>1, <2>2
  <2>3. CASE f # Len(kept) + 1
    <3>1. f \in 1 .. Len(kept)
      BY <2>1, <2>3
    <3> QED
      BY <1>5, <2>1, <3>1
  <2> QED
    BY <2>2, <2>3
<1> QED
  BY <1>7, <1>8, <1>9, <1>10, <1>11 DEF Counted

\* One more exclusion of a file keeps the list of them a list.
LEMMA OneMore ==
    ASSUME BoundTypes, NEW f \in 1 .. Len(source.files),
           exclusions' = [exclusions EXCEPT ![f] = @ + 1]
    PROVE  /\ exclusions' \in Seq(Nat) /\ Len(exclusions') = Len(source.files)
           /\ exclusions'[f] > 0
           /\ \A g \in 1 .. Len(source.files) : exclusions[g] > 0 => exclusions'[g] > 0
<1>1. exclusions \in Seq(Nat) /\ Len(exclusions) = Len(source.files)
  BY DEF BoundTypes
<1>2. exclusions[f] \in Nat
  BY <1>1, ElementOfSeq
<1>3. exclusions[f] + 1 \in Nat /\ exclusions[f] + 1 > 0
  BY <1>2
<1>4. /\ exclusions' \in Seq(Nat) /\ Len(exclusions') = Len(exclusions)
      /\ \A g \in 1 .. Len(exclusions) :
            exclusions'[g] = IF g = f THEN exclusions[f] + 1 ELSE exclusions[g]
  BY <1>1, <1>3, ExceptSeq
<1> QED
  BY <1>1, <1>3, <1>4

\* After a file: it is complete or it is listed, and so are those before it.
LEMMA FileTold ==
    ASSUME ContextIInv, phase = "selecting", file <= Bounding!Selected,
           NEW hs \in Seq(HunkRow), source' = source, title' = title, body' = body,
           hits \subseteq hits',
           kept' = Append(kept, hs), hs = SubSeq(source.files[file].hunks, 1, Len(hs)),
           \A g \in 1 .. Len(source.files) : exclusions[g] > 0 => exclusions'[g] > 0,
           \/ exclusions'[file] > 0
           \/ source.files[file].kind = "text" /\ hs = source.files[file].hunks
    PROVE  Told'
<1>1. BoundTypes /\ Progress /\ Told
  BY DEF ContextIInv
<1>2. /\ \A f \in 1 .. Len(source.files) :
            f <= Len(kept) \/ f > MaxFiles => Bounding!Complete(f) \/ exclusions[f] > 0
      /\ title < source.title => "title_bytes" \in hits
      /\ body < source.body => "body_bytes" \in hits
  BY <1>1 DEF Told
<1>3. /\ Len(kept') = file /\ kept'[file] = hs
      /\ \A f \in 1 .. file : f # file => f \in 1 .. Len(kept) /\ kept'[f] = kept[f]
  BY FileEnds
<1>4. file \in Nat \ {0} /\ Len(kept) = file - 1 /\ Bounding!Selected <= MaxFiles
      /\ Bounding!Selected \in Nat /\ Len(source.files) \in Nat
  BY <1>1, SourceIs, LoopIs DEF BoundTypes
<1>5. ASSUME NEW f \in 1 .. Len(source'.files), f <= Len(kept') \/ f > MaxFiles
      PROVE  Bounding!Complete(f)' \/ exclusions'[f] > 0
  <2>1. CASE f = file
    <3>1. ASSUME source.files[file].kind = "text", hs = source.files[file].hunks
          PROVE  Bounding!Complete(f)'
      BY <1>3, <1>4, <2>1, <3>1 DEF Bounding!Complete
    <3> QED
      BY <2>1, <3>1
  <2>2. CASE f # file /\ f <= Len(kept')
    <3>1. f \in 1 .. file /\ f \in 1 .. Len(kept)
      BY <1>3, <1>4, <1>5, <2>2
    <3>2. kept'[f] = kept[f] /\ f <= Len(kept) /\ f <= Len(kept')
      BY <1>3, <1>4, <2>2, <3>1
    <3>3. Bounding!Complete(f) \/ exclusions[f] > 0
      BY <1>2, <3>2
    <3>4. Bounding!Complete(f) => Bounding!Complete(f)'
      BY <3>2 DEF Bounding!Complete
    <3> QED
      BY <3>3, <3>4
  <2>3. CASE f # file /\ f > MaxFiles
    <3>1. Bounding!Complete(f) \/ exclusions[f] > 0
      BY <1>2, <2>3
    <3>2. ~Bounding!Complete(f)
      <4>1. ~(f <= Len(kept))
        BY <1>4, <2>3, Limits
      <4> QED
        BY <4>1 DEF Bounding!Complete
    <3> QED
      BY <3>1, <3>2
  <2> QED
    BY <1>5, <2>1, <2>2, <2>3
<1> QED
  BY <1>2, <1>5 DEF Told

\* Skip: the file is listed, and nothing of it is kept.
LEMMA SkipStep == ContextIInv /\ Bounding!Skip => ContextIInv'
<1> SUFFICES ASSUME ContextIInv, Bounding!Skip PROVE ContextIInv'
  OBVIOUS
<1>1. BoundTypes /\ Progress
  BY DEF ContextIInv
<1>2. /\ phase = "selecting" /\ file <= Bounding!Selected
      /\ source.files[file].kind # "text"
      /\ kept' = Append(kept, <<>>) /\ exclusions' = [exclusions EXCEPT ![file] = @ + 1]
      /\ file' = file + 1 /\ source' = source /\ phase' = phase /\ hunk' = hunk
      /\ title' = title /\ body' = body /\ remaining' = remaining
      /\ fileBytes' = fileBytes /\ patchBytes' = patchBytes /\ hits' = hits
      /\ context' = context
  BY DEF Bounding!Skip, Bounding!Selecting
<1>3. hunk = 1 /\ hunk' = 1
  BY <1>1, <1>2 DEF Progress
<1>4. file \in Nat \ {0} /\ file \in 1 .. Len(source.files)
  BY <1>1, <1>2, LoopIs DEF BoundTypes
<1>5. <<>> \in Seq(HunkRow) /\ Len(<<>>) = 0
      /\ <<>> = SubSeq(source.files[file].hunks, 1, Len(<<>>))
  BY EmptySeq, SubSeqEmpty
<1>6. /\ kept' \in Seq(Seq(HunkRow)) /\ Len(kept') = file /\ Bounding!PatchHasNoGap'
  BY <1>2, <1>5, FileEnds
<1>7. /\ exclusions' \in Seq(Nat) /\ Len(exclusions') = Len(source.files)
      /\ exclusions'[file] > 0
      /\ \A g \in 1 .. Len(source.files) : exclusions[g] > 0 => exclusions'[g] > 0
  BY <1>1, <1>2, <1>4, OneMore
<1>8. BoundTypes'
  BY <1>1, <1>2, <1>3, <1>4, <1>6, <1>7 DEF BoundTypes
<1>9. Progress'
  BY <1>2, <1>3, <1>6, NextFile
<1>10. Counted'
  <2>1. Taken = <<>>
    BY <1>3 DEF Taken
  <2>2. fileBytes' = 0
    BY <1>2, <2>1, BytesSteps DEF ContextIInv, Counted
  <2> QED
    BY <1>2, <1>3, <2>1, <2>2, FileCounted
<1>11. Told'
  BY <1>2, <1>5, <1>7, FileTold
<1> QED
  BY <1>2, <1>6, <1>8, <1>9, <1>10, <1>11
     DEF ContextIInv, Bounding!BoundingRefusesNothing, Bounding!NothingVanishesSilently,
         Bounding!AnalysisIsComplete

\* EndFile: the file's hunks up to here are kept; unless they are all of
\* them, the file is listed.
LEMMA EndFileStep == ContextIInv /\ Bounding!EndFile => ContextIInv'
<1> SUFFICES ASSUME ContextIInv, Bounding!EndFile PROVE ContextIInv'
  OBVIOUS
<1>1. BoundTypes /\ Progress
  BY DEF ContextIInv
<1>2. /\ phase = "selecting" /\ file <= Bounding!Selected
      /\ source.files[file].kind = "text"
      /\ kept' = Append(kept, SubSeq(source.files[file].hunks, 1, hunk - 1))
      /\ file' = file + 1 /\ hunk' = 1 /\ fileBytes' = 0
      /\ source' = source /\ phase' = phase
      /\ title' = title /\ body' = body /\ remaining' = remaining
      /\ patchBytes' = patchBytes /\ context' = context
  BY DEF Bounding!EndFile, Bounding!Selecting
<1>3. \/ hunk > Len(source.files[file].hunks) /\ exclusions' = exclusions /\ hits' = hits
      \/ /\ exclusions' = [exclusions EXCEPT ![file] = @ + 1]
         /\ hits' = hits \cup Bounding!Exceeded
  BY DEF Bounding!EndFile
<1>4. /\ file \in Nat \ {0} /\ file \in 1 .. Len(source.files)
      /\ source.files[file].hunks \in Seq(HunkRow)
      /\ hunk - 1 \in 0 .. Len(source.files[file].hunks) /\ hunk \in Nat \ {0}
      /\ Taken = SubSeq(source.files[file].hunks, 1, hunk - 1)
      /\ Taken \in Seq(HunkRow) /\ Len(Taken) = hunk - 1
      /\ Len(source.files[file].hunks) \in Nat
  BY <1>1, <1>2, LoopIs, SourceIs DEF BoundTypes
<1>5. kept' = Append(kept, Taken) /\ Taken = SubSeq(source.files[file].hunks, 1, Len(Taken))
  BY <1>2, <1>4
<1>6. /\ kept' \in Seq(Seq(HunkRow)) /\ Len(kept') = file /\ Bounding!PatchHasNoGap'
  BY <1>2, <1>4, <1>5, FileEnds
<1>7. /\ exclusions' \in Seq(Nat) /\ Len(exclusions') = Len(source.files)
      /\ hits' \subseteq Bounding!Hits /\ hits \subseteq hits'
      /\ \A g \in 1 .. Len(source.files) : exclusions[g] > 0 => exclusions'[g] > 0
      /\ exclusions'[file] > 0 \/ Taken = source.files[file].hunks
  <2>1. CASE hunk > Len(source.files[file].hunks) /\ exclusions' = exclusions /\ hits' = hits
    <3>1. hunk - 1 = Len(source.files[file].hunks)
      BY <1>4, <2>1
    <3>2. Taken = source.files[file].hunks
      BY <1>4, <3>1, Prefix
    <3> QED
      BY <1>1, <2>1, <3>2 DEF BoundTypes
  <2>2. CASE /\ exclusions' = [exclusions EXCEPT ![file] = @ + 1]
             /\ hits' = hits \cup Bounding!Exceeded
    <3>1. Bounding!Exceeded \subseteq Bounding!Hits
      BY DEF Bounding!Exceeded, Bounding!Hits
    <3>2. hits \subseteq Bounding!Hits
      BY <1>1 DEF BoundTypes
    <3>3. hits' \subseteq Bounding!Hits /\ hits \subseteq hits'
      BY <2>2, <3>1, <3>2
    <3> QED
      BY <1>1, <1>4, <2>2, <3>3, OneMore
  <2> QED
    BY <1>3, <2>1, <2>2
<1>8. BoundTypes'
  <2>1. {title', body', remaining', fileBytes', patchBytes'} \subseteq Nat
    BY <1>1, <1>2 DEF BoundTypes
  <2>2. file' \in Nat \ {0} /\ hunk' \in Nat \ {0}
    BY <1>2, <1>4
  <2>3. source' \in Sources /\ context'.hits \subseteq Bounding!Hits
        /\ phase' \in {"start", "selecting", "fitting", "accepted", "refused"}
    BY <1>1, <1>2 DEF BoundTypes
  <2> QED
    BY <1>2, <1>6, <1>7, <2>1, <2>2, <2>3 DEF BoundTypes
<1>9. Progress'
  BY <1>2, <1>6, NextFile
<1>10. Counted'
  BY <1>2, <1>5, FileCounted
<1>11. Told'
  BY <1>2, <1>4, <1>5, <1>7, FileTold
<1> QED
  BY <1>2, <1>6, <1>8, <1>9, <1>10, <1>11
     DEF ContextIInv, Bounding!BoundingRefusesNothing, Bounding!NothingVanishesSilently,
         Bounding!AnalysisIsComplete

\* Include: the next hunk is within every budget, and is counted with the
\* newline before it.
LEMMA IncludeStep == ContextIInv /\ Bounding!Include => ContextIInv'
<1> SUFFICES ASSUME ContextIInv, Bounding!Include PROVE ContextIInv'
  OBVIOUS
<1>1. BoundTypes /\ Progress /\ Counted /\ Told /\ Bounding!PatchHasNoGap
  BY DEF ContextIInv
<1>2. /\ phase = "selecting" /\ file <= Bounding!Selected
      /\ source.files[file].kind = "text" /\ hunk <= Len(source.files[file].hunks)
      /\ Bounding!Exceeded = {}
      /\ fileBytes' = fileBytes + Bounding!NextBytes
      /\ patchBytes' = patchBytes + Bounding!NextBytes
      /\ remaining' = remaining - Bounding!NextBytes
      /\ hunk' = hunk + 1 /\ file' = file /\ source' = source /\ phase' = phase
      /\ title' = title /\ body' = body /\ kept' = kept /\ exclusions' = exclusions
      /\ hits' = hits /\ context' = context
  BY DEF Bounding!Include, Bounding!AtHunk, Bounding!Selecting
<1> DEFINE hs == source.files[file].hunks
           next == Bounding!NextBytes
<1>3. /\ hs \in Seq(HunkRow) /\ hunk - 1 \in 0 .. Len(hs) /\ hunk \in Nat \ {0}
      /\ Taken = SubSeq(hs, 1, hunk - 1)
      /\ Taken \in Seq(HunkRow) /\ Len(Taken) = hunk - 1 /\ Len(hs) \in Nat
  <2>1. file \in 1 .. Len(source.files) /\ hunk \in Nat \ {0}
    BY <1>1, <1>2, LoopIs DEF BoundTypes
  <2> QED
    BY <1>1, <1>2, <2>1, LoopIs, SourceIs
<1> HIDE DEF hs
<1>4. hs[hunk] \in HunkRow /\ SubSeq(hs, 1, hunk) = Append(Taken, hs[hunk])
  <2>1. hunk - 1 < Len(hs) /\ (hunk - 1) + 1 = hunk
    BY <1>2, <1>3 DEF hs
  <2> QED
    BY <1>3, <2>1, Prefix
<1>5. next = hs[hunk].bytes + (IF hunk = 1 THEN 0 ELSE 1)
  BY DEF Bounding!NextBytes, hs
<1>6. next \in Nat
  BY <1>3, <1>4, <1>5 DEF HunkRow
<1>7. Taken' = Append(Taken, hs[hunk])
  <2>1. hunk' # 1 /\ hunk' - 1 = hunk
    BY <1>2, <1>3
  <2>2. Taken' = SubSeq(hs, 1, hunk)
    BY <1>2, <2>1 DEF Taken, hs
  <2> QED
    BY <1>4, <2>2
<1>8. Bounding!Bytes(Taken') = Bounding!Bytes(Taken) + next /\ Bounding!Bytes(Taken) \in Nat
  <2>1. Taken = <<>> <=> hunk = 1
    BY <1>3, EmptySeq
  <2>2. Bounding!Bytes(Taken') = Bounding!Bytes(Taken) + hs[hunk].bytes
                                   + (IF Taken = <<>> THEN 0 ELSE 1)
    BY <1>3, <1>4, <1>7, BytesSteps
  <2>3. Bounding!Bytes(Taken) \in Nat /\ hs[hunk].bytes \in Nat
    BY <1>3, <1>4, BytesSteps DEF HunkRow
  <2> HIDE DEF next
  <2> QED
    BY <1>5, <2>1, <2>2, <2>3
<1> HIDE DEF next
<1>9. /\ ~(Bounding!HunksOf(kept) + hunk > MaxHunks)
      /\ ~(fileBytes + next > MaxFile) /\ ~(next > remaining)
  BY <1>2, Zenon DEF Bounding!Exceeded, next
<1>10. {title, body, remaining, fileBytes, patchBytes} \subseteq Nat
  BY <1>1 DEF BoundTypes
<1>11. /\ Bounding!HunksOf(kept) \in Nat /\ Bounding!BytesOf(kept) \in Nat
  BY <1>1, EmptySeq, FilesAppend DEF BoundTypes
<1>12. /\ remaining' \in Nat /\ fileBytes' \in Nat /\ patchBytes' \in Nat
  BY <1>2, <1>6, <1>9, <1>10 DEF next
<1>13. BoundTypes'
  <2>1. {title', body', remaining', fileBytes', patchBytes'} \subseteq Nat
    BY <1>2, <1>10, <1>12
  <2>2. hunk' \in Nat \ {0}
    BY <1>2, <1>3
  <2> QED
    BY <1>1, <1>2, <2>1, <2>2 DEF BoundTypes
<1>14. Progress'
  <2>1. hunk' <= Len(hs) + 1
    BY <1>2, <1>3 DEF hs
  <2>2. Bounding!Selected' = Bounding!Selected
    BY <1>2 DEF Bounding!Selected
  <2>3. file \in Nat /\ Bounding!Selected \in Nat
    BY <1>1, SourceIs DEF BoundTypes
  <2>4. Len(kept') = file' - 1 /\ file' <= Bounding!Selected' + 1
    BY <1>1, <1>2, <2>2 DEF Progress
  <2>5. ~(file' > Bounding!Selected')
    BY <1>2, <2>2, <2>3
  <2> QED
    BY <1>2, <2>1, <2>4, <2>5 DEF Progress, hs
<1>15. Counted'
  <2>1. /\ fileBytes = Bounding!Bytes(Taken)
        /\ patchBytes = Bounding!BytesOf(kept) + fileBytes
        /\ title + body + patchBytes + remaining <= MaxTotal
        /\ \A f \in 1 .. Len(kept) : Bounding!Bytes(kept[f]) <= MaxFile
    BY <1>1 DEF Counted
  <2>2. /\ fileBytes' = fileBytes + next /\ patchBytes' = patchBytes + next
        /\ remaining' = remaining - next
    BY <1>2 DEF next
  <2>3. fileBytes' = Bounding!Bytes(Taken')
    BY <1>8, <2>1, <2>2
  <2>4. fileBytes' <= MaxFile
    BY <1>6, <1>9, <1>10, <2>2, Limits
  <2>5. patchBytes' = Bounding!BytesOf(kept') + fileBytes'
    <3>1. ASSUME NEW p \in Nat, NEW b \in Nat, NEW n \in Nat, NEW k \in Nat, p = k + b
          PROVE  p + n = k + (b + n)
      BY <3>1
    <3>2. patchBytes \in Nat /\ fileBytes \in Nat /\ kept' = kept
      BY <1>2, <1>10
    <3> QED
      BY <1>6, <1>11, <2>1, <2>2, <3>1, <3>2
  <2>6. title' + body' + patchBytes' + remaining' <= MaxTotal
    <3>1. ASSUME NEW t \in Nat, NEW b \in Nat, NEW p \in Nat, NEW r \in Nat, NEW n \in Nat,
                 t + b + p + r <= MaxTotal
          PROVE  t + b + (p + n) + (r - n) <= MaxTotal
      BY <3>1, Limits
    <3>2. title \in Nat /\ body \in Nat /\ patchBytes \in Nat /\ remaining \in Nat
          /\ title' = title /\ body' = body
      BY <1>2, <1>10
    <3> QED
      BY <1>6, <2>1, <2>2, <3>1, <3>2
  <2>7. Bounding!HunksOf(kept') + hunk' - 1 <= MaxHunks
    BY <1>2, <1>3, <1>9, <1>11, Limits
  <2> QED
    BY <1>2, <2>1, <2>3, <2>4, <2>5, <2>6, <2>7 DEF Counted
<1>16. Told'
  BY <1>1, <1>2 DEF Told, Bounding!Complete
<1>17. Bounding!PatchHasNoGap'
  BY <1>1, <1>2 DEF Bounding!PatchHasNoGap
<1> QED
  BY <1>2, <1>13, <1>14, <1>15, <1>16, <1>17
     DEF ContextIInv, Bounding!BoundingRefusesNothing, Bounding!NothingVanishesSilently,
         Bounding!AnalysisIsComplete

\* Behind the last file the counters are those of the schema.
LEMMA CountersAgree ==
    ASSUME BoundTypes, Progress, Counted, file > Bounding!Selected
    PROVE  /\ patchBytes = Bounding!BytesOf(kept)
           /\ Bounding!BytesOf(kept) \in Nat /\ Bounding!HunksOf(kept) \in Nat
           /\ Bounding!HunksOf(kept) <= MaxHunks
           /\ title + body + Bounding!BytesOf(kept) <= MaxTotal
<1>1. hunk = 1 /\ Taken = <<>> /\ fileBytes = 0
  BY BytesSteps DEF Progress, Counted, Taken
<1>2. /\ Bounding!HunksOf(kept) \in Nat /\ Bounding!BytesOf(kept) \in Nat
  BY EmptySeq, FilesAppend DEF BoundTypes
<1>3. /\ patchBytes = Bounding!BytesOf(kept) + fileBytes
      /\ title + body + patchBytes + remaining <= MaxTotal
      /\ Bounding!HunksOf(kept) + hunk - 1 <= MaxHunks
  BY DEF Counted
<1>4. patchBytes = Bounding!BytesOf(kept)
  BY <1>1, <1>2, <1>3
<1>5. title \in Nat /\ body \in Nat /\ remaining \in Nat
  BY DEF BoundTypes
<1>6. Bounding!HunksOf(kept) <= MaxHunks
  BY <1>1, <1>2, <1>3, Limits
<1>7. title + body + Bounding!BytesOf(kept) <= MaxTotal
  BY <1>2, <1>3, <1>4, <1>5, Limits
<1> QED
  BY <1>2, <1>4, <1>6, <1>7

\* Finish: only the list of exclusions can refuse what was selected.
LEMMA FinishStep == ContextIInv /\ Bounding!Finish => ContextIInv'
<1> SUFFICES ASSUME ContextIInv, Bounding!Finish PROVE ContextIInv'
  OBVIOUS
<1>1. BoundTypes /\ Progress /\ Counted /\ Told /\ Bounding!PatchHasNoGap
  BY DEF ContextIInv
<1>2. /\ phase = "selecting" /\ file > Bounding!Selected
      /\ phase' = IF Bounding!WellFormed(kept, patchBytes, exclusions)
                  THEN "fitting" ELSE "refused"
      /\ source' = source /\ file' = file /\ hunk' = hunk /\ title' = title
      /\ body' = body /\ kept' = kept /\ remaining' = remaining
      /\ fileBytes' = fileBytes /\ patchBytes' = patchBytes
      /\ exclusions' = exclusions /\ hits' = hits /\ context' = context
  BY DEF Bounding!Finish
<1>3. BoundTypes'
  BY <1>1, <1>2 DEF BoundTypes
<1>4. Progress'
  <2>1. file = Bounding!Selected + 1
    <3>1. file \in Nat /\ Bounding!Selected \in Nat /\ file <= Bounding!Selected + 1
      BY <1>1, SourceIs DEF BoundTypes, Progress
    <3> QED
      BY <1>2, <3>1
  <2>2. Bounding!Selected' = Bounding!Selected
    BY <1>2 DEF Bounding!Selected
  <2> QED
    BY <1>1, <1>2, <2>1, <2>2 DEF Progress
<1>5. Counted'
  <2>1. Taken' = Taken
    BY <1>2 DEF Taken
  <2> QED
    BY <1>1, <1>2, <2>1 DEF Counted
<1>6. Told'
  BY <1>1, <1>2 DEF Told, Bounding!Complete
<1>7. Bounding!PatchHasNoGap'
  BY <1>1, <1>2 DEF Bounding!PatchHasNoGap
<1>8. Bounding!BoundingRefusesNothing'
  <2> SUFFICES ASSUME phase' = "refused" PROVE Bounding!Total(exclusions') > MaxExclusions
    BY DEF Bounding!BoundingRefusesNothing
  <2>1. ~Bounding!WellFormed(kept, patchBytes, exclusions)
    BY <1>2
  <2>2. \A f \in DOMAIN kept : Bounding!Bytes(kept[f]) <= MaxFile
    BY <1>1, LoopIs DEF Counted
  <2>3. title + body + patchBytes <= MaxTotal
    BY <1>1, <1>2, CountersAgree
  <2>4. ~(Bounding!Total(exclusions) <= MaxExclusions)
    BY <1>1, <1>2, <2>1, <2>2, <2>3, CountersAgree DEF Bounding!WellFormed
  <2>5. Bounding!Total(exclusions) \in Nat
    BY <1>1, TotalSteps DEF BoundTypes
  <2> QED
    BY <1>2, <2>4, <2>5, Limits
<1> QED
  BY <1>2, <1>3, <1>4, <1>5, <1>6, <1>7, <1>8
     DEF ContextIInv, Bounding!NothingVanishesSilently, Bounding!AnalysisIsComplete

\* Accept: what the material leaves out is listed or marked, and the analysis
\* has read every file of the source.
LEMMA AcceptStep == ContextIInv /\ Bounding!Accept => ContextIInv'
<1> SUFFICES ASSUME ContextIInv, Bounding!Accept PROVE ContextIInv'
  OBVIOUS
<1>1. BoundTypes /\ Progress /\ Counted /\ Told /\ Bounding!PatchHasNoGap
  BY DEF ContextIInv
<1>2. /\ phase = "fitting" /\ phase' = "accepted" /\ Bounding!CoversSource
      /\ context' = Bounding!Material
      /\ source' = source /\ file' = file /\ hunk' = hunk /\ title' = title
      /\ body' = body /\ kept' = kept /\ remaining' = remaining
      /\ fileBytes' = fileBytes /\ patchBytes' = patchBytes
      /\ exclusions' = exclusions /\ hits' = hits
  BY DEF Bounding!Accept, Bounding!Builds
<1>3. file = Bounding!Selected + 1 /\ file > Bounding!Selected
  BY <1>1, <1>2, SourceIs DEF Progress
<1> DEFINE m == [title |-> title, body |-> body,
                 exclusions |-> Bounding!Total(exclusions), hits |-> hits]
<1>4. m \in Trimmable
  <2>1. Bounding!Total(exclusions) \in Nat
    BY <1>1, TotalSteps DEF BoundTypes
  <2> QED
    BY <1>1, <2>1 DEF BoundTypes, Trimmable
<1>5. m.title = title /\ m.body = body /\ m.exclusions = Bounding!Total(exclusions)
      /\ m.hits = hits /\ Bounding!Material = Bounding!Fit(m)
  BY DEF Bounding!Material
<1> HIDE DEF m
<1>6. context' \in Trimmable /\ (context' = m \/ "total_bytes" \in context'.hits)
  BY <1>2, <1>4, <1>5, FitMarks
<1>7. BoundTypes'
  <2>1. context'.hits \subseteq Bounding!Hits
    BY <1>6 DEF Trimmable
  <2> QED
    BY <1>1, <1>2, <2>1 DEF BoundTypes
<1>8. Progress'
  <2>1. Bounding!Selected' = Bounding!Selected
    BY <1>2 DEF Bounding!Selected
  <2> QED
    BY <1>1, <1>2, <1>3, <2>1 DEF Progress
<1>9. Counted'
  <2>1. Taken' = Taken
    BY <1>2 DEF Taken
  <2> QED
    BY <1>1, <1>2, <2>1 DEF Counted
<1>10. Told'
  BY <1>1, <1>2 DEF Told, Bounding!Complete
<1>11. Bounding!PatchHasNoGap'
  BY <1>1, <1>2 DEF Bounding!PatchHasNoGap
<1>12. Bounding!NothingVanishesSilently'
  <2>1. /\ \A f \in 1 .. Len(source.files) :
             f <= Len(kept) \/ f > MaxFiles => Bounding!Complete(f) \/ exclusions[f] > 0
        /\ title < source.title => "title_bytes" \in hits
        /\ body < source.body => "body_bytes" \in hits
    BY <1>1, <1>2 DEF Told
  <2>2. \A f \in DOMAIN source.files : Bounding!Complete(f) \/ exclusions[f] > 0
    <3> TAKE f \in DOMAIN source.files
    <3>1. f \in 1 .. Len(source.files) /\ (f <= Bounding!Selected \/ f > MaxFiles)
      BY <1>1, SourceIs
    <3>2. Len(kept) = Bounding!Selected
      BY <1>1, <1>3, SourceIs, LoopIs
    <3> QED
      BY <2>1, <3>1, <3>2
  <2>3. CASE context' = m
    <3>1. context'.exclusions = Bounding!Total(exclusions) /\ context'.hits = hits
          /\ context'.title = title /\ context'.body = body
      BY <1>5, <2>3
    <3> QED
      BY <1>2, <2>1, <2>2, <3>1 DEF Bounding!NothingVanishesSilently, Bounding!Complete
  <2>4. CASE "total_bytes" \in context'.hits
    BY <2>4 DEF Bounding!NothingVanishesSilently
  <2> QED
    BY <1>6, <2>3, <2>4
<1>13. Bounding!AnalysisIsComplete'
  <2>1. \A f \in Bounding!Texts : f \in Bounding!Analyzed /\ Bounding!Anchors(f) # {}
    BY <1>1, <1>2, <1>3, CountersAgree, CoveredIsShown DEF BoundTypes
  <2>2. /\ Bounding!Texts' = Bounding!Texts /\ Bounding!Analyzed' = Bounding!Analyzed
        /\ \A f : Bounding!Anchors(f)' = Bounding!Anchors(f)
    BY <1>2 DEF Bounding!Texts, Bounding!Analyzed, Bounding!Anchors
  <2> QED
    BY <2>1, <2>2 DEF Bounding!AnalysisIsComplete
<1> QED
  BY <1>2, <1>7, <1>8, <1>9, <1>10, <1>11, <1>12, <1>13
     DEF ContextIInv, Bounding!BoundingRefusesNothing

\* What cannot be built has text left to give up.
LEMMA TextIsLeft ==
    ASSUME ContextIInv, phase = "fitting", ~Bounding!Builds
    PROVE  Bounding!Texts # {}
<1> SUFFICES ASSUME Bounding!Texts = {} PROVE Bounding!Builds
  OBVIOUS
<1>1. BoundTypes /\ Progress /\ Counted
  BY DEF ContextIInv
<1>2. file > Bounding!Selected
  BY <1>1, SourceIs DEF Progress
<1>3. Bounding!FilesSize = 0 /\ Bounding!CoversSource
  BY <1>1, <1>2, CountersAgree, NothingShown DEF BoundTypes
<1> DEFINE m == [title |-> title, body |-> body,
                 exclusions |-> Bounding!Total(exclusions), hits |-> hits]
<1>4. m \in Trimmable
  <2>1. Bounding!Total(exclusions) \in Nat
    BY <1>1, TotalSteps DEF BoundTypes
  <2> QED
    BY <1>1, <2>1 DEF BoundTypes, Trimmable
<1>5. Bounding!Material = Bounding!Fit(m)
  BY DEF Bounding!Material
<1> HIDE DEF m
<1> QED
  BY <1>3, <1>4, <1>5, FitMarks DEF Bounding!Builds

\* Reduce: there is text to take from; it is listed and marked, and again
\* only the list of exclusions can refuse the rest.
LEMMA ReduceStep == ContextIInv /\ Bounding!Reduce => ContextIInv'
<1> SUFFICES ASSUME ContextIInv, Bounding!Reduce PROVE ContextIInv'
  OBVIOUS
<1>1. BoundTypes /\ Progress /\ Counted /\ Told /\ Bounding!PatchHasNoGap
  BY DEF ContextIInv
<1>2. phase = "fitting" /\ ~Bounding!Builds
  BY DEF Bounding!Reduce
<1>3. Bounding!Texts # {}
  BY <1>2, TextIsLeft
<1> DEFINE f == Bounding!Max(Bounding!Texts)
<1>4. /\ kept' = [kept EXCEPT ![f] = Bounding!Without(f)]
      /\ exclusions' = [exclusions EXCEPT ![f] = @ + 1]
      /\ patchBytes' = Bounding!BytesOf(kept') /\ hits' = hits \cup {"total_bytes"}
      /\ phase' = IF Bounding!WellFormed(kept, patchBytes, exclusions)'
                  THEN "fitting" ELSE "refused"
      /\ source' = source /\ file' = file /\ hunk' = hunk /\ title' = title
      /\ body' = body /\ remaining' = remaining /\ fileBytes' = fileBytes
      /\ context' = context
  BY <1>3 DEF Bounding!Reduce, Bounding!WellFormed
<1>5. /\ Len(kept) \in Nat /\ DOMAIN kept = 1 .. Len(kept)
      /\ kept \in Seq(Seq(HunkRow))
      /\ \A g \in 1 .. Len(kept) : g \in 1 .. Len(source.files) /\ kept[g] \in Seq(HunkRow)
  BY <1>1, LoopIs DEF BoundTypes
<1>6. f \in Bounding!Texts
  <2>1. Bounding!Texts \subseteq 0 .. Len(kept)
    BY <1>5 DEF Bounding!Texts
  <2>2. \E x \in Bounding!Texts : \A y \in Bounding!Texts : x >= y
    BY <1>3, <1>5, <2>1, GreatestNumber
  <2> QED
    BY <2>2 DEF Bounding!Max
<1> HIDE DEF f
<1>7. /\ f \in 1 .. Len(kept) /\ f \in 1 .. Len(source.files)
      /\ kept[f] \in Seq(HunkRow) /\ kept[f] # <<>>
  BY <1>5, <1>6 DEF Bounding!Texts
<1> DEFINE hs == Bounding!Without(f)
<1>8. /\ hs \in Seq(HunkRow) /\ Len(hs) = Len(kept[f]) - 1
      /\ hs = SubSeq(kept[f], 1, Len(kept[f]) - 1)
      /\ Bounding!Bytes(hs) <= Bounding!Bytes(kept[f])
  BY <1>7, FrontShrinks DEF Bounding!Without
<1> HIDE DEF hs
<1>9. kept' = [kept EXCEPT ![f] = hs]
  BY <1>4 DEF hs
<1>10. /\ kept' \in Seq(Seq(HunkRow)) /\ Len(kept') = Len(kept)
       /\ \A g \in 1 .. Len(kept) : kept'[g] = IF g = f THEN hs ELSE kept[g]
  BY <1>5, <1>7, <1>8, <1>9, ExceptSeq
<1>11. /\ exclusions' \in Seq(Nat) /\ Len(exclusions') = Len(source.files)
       /\ exclusions'[f] > 0
       /\ \A g \in 1 .. Len(source.files) : exclusions[g] > 0 => exclusions'[g] > 0
  BY <1>1, <1>4, <1>7, OneMore
<1>12. /\ file > Bounding!Selected /\ file = Bounding!Selected + 1 /\ hunk = 1
       /\ Taken = <<>> /\ Taken' = <<>> /\ fileBytes = 0
  <2>1. file > Bounding!Selected /\ file = Bounding!Selected + 1 /\ hunk = 1
    BY <1>1, <1>2, SourceIs DEF Progress
  <2> QED
    BY <1>1, <1>4, <2>1, BytesSteps DEF Taken, Counted
<1>13. /\ Bounding!HunksOf(kept') <= Bounding!HunksOf(kept)
       /\ Bounding!BytesOf(kept') <= Bounding!BytesOf(kept)
       /\ Bounding!HunksOf(kept') \in Nat /\ Bounding!BytesOf(kept') \in Nat
  <2>1. Len(hs) <= Len(kept[f])
    BY <1>7, <1>8, LenProperties
  <2>2. /\ Bounding!HunksOf(kept') <= Bounding!HunksOf(kept)
        /\ Bounding!BytesOf(kept') <= Bounding!BytesOf(kept)
    BY <1>5, <1>7, <1>8, <1>9, <2>1, FilesShrink
  <2> QED
    BY <1>10, <2>2, EmptySeq, FilesAppend
<1>14. \A g \in 1 .. Len(kept') : Bounding!Bytes(kept'[g]) <= MaxFile
  <2> TAKE g \in 1 .. Len(kept')
  <2>1. Bounding!Bytes(kept[f]) <= MaxFile /\ (g # f => Bounding!Bytes(kept[g]) <= MaxFile)
    BY <1>1, <1>7, <1>10 DEF Counted
  <2>2. CASE g = f
    <3>1. Bounding!Bytes(hs) \in Nat /\ Bounding!Bytes(kept[f]) \in Nat /\ kept'[g] = hs
      BY <1>7, <1>8, <1>10, <2>2, BytesSteps
    <3> QED
      BY <1>8, <2>1, <3>1, Limits
  <2>3. CASE g # f
    BY <1>10, <2>1, <2>3
  <2> QED
    BY <2>2, <2>3
<1>15. /\ Bounding!HunksOf(kept') <= MaxHunks
       /\ title + body + Bounding!BytesOf(kept') <= MaxTotal
       /\ title + body + Bounding!BytesOf(kept') + remaining <= MaxTotal
  <2>1. /\ Bounding!BytesOf(kept) \in Nat /\ Bounding!HunksOf(kept) \in Nat
        /\ Bounding!HunksOf(kept) <= MaxHunks
        /\ patchBytes = Bounding!BytesOf(kept)
    BY <1>1, <1>12, CountersAgree
  <2>2. title + body + patchBytes + remaining <= MaxTotal
        /\ title \in Nat /\ body \in Nat /\ remaining \in Nat
    BY <1>1 DEF Counted, BoundTypes
  <2>3. ASSUME NEW t \in Nat, NEW b \in Nat, NEW p \in Nat, NEW q \in Nat, NEW r \in Nat,
               t + b + p + r <= MaxTotal, q <= p
        PROVE  t + b + q <= MaxTotal /\ t + b + q + r <= MaxTotal
    BY <2>3, Limits
  <2>4. Bounding!HunksOf(kept') <= MaxHunks
    BY <1>13, <2>1, Limits
  <2> QED
    BY <1>13, <2>1, <2>2, <2>3, <2>4
<1>16. BoundTypes'
  <2>1. {title', body', remaining', fileBytes', patchBytes'} \subseteq Nat
    <3>1. {title, body, remaining, fileBytes} \subseteq Nat
      BY <1>1 DEF BoundTypes
    <3> QED
      BY <1>4, <1>13, <3>1
  <2>2. hits' \subseteq Bounding!Hits
    <3>1. "total_bytes" \in Bounding!Hits
      BY DEF Bounding!Hits
    <3> QED
      BY <1>1, <1>4, <3>1 DEF BoundTypes
  <2>3. phase' \in {"start", "selecting", "fitting", "accepted", "refused"}
    BY <1>4
  <2>4. source' \in Sources /\ file' \in Nat \ {0} /\ hunk' \in Nat \ {0}
        /\ context'.hits \subseteq Bounding!Hits
    BY <1>1, <1>4 DEF BoundTypes
  <2>5. Len(exclusions') = Len(source'.files)
    BY <1>4, <1>11
  <2> QED
    BY <1>10, <1>11, <2>1, <2>2, <2>3, <2>4, <2>5 DEF BoundTypes
<1>17. phase' \in {"fitting", "refused"}
  BY <1>4
<1>18. Progress'
  <2>1. Bounding!Selected' = Bounding!Selected
    BY <1>4 DEF Bounding!Selected
  <2>2. Len(kept') = file' - 1
    BY <1>1, <1>4, <1>10 DEF Progress
  <2>3. file' = Bounding!Selected' + 1 /\ hunk' = 1 /\ Bounding!Selected \in Nat
    BY <1>1, <1>4, <1>12, <2>1, SourceIs
  <2>4. ~(file' <= Bounding!Selected') /\ file' <= Bounding!Selected' + 1
    BY <2>1, <2>3
  <2> QED
    BY <1>17, <2>2, <2>3, <2>4 DEF Progress
<1>19. Counted'
  <2>1. fileBytes' = 0 /\ Bounding!Bytes(Taken') = 0 /\ 0 <= MaxFile
    BY <1>4, <1>12, BytesSteps, Limits
  <2>2. patchBytes' = Bounding!BytesOf(kept') + fileBytes'
    BY <1>4, <1>13, <2>1
  <2>3. title' + body' + patchBytes' + remaining' <= MaxTotal
    BY <1>4, <1>15
  <2>4. Bounding!HunksOf(kept') + hunk' - 1 <= MaxHunks
    BY <1>4, <1>12, <1>13, <1>15, Limits
  <2> QED
    BY <1>14, <2>1, <2>2, <2>3, <2>4 DEF Counted
<1>20. Told'
  <2>1. /\ \A g \in 1 .. Len(source.files) :
             g <= Len(kept) \/ g > MaxFiles => Bounding!Complete(g) \/ exclusions[g] > 0
        /\ title < source.title => "title_bytes" \in hits
        /\ body < source.body => "body_bytes" \in hits
    BY <1>1, <1>2 DEF Told
  <2>2. ASSUME NEW g \in 1 .. Len(source'.files), g <= Len(kept') \/ g > MaxFiles
        PROVE  Bounding!Complete(g)' \/ exclusions'[g] > 0
    <3>1. CASE g = f
      BY <1>11, <3>1
    <3>2. CASE g # f
      <4>1. g \in 1 .. Len(source.files) /\ (Bounding!Complete(g) \/ exclusions[g] > 0)
        BY <1>4, <1>10, <2>1, <2>2
      <4>2. Bounding!Complete(g) => Bounding!Complete(g)'
        BY <1>4, <1>5, <1>10, <3>2, <4>1 DEF Bounding!Complete
      <4> QED
        BY <1>11, <4>1, <4>2
    <3> QED
      BY <3>1, <3>2
  <2>3. /\ title' < source'.title => "title_bytes" \in hits'
        /\ body' < source'.body => "body_bytes" \in hits'
    BY <1>4, <2>1
  <2> QED
    BY <2>2, <2>3 DEF Told
<1>21. Bounding!PatchHasNoGap'
  <2>1. ASSUME NEW g \in DOMAIN kept'
        PROVE  kept'[g] = SubSeq(source'.files[g].hunks, 1, Len(kept'[g]))
    <3>1. g \in 1 .. Len(kept) /\ kept[g] = SubSeq(source.files[g].hunks, 1, Len(kept[g]))
      <4>1. DOMAIN kept' = DOMAIN kept
        BY <1>9
      <4> QED
        BY <1>1, <1>5, <2>1, <4>1 DEF Bounding!PatchHasNoGap
    <3>2. CASE g = f
      <4>1. SubSeq(kept[f], 1, Len(kept[f]) - 1)
              = SubSeq(source.files[f].hunks, 1, Len(kept[f]) - 1)
        BY <1>7, <3>1, <3>2, FrontOfPrefix
      <4> QED
        BY <1>4, <1>8, <1>10, <3>1, <3>2, <4>1
    <3>3. CASE g # f
      BY <1>4, <1>10, <3>1, <3>3
    <3> QED
      BY <3>2, <3>3
  <2> QED
    BY <2>1 DEF Bounding!PatchHasNoGap
<1>22. Bounding!BoundingRefusesNothing'
  <2> SUFFICES ASSUME phase' = "refused" PROVE Bounding!Total(exclusions') > MaxExclusions
    BY DEF Bounding!BoundingRefusesNothing
  <2>1. ~Bounding!WellFormed(kept, patchBytes, exclusions)'
    BY <1>4
  <2>2. \A g \in DOMAIN kept' : Bounding!Bytes(kept'[g]) <= MaxFile
    BY <1>10, <1>14, LenProperties
  <2>3. title' + body' + patchBytes' <= MaxTotal
    BY <1>4, <1>15
  <2>4. ~(Bounding!Total(exclusions') <= MaxExclusions)
    BY <1>4, <1>15, <2>1, <2>2, <2>3 DEF Bounding!WellFormed
  <2>5. Bounding!Total(exclusions') \in Nat
    BY <1>11, TotalSteps
  <2> QED
    BY <2>4, <2>5, Limits
<1> QED
  BY <1>16, <1>17, <1>18, <1>19, <1>20, <1>21, <1>22
     DEF ContextIInv, Bounding!NothingVanishesSilently, Bounding!AnalysisIsComplete

\* Every step keeps it, and so does standing still beside the jobs.
LEMMA StepContext ==
    ContextIInv /\ [PartNext]_<<part, vars, boundVars>> => ContextIInv'
<1>1. ASSUME ContextIInv, UNCHANGED boundVars PROVE ContextIInv'
  <2> USE <1>1 DEF boundVars
  <2>1. BoundTypes'
    BY DEF ContextIInv, BoundTypes
  <2>2. Progress'
    BY DEF ContextIInv, Progress, Bounding!Selected
  <2>3. Counted'
    BY DEF ContextIInv, Counted, Taken
  <2>4. Told'
    BY DEF ContextIInv, Told, Bounding!Complete
  <2>5. Bounding!PatchHasNoGap' /\ Bounding!BoundingRefusesNothing'
    BY DEF ContextIInv, Bounding!PatchHasNoGap, Bounding!BoundingRefusesNothing
  <2>6. Bounding!NothingVanishesSilently'
    BY DEF ContextIInv, Bounding!NothingVanishesSilently, Bounding!Complete
  <2>7. Bounding!AnalysisIsComplete'
    BY DEF ContextIInv, Bounding!AnalysisIsComplete, Bounding!Texts, Bounding!Analyzed,
           Bounding!Anchors
  <2> QED
    BY <2>1, <2>2, <2>3, <2>4, <2>5, <2>6, <2>7 DEF ContextIInv
<1>2. ContextIInv /\ Bounding!Next => ContextIInv'
  BY StartStep, SkipStep, IncludeStep, EndFileStep, FinishStep, AcceptStep, ReduceStep
     DEF Bounding!Next
<1>3. [PartNext]_<<part, vars, boundVars>> => Bounding!Next \/ UNCHANGED boundVars
  BY DEF PartNext
<1> QED
  BY <1>1, <1>2, <1>3

\* The budgets bound every counter, because the counters add up to them.
LEMMA ContextBounds == ContextIInv => ContextInv
<1> SUFFICES ASSUME ContextIInv PROVE ContextInv
  OBVIOUS
<1>1. BoundTypes /\ Progress /\ Counted
  BY DEF ContextIInv
<1>2. /\ title \in Nat /\ body \in Nat /\ remaining \in Nat /\ fileBytes \in Nat
      /\ patchBytes \in Nat /\ file \in Nat \ {0}
  BY <1>1 DEF BoundTypes
<1>3. Bounding!BytesOf(kept) \in Nat
  BY <1>1, EmptySeq, FilesAppend DEF BoundTypes
<1>4. title + body + patchBytes + remaining <= MaxTotal
      /\ patchBytes = Bounding!BytesOf(kept) + fileBytes
  BY <1>1 DEF Counted
<1>5. {title, body, remaining, fileBytes, patchBytes} \subseteq 0 .. MaxTotal
  BY <1>2, <1>3, <1>4, Limits
<1>6. file \in 1 .. Bounding!Selected + 1 /\ Len(kept) <= Bounding!Selected
  BY <1>1, <1>2, SourceIs, LoopIs DEF Progress
<1>7. DOMAIN exclusions = DOMAIN source.files
  BY <1>1, SourceIs, LenProperties DEF BoundTypes
<1>8. Bounding!TypeOK
  BY <1>1, <1>5, <1>6, <1>7 DEF Bounding!TypeOK, BoundTypes
<1> QED
  BY <1>8 DEF ContextIInv, ContextInv, Bounding!ContextInv

\* A behaviour of the two parts together is one of the jobs, and one of the
\* bounding: neither touches the other's variables.
THEOREM PartsKeepApart == PartSpec => Spec /\ Bounding!Spec
<1>1. PartInit => Init /\ Bounding!Init
  BY DEF PartInit
<1>2. [PartNext]_<<part, vars, boundVars>> => [Next]_vars /\ [Bounding!Next]_(Bounding!vars)
  BY DEF PartNext, boundVars, Bounding!vars
<1> QED
  BY <1>1, <1>2, PTL DEF PartSpec, Spec, Bounding!Spec

\* What the provider is shown of a pull request adds up within every budget,
\* nothing is left out of it without a trace, and nothing but an overlong list
\* of exclusions refuses it: for every pull request, every limit and every cost
\* (buildBoundedRevisionSourceV1, fitBoundedSourceToProviderEnvelope,
\* fitGenerationProviderMaterial).
THEOREM ContextInvariant == PartSpec => []ContextInv
<1>1. PartInit => ContextIInv
  BY InitContext DEF PartInit
<1> QED
  BY <1>1, StepContext, ContextBounds, PTL DEF PartSpec
===============================================================================
