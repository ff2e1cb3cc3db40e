--------------------------- MODULE Remote_proofs ---------------------------
(***************************************************************************)
(* Proofs about a provider call (RemoteCall), for any deadline, number of  *)
(* attempts, delays and reserve, about the GitHub adapters (GithubClient), *)
(* for any calls, tokens, pages and moves of the pull request, and about   *)
(* the phone with its recording (PhoneRecording), for any blobs, limit and *)
(* lost, late or repeated requests: the inductive invariant of each, its   *)
(* steps, and what it promises.  A provider call is also shown to          *)
(* implement the abstract one of DeadlineCall.                             *)
(***************************************************************************)
EXTENDS MCRemote, FiniteSetTheorems, SequenceTheorems, TLAPS

-----------------------------------------------------------------------------
(* A provider call: the inductive invariant.                               *)

\* A repair is the semantic provider's, a second invocation a judge's, and only
\* who has a second provider hops.
KindsFit ==
  /\ phase = "repair" => setup.kind = "semantic"
  /\ invocation = 2 => setup.kind = "judge"
  /\ side = "fallback" => setup.hop
  /\ setup.hop => setup.kind \in {"semantic", "judge"}

\* An invocation is under way.
Invoking == pc \in {"request", "failed", "result"}

\* The requests that the invocations before this one may have sent.
Earlier ==
  IF side = "fallback"
  THEN IF phase = "repair" \/ invocation = 2 THEN 3 * MaxAttempts
       ELSE IF setup.kind = "semantic" THEN MaxAttempts ELSE 2 * MaxAttempts
  ELSE IF phase = "repair" THEN 2 * MaxAttempts
       ELSE IF invocation = 2 THEN MaxAttempts ELSE 0

\* The requests of this invocation, while it lasts.
Pending == IF pc = "request" THEN attempt - 1 ELSE IF pc = "failed" THEN attempt ELSE 0

\* Every request belongs to one of at most four invocations.
RequestsCounted ==
  /\ pc = "service" => sent <= (IF phase = "initial" THEN 0 ELSE 2 * MaxAttempts)
  /\ pc \in {"request", "failed"} => sent <= Earlier + Pending
  /\ pc = "result" => sent <= Earlier + MaxAttempts

\* What an ended invocation adds to the stored count was sent in it.
ReportsCounted == reported + Pending <= sent

\* An invocation keeps its limit, and the first provider's leaves the reserve.
KeepsLimit ==
  Invoking =>
    /\ now <= limit + MaxLate
    /\ side = "primary" /\ setup.hop =>
         limit <= Deadline - Provider!Lesser(Reserve, Deadline - begun - MinPrimary)

\* Valid content was credited to its writer before it is accepted.
ContentIsCredited ==
  /\ pc # "done" => outcome = None
  /\ pc = "result" /\ last = "valid" => answeredBy = producer

\* A valid answer is the provider's whose turn it is, was asked for, and came in
\* time.
AnswerIsFresh ==
  pc = "result" /\ last = "valid" =>
    answeredBy = side /\ sent > 0 /\ now <= Deadline

\* What every step of a call keeps: the promises of RemoteCall, and how requests,
\* limits and credit are accounted for while an invocation runs.
ProviderIInv ==
  /\ Provider!TypeOK
  /\ KindsFit
  /\ RequestsCounted
  /\ Provider!RequestsAreBounded
  /\ ReportsCounted
  /\ KeepsLimit
  /\ ContentIsCredited
  /\ AnswerIsFresh
  /\ Provider!AttributionIsHonest
  /\ Provider!RecommendationIsEarned

\* The type invariant, in parts.
SetupType == /\ setup \in Provider!Setups
             /\ phase \in {"initial", "repair"}
             /\ side \in {"primary", "fallback"} /\ invocation \in {1, 2}
ClockType == /\ now \in 0..(Deadline + MaxLate)
             /\ begun \in 0..Deadline /\ limit \in 0..Deadline
CountType == /\ attempt \in 1..MaxAttempts /\ sent \in Nat /\ reported \in 0..6
EndType == /\ pc \in {"service", "request", "failed", "result", "done"}
           /\ last \in Provider!Answers \cup Provider!Results \cup {None}
           /\ code \in {None, "deadline", "other"}
CreditType == /\ answeredBy \in {"primary", "fallback"}
              /\ producer \in {None, "primary", "fallback"}
              /\ outcome \in {None, "generated", "repaired", "fallback", "failed"}
CandidateType == candidate \in Provider!Candidates \cup {None}

\* The type invariant is the conjunction of its parts (RemoteCall).
LEMMA CallTypes ==
  Provider!TypeOK <=>
    /\ SetupType /\ ClockType /\ CountType
    /\ EndType /\ CreditType /\ CandidateType
<1>1. invocation \in 1..2 <=> invocation \in {1, 2}
  OBVIOUS
<1> QED
  BY <1>1 DEF Provider!TypeOK, SetupType, ClockType, CountType, EndType,
      CreditType, CandidateType

\* Which provider kinds exist: only the language models have a second
\* provider, only the judge sees frames (hetzner-semantic.ts,
\* hetzner-multimodal.ts).
LEMMA SetupKinds ==
    ASSUME setup \in Provider!Setups
    PROVE  /\ setup.kind \in {"github", "transcription", "semantic", "judge"}
           /\ setup.hop \in BOOLEAN
           /\ setup.hop => setup.kind \in {"semantic", "judge"}
           /\ setup.vision # "none" => setup.kind = "judge"
  BY DEF Provider!Setups

\* No request outlasts what is left of its limit.
LEMMA RequestEnds ==
    ASSUME ClockType, pc = "request", now < limit, NEW answer \in Provider!Answers,
           NEW spent \in Provider!Durations(answer)
    PROVE  spent \in Nat /\ now + spent <= limit
<1> USE DurationsAssumption DEF ClockType
<1>1. CASE Provider!Streams
  BY <1>1 DEF Provider!Durations, Provider!StreamDurations, Provider!Answers
<1>2. CASE ~Provider!Streams
  BY <1>2 DEF Provider!Durations, Provider!TimedDurations, Provider!Answers,
      Provider!Lesser
<1> QED
  BY <1>1, <1>2

\* A request is sent before its limit, counted once, and over by its limit
\* (the AbortSignal of the attempt).
LEMMA RequestTakes ==
    ASSUME ClockType, Provider!Request
    PROVE  /\ now' \in Nat /\ now <= now' /\ now' <= limit /\ now < limit
           /\ sent' = sent + 1 /\ pc = "request"
           /\ UNCHANGED <<setup, phase, side, invocation, begun, limit, attempt,
                         outcome>>
<1>1. PICK answer \in Provider!Answers :
           \E spent \in Provider!Durations(answer) : now' = now + spent
  BY DEF Provider!Request
<1>2. PICK spent \in Provider!Durations(answer) : now' = now + spent
  BY <1>1
<1>3. pc = "request" /\ now < limit
  BY DEF Provider!Request
<1>4. spent \in Nat /\ now + spent <= limit
  BY <1>3, RequestEnds
<1> QED
  BY <1>2, <1>3, <1>4, DurationsAssumption DEF Provider!Request, ClockType

\* A request ends in content, in a failure that may be retried, or ends the
\* invocation with a classified failure.
LEMMA RequestBrings ==
    ASSUME Provider!Request
    PROVE  \/ \E result \in {"valid", "invalid"} : Provider!Content(result)
           \/ /\ pc' = "failed" /\ last' \in Provider!Answers
              /\ UNCHANGED <<code, reported, candidate, producer, answeredBy>>
           \/ /\ \E answer \in Provider!Answers : \E error \in {"deadline", "other"} :
                   Provider!End(Provider!Classified(answer), error, attempt)
                   /\ answeredBy' \in {answeredBy, side}
              /\ UNCHANGED <<candidate, producer>>
<1>1. PICK answer \in Provider!Answers : \E spent \in Provider!Durations(answer) :
       /\ now' = now + spent
       /\ \/ /\ answer = "content"
             /\ \E result \in {"valid", "invalid"} : Provider!Content(result)
          \/ /\ answer # "content" /\ Provider!Retried(answer)
             /\ pc' = "failed" /\ last' = answer
             /\ UNCHANGED <<code, reported, candidate, producer, answeredBy>>
          \/ /\ answer # "content" /\ ~Provider!Retried(answer)
             /\ answer = "truncated" => Provider!Streams
             /\ answer \in {"protocol", "refused"} => setup.kind # "github"
             /\ Provider!End(Provider!Classified(answer),
                    IF answer = "deadline" THEN "deadline" ELSE "other",
                    attempt)
             /\ UNCHANGED <<candidate, producer>>
             /\ answeredBy' = IF Provider!Classified(answer) = "invalid" THEN Provider!Credited
                              ELSE answeredBy
  BY DEF Provider!Request
<1> QED
  BY <1>1 DEF Provider!Credited

\* Every failure is classified (providerFailureFor).
LEMMA ClassifiedIsResult ==
    ASSUME NEW answer
    PROVE  Provider!Classified(answer) \in
             {"vision", "transport", "review", "invalid", "terminal"}
  BY DEF Provider!Classified

\* An invocation that ends with an error adds what it sent to the stored count
\* (transportAttemptCount).
LEMMA EndDoes ==
    ASSUME CountType, NEW result, NEW error, NEW count \in Nat,
           Provider!End(result, error, count)
    PROVE  /\ pc' = "result" /\ last' = result /\ code' = error
           /\ reported' \in 0..6 /\ reported' <= reported + count
  BY DEF Provider!End, CountType, Provider!AddReported, Provider!Lesser

\* No step changes the kind of call; phase, side and invocation stay in type.
LEMMA SetupStep ==
    ASSUME SetupType, ClockType, [Provider!Next]_(Provider!vars)
    PROVE  SetupType'
<1> USE DEF SetupType
<1>1. CASE Provider!Request
  BY <1>1, RequestTakes
<1>2. CASE \/ Provider!Invoke \/ Provider!AskJudgeAgain \/ Provider!Hop
           \/ Provider!RepairSemantic
  BY <1>2 DEF Provider!Invoke, Provider!AskJudgeAgain, Provider!Hop,
      Provider!RepairSemantic
<1>3. CASE UNCHANGED <<setup, phase, side, invocation>>
  BY <1>3
<1>4. \/ Provider!Request \/ Provider!Invoke \/ Provider!AskJudgeAgain \/ Provider!Hop
      \/ Provider!RepairSemantic
      \/ UNCHANGED <<setup, phase, side, invocation>>
  BY DEF Provider!Next, Provider!vars, Provider!Expire, Provider!Exhausted,
      Provider!Retry, Provider!Accept, Provider!GiveUp, Provider!SkipJudge
<1> QED
  BY <1>1, <1>2, <1>3, <1>4

\* Before a retry the call either waits and wakes at most MaxLate after its
\* limit, or gives up because the wait does not fit.
LEMMA RetryWaits ==
    ASSUME ClockType, CountType, Provider!Retry
    PROVE  /\ pc = "failed" /\ attempt < MaxAttempts
           /\ \/ /\ \E error \in {"deadline", "other"} :
                      Provider!End("transport", error, attempt)
                 /\ UNCHANGED <<now, attempt>>
              \/ /\ now < limit
                 /\ now' \in Nat /\ now <= now' /\ now' <= limit + MaxLate
                 /\ attempt' = attempt + 1 /\ pc' = "request" /\ last' = None
                 /\ UNCHANGED <<code, reported>>
           /\ UNCHANGED <<setup, phase, side, invocation, begun, limit, sent, answeredBy,
                          producer, candidate, outcome>>
<1>1. /\ pc = "failed" /\ attempt < MaxAttempts
      /\ UNCHANGED <<setup, phase, side, invocation, begun, limit, sent, answeredBy,
                     producer, candidate, outcome>>
  BY DEF Provider!Retry
<1>2. PICK delay \in Provider!Delays :
       IF limit - now <= delay
       THEN /\ Provider!End("transport",
                   IF setup.kind = "github" THEN "other" ELSE "deadline",
                   Provider!SentSoFar)
            /\ UNCHANGED <<now, attempt>>
       ELSE /\ \E over \in 0..MaxLate : now' = now + delay + over
            /\ attempt' = attempt + 1 /\ pc' = "request" /\ last' = None
            /\ UNCHANGED <<code, reported>>
  BY DEF Provider!Retry
<1>3. delay \in Nat
  BY DurationsAssumption DEF Provider!Delays, Provider!Asked, Provider!Greater
<1>4. Provider!SentSoFar = attempt
  BY <1>1 DEF Provider!SentSoFar
<1>5. CASE limit - now <= delay
  BY <1>1, <1>2, <1>4, <1>5
<1>6. CASE ~(limit - now <= delay)
  <2>1. now < limit /\ now' \in Nat /\ now <= now' /\ now' <= limit + MaxLate
    BY <1>2, <1>3, <1>6, DurationsAssumption DEF ClockType
  <2> QED
    BY <1>1, <1>2, <1>6, <2>1
<1> QED
  BY <1>5, <1>6

\* The limit of a provider lies between now and the deadline, and before the
\* reserve of the second provider (reserveTransportFallbackDeadline).
LEMMA ReservedFits ==
    ASSUME ClockType, setup \in Provider!Setups, now < Deadline
    PROVE  /\ Provider!Reserved \in 0..Deadline /\ now <= Provider!Reserved
           /\ setup.hop =>
                Provider!Reserved <=
                    Deadline - Provider!Lesser(Reserve, Deadline - now - MinPrimary)
  BY DurationsAssumption, SetupKinds DEF ClockType, Provider!Reserved, Provider!Lesser

\* The clock never passes the deadline by more than the sleeper is late.
LEMMA ClockStep ==
    ASSUME SetupType, ClockType, CountType, [Provider!Next]_(Provider!vars)
    PROVE  ClockType'
<1> USE DurationsAssumption DEF ClockType
<1>1. CASE Provider!Request
  BY <1>1, RequestTakes
<1>2. CASE Provider!Invoke
  BY <1>2, ReservedFits DEF Provider!Invoke, SetupType
<1>3. CASE Provider!Retry
  BY <1>3, RetryWaits
<1>4. CASE Provider!Hop
  BY <1>4 DEF Provider!Hop
<1>5. CASE UNCHANGED <<now, begun, limit>>
  BY <1>5
<1>6. \/ Provider!Request \/ Provider!Invoke \/ Provider!Retry \/ Provider!Hop
      \/ UNCHANGED <<now, begun, limit>>
  BY DEF Provider!Next, Provider!vars, Provider!Expire, Provider!Exhausted,
      Provider!AskJudgeAgain, Provider!RepairSemantic, Provider!Accept,
      Provider!GiveUp, Provider!SkipJudge
<1> QED
  BY <1>1, <1>2, <1>3, <1>4, <1>5, <1>6

\* Attempts stay within MaxAttempts and the stored count within its bound.
LEMMA CountStep ==
    ASSUME ClockType, CountType, [Provider!Next]_(Provider!vars)
    PROVE  CountType'
<1> USE DurationsAssumption DEF CountType
<1>1. CASE Provider!Request
  <2>1. reported' \in 0..6
    <3>1. CASE \E result \in {"valid", "invalid"} : Provider!Content(result)
      BY <3>1, EndDoes DEF Provider!Content
    <3>2. CASE \E answer \in Provider!Answers : \E error \in {"deadline", "other"} :
                   Provider!End(Provider!Classified(answer), error, attempt)
      BY <3>2, EndDoes
    <3>3. CASE UNCHANGED reported
      BY <3>3
    <3> QED
      BY <1>1, <3>1, <3>2, <3>3, RequestBrings
  <2> QED
    BY <1>1, <2>1, RequestTakes
<1>2. CASE Provider!Retry
  <2>1. reported' \in 0..6
    BY <1>2, RetryWaits, EndDoes
  <2>2. attempt' \in 1..MaxAttempts
    BY <1>2, RetryWaits
  <2> QED
    BY <1>2, <2>1, <2>2, RetryWaits
<1>3. CASE Provider!Expire \/ Provider!Exhausted
  <2>1. Provider!SentSoFar \in Nat
    BY DEF Provider!SentSoFar
  <2> QED
    BY <1>3, <2>1, EndDoes DEF Provider!Expire, Provider!Exhausted
<1>4. CASE Provider!Invoke \/ Provider!AskJudgeAgain \/ Provider!Hop
  BY <1>4 DEF Provider!Invoke, Provider!AskJudgeAgain, Provider!Hop
<1>5. CASE UNCHANGED <<attempt, sent, reported>>
  BY <1>5
<1>6. \/ Provider!Request \/ Provider!Retry \/ Provider!Expire \/ Provider!Exhausted
      \/ Provider!Invoke \/ Provider!AskJudgeAgain \/ Provider!Hop
      \/ UNCHANGED <<attempt, sent, reported>>
  BY DEF Provider!Next, Provider!vars, Provider!RepairSemantic, Provider!Accept,
      Provider!GiveUp, Provider!SkipJudge
<1> QED
  BY <1>1, <1>2, <1>3, <1>4, <1>5, <1>6

\* Every invocation ends with one of the results the callers know.
LEMMA EndStep ==
    ASSUME ClockType, CountType, EndType, [Provider!Next]_(Provider!vars)
    PROVE  EndType'
<1>1. CASE Provider!Request
  <2>1. CASE \E result \in {"valid", "invalid"} : Provider!Content(result)
    BY <2>1 DEF Provider!Content, Provider!End, EndType, Provider!Results
  <2>2. CASE \E answer \in Provider!Answers : \E error \in {"deadline", "other"} :
                   Provider!End(Provider!Classified(answer), error, attempt)
    BY <2>2, ClassifiedIsResult DEF Provider!End, EndType, Provider!Results
  <2>3. CASE pc' = "failed" /\ last' \in Provider!Answers /\ UNCHANGED code
    BY <2>3 DEF EndType
  <2> QED
    BY <1>1, <2>1, <2>2, <2>3, RequestBrings
<1>2. CASE Provider!Retry
  <2>1. CASE \E error \in {"deadline", "other"} :
               Provider!End("transport", error, attempt)
    BY <2>1 DEF Provider!End, EndType, Provider!Results
  <2>2. CASE pc' = "request" /\ last' = None /\ UNCHANGED code
    BY <2>2 DEF EndType
  <2> QED
    BY <1>2, <2>1, <2>2, RetryWaits
<1>3. CASE Provider!Expire \/ Provider!Exhausted
  BY <1>3 DEF Provider!Expire, Provider!Exhausted, Provider!End, EndType,
      Provider!Results
<1>4. CASE \/ Provider!Invoke \/ Provider!AskJudgeAgain \/ Provider!Hop
           \/ Provider!RepairSemantic
  BY <1>4 DEF Provider!Invoke, Provider!AskJudgeAgain, Provider!Hop,
      Provider!RepairSemantic, EndType
<1>5. CASE Provider!Accept \/ Provider!GiveUp \/ Provider!SkipJudge
  BY <1>5 DEF Provider!Accept, Provider!GiveUp, Provider!SkipJudge, EndType
<1>6. CASE UNCHANGED Provider!vars
  BY <1>6 DEF Provider!vars, EndType
<1> QED
  BY <1>1, <1>2, <1>3, <1>4, <1>5, <1>6 DEF Provider!Next

\* Who answered and who is credited stay in their types.
LEMMA CreditStep ==
    ASSUME SetupType, CreditType, [Provider!Next]_(Provider!vars)
    PROVE  CreditType'
<1>1. CASE Provider!Request
  <2>1. UNCHANGED outcome
    BY <1>1 DEF Provider!Request
  <2>2. CASE \E result \in {"valid", "invalid"} : Provider!Content(result)
    BY <2>1, <2>2 DEF Provider!Content, Provider!Credited, CreditType, SetupType
  <2>3. CASE answeredBy' \in {answeredBy, side} /\ UNCHANGED producer
    BY <2>1, <2>3 DEF CreditType, SetupType
  <2> QED
    BY <1>1, <2>2, <2>3, RequestBrings
<1>2. CASE Provider!Accept \/ Provider!GiveUp \/ Provider!SkipJudge
  BY <1>2 DEF Provider!Accept, Provider!GiveUp, Provider!SkipJudge, CreditType
<1>3. CASE UNCHANGED <<answeredBy, producer, outcome>>
  BY <1>3 DEF CreditType
<1>4. \/ Provider!Request \/ Provider!Accept \/ Provider!GiveUp \/ Provider!SkipJudge
      \/ UNCHANGED <<answeredBy, producer, outcome>>
  BY DEF Provider!Next, Provider!vars, Provider!Invoke, Provider!Expire,
      Provider!Exhausted, Provider!Retry, Provider!AskJudgeAgain, Provider!Hop,
      Provider!RepairSemantic
<1> QED
  BY <1>1, <1>2, <1>3, <1>4

\* Whatever a judge answers, what is kept has earned its recommendation.
LEMMA NormalizedIsEarned ==
    ASSUME NEW c \in Provider!Candidates
    PROVE  /\ Provider!Normalized(c) \in Provider!Candidates
           /\ Provider!Normalized(c).rec = "pass" =>
                /\ ~Provider!Normalized(c).notMet
                /\ ~Provider!Normalized(c).notEvaluable
                /\ ~Provider!Normalized(c).unresolved
           /\ Provider!Normalized(c).rec = "retry" =>
                /\ ~Provider!Normalized(c).notEvaluable
                /\ ~Provider!Normalized(c).unresolved
<1> USE DEF Provider!Candidates, Provider!Recommendations, Provider!Reasons
<1>1. CASE Provider!Coherent(c)
  BY <1>1 DEF Provider!Normalized, Provider!Coherent
<1>2. CASE ~Provider!Coherent(c)
  <2> DEFINE reason == IF Provider!Recommended(c) = "pass" THEN "all" ELSE "not_fully"
             n == [c EXCEPT !.rec = Provider!Recommended(c), !.reason = reason]
  <2>1. Provider!Normalized(c) = n
    BY <1>2 DEF Provider!Normalized
  <2>2. /\ Provider!Recommended(c) \in Provider!Recommendations
        /\ reason \in Provider!Reasons
    BY DEF Provider!Recommended
  <2>3. /\ Provider!Recommended(c) = "pass" =>
             ~c.notMet /\ ~c.notEvaluable /\ ~c.unresolved
        /\ Provider!Recommended(c) = "retry" => ~c.notEvaluable /\ ~c.unresolved
    BY DEF Provider!Recommended
  <2> HIDE DEF reason
  <2>4. /\ n \in Provider!Candidates
        /\ n.rec = Provider!Recommended(c) /\ n.notMet = c.notMet
        /\ n.notEvaluable = c.notEvaluable /\ n.unresolved = c.unresolved
    BY <2>2
  <2> QED
    BY <2>1, <2>3, <2>4
<1> QED
  BY <1>1, <1>2

\* A judge's verdict is stored normalized, so its recommendation is earned
\* (normalizeEvaluation).
LEMMA CandidateStep ==
    ASSUME CandidateType, Provider!RecommendationIsEarned,
           [Provider!Next]_(Provider!vars)
    PROVE  CandidateType' /\ Provider!RecommendationIsEarned'
<1>1. CASE Provider!Request
  <2>1. ASSUME NEW result \in {"valid", "invalid"}, Provider!Content(result)
        PROVE  \/ candidate' = candidate
               \/ \E c \in Provider!Candidates : candidate' = Provider!Normalized(c)
    BY <2>1 DEF Provider!Content
  <2>2. \/ candidate' = candidate
        \/ \E c \in Provider!Candidates : candidate' = Provider!Normalized(c)
    BY <1>1, <2>1, RequestBrings
  <2>3. CASE \E c \in Provider!Candidates : candidate' = Provider!Normalized(c)
    BY <2>3, NormalizedIsEarned DEF CandidateType, Provider!RecommendationIsEarned
  <2> QED
    BY <2>2, <2>3 DEF CandidateType, Provider!RecommendationIsEarned
<1>2. CASE Provider!GiveUp
  BY <1>2 DEF Provider!GiveUp, CandidateType, Provider!RecommendationIsEarned
<1>3. CASE UNCHANGED candidate
  BY <1>3 DEF CandidateType, Provider!RecommendationIsEarned
<1>4. Provider!Request \/ Provider!GiveUp \/ UNCHANGED candidate
  BY DEF Provider!Next, Provider!vars, Provider!Invoke, Provider!Expire,
      Provider!Exhausted, Provider!Retry, Provider!AskJudgeAgain, Provider!Hop,
      Provider!RepairSemantic, Provider!Accept, Provider!SkipJudge
<1> QED
  BY <1>1, <1>2, <1>3, <1>4

\* Repair, second invocation and hop are taken only by the kinds that have them.
LEMMA KindsStep ==
    ASSUME SetupType, KindsFit, [Provider!Next]_(Provider!vars)
    PROVE  KindsFit'
<1> USE DEF KindsFit, SetupType
<1>1. CASE Provider!Invoke
  BY <1>1 DEF Provider!Invoke
<1>2. CASE Provider!AskJudgeAgain
  BY <1>2 DEF Provider!AskJudgeAgain
<1>3. CASE Provider!Hop
  BY <1>3 DEF Provider!Hop, Provider!Hopping
<1>4. CASE Provider!RepairSemantic
  BY <1>4 DEF Provider!RepairSemantic
<1>5. CASE UNCHANGED <<setup, phase, side, invocation>>
  BY <1>5
<1>6. \/ Provider!Invoke \/ Provider!AskJudgeAgain \/ Provider!Hop \/ Provider!RepairSemantic
      \/ UNCHANGED <<setup, phase, side, invocation>>
  BY DEF Provider!Next, Provider!vars, Provider!Request, Provider!Expire,
      Provider!Exhausted, Provider!Retry, Provider!Accept, Provider!GiveUp,
      Provider!SkipJudge
<1> QED
  BY <1>1, <1>2, <1>3, <1>4, <1>5, <1>6

\* No invocation sends more than MaxAttempts requests, and at most four
\* invocations follow each other.
LEMMA RequestsStep ==
    ASSUME SetupType, ClockType, CountType, EndType, KindsFit, RequestsCounted,
           [Provider!Next]_(Provider!vars)
    PROVE  RequestsCounted'
<1> USE DurationsAssumption DEF RequestsCounted, CountType, Earlier, Pending
<1>1. CASE Provider!Request
  <2>1. pc' \in {"result", "failed"}
    BY <1>1, RequestBrings DEF Provider!Content, Provider!End
  <2> QED
    BY <1>1, <2>1, RequestTakes
<1>2. CASE Provider!Retry
  <2>1. \/ pc' = "result" /\ attempt' = attempt
        \/ pc' = "request" /\ attempt' = attempt + 1
    BY <1>2, RetryWaits DEF Provider!End
  <2> QED
    BY <1>2, <2>1, RetryWaits
<1>3. CASE Provider!Expire \/ Provider!Exhausted
  BY <1>3 DEF Provider!Expire, Provider!Exhausted, Provider!End
<1>4. CASE Provider!Invoke
  BY <1>4 DEF Provider!Invoke, SetupType
<1>5. CASE Provider!AskJudgeAgain
  <2>1. phase = "initial"
    BY <1>5 DEF Provider!AskJudgeAgain, KindsFit, SetupType
  <2> QED
    BY <1>5, <2>1 DEF Provider!AskJudgeAgain, Provider!MayAskAgain
<1>6. CASE Provider!Hop
  <2>1. \/ setup.kind = "semantic" /\ invocation = 1
        \/ setup.kind = "judge" /\ phase = "initial"
    BY <1>6, SetupKinds DEF Provider!Hop, Provider!Hopping, KindsFit, SetupType
  <2> QED
    BY <1>6, <2>1 DEF Provider!Hop, Provider!Hopping, SetupType
<1>7. CASE Provider!RepairSemantic
  <2>1. invocation = 1
    BY <1>7 DEF Provider!RepairSemantic, KindsFit, SetupType
  <2> QED
    BY <1>7, <2>1 DEF Provider!RepairSemantic
<1>8. CASE Provider!Accept \/ Provider!GiveUp \/ Provider!SkipJudge
  BY <1>8 DEF Provider!Accept, Provider!GiveUp, Provider!SkipJudge
<1>9. CASE UNCHANGED Provider!vars
  BY <1>9 DEF Provider!vars
<1> QED
  BY <1>1, <1>2, <1>3, <1>4, <1>5, <1>6, <1>7, <1>8, <1>9 DEF Provider!Next

\* The total of requests is bounded by the invocations counted.
LEMMA BoundedStep ==
    ASSUME SetupType, CountType, ClockType, RequestsCounted,
        Provider!RequestsAreBounded,
           [Provider!Next]_(Provider!vars)
    PROVE  Provider!RequestsAreBounded'
<1>1. CASE Provider!Request
  <2>1. sent' = sent + 1 /\ pc = "request"
    BY <1>1, RequestTakes
  <2> QED
    BY <2>1, DurationsAssumption DEF RequestsCounted, Provider!RequestsAreBounded,
        CountType, Earlier, Pending
<1>2. CASE UNCHANGED sent
  BY <1>2 DEF Provider!RequestsAreBounded
<1>3. Provider!Request \/ UNCHANGED sent
  BY DEF Provider!Next, Provider!vars, Provider!Invoke, Provider!Expire,
      Provider!Exhausted, Provider!Retry, Provider!AskJudgeAgain, Provider!Hop,
      Provider!RepairSemantic, Provider!Accept, Provider!GiveUp,
      Provider!SkipJudge
<1> QED
  BY <1>1, <1>2, <1>3

\* Every count that is stored was sent in the invocation it describes.
LEMMA ReportsStep ==
    ASSUME ClockType, CountType, ReportsCounted, [Provider!Next]_(Provider!vars)
    PROVE  ReportsCounted'
<1> USE DEF ReportsCounted, CountType, Pending
<1>1. CASE Provider!Request
  <2>1. sent' = sent + 1 /\ pc = "request" /\ attempt' = attempt
    BY <1>1, RequestTakes
  <2>2. \/ pc' = "result" /\ reported' \in 0..6 /\ reported' <= reported + attempt
        \/ pc' = "failed" /\ reported' = reported
    <3>1. attempt \in Nat
      BY DurationsAssumption
    <3>2. ASSUME NEW result, NEW error, Provider!End(result, error, attempt)
          PROVE  pc' = "result" /\ reported' \in 0..6 /\ reported' <= reported + attempt
      BY <3>1, <3>2, EndDoes
    <3>3. ASSUME NEW result, Provider!Content(result)
          PROVE  Provider!End(result, None, attempt)
      BY <3>3 DEF Provider!Content
    <3> QED
      BY <1>1, <3>2, <3>3, RequestBrings
  <2> QED
    BY <2>1, <2>2, DurationsAssumption
<1>2. CASE Provider!Retry
  <2>1. \/ /\ pc' = "result" /\ reported' \in 0..6 /\ reported' <= reported + attempt
        \/ /\ pc' = "request" /\ reported' = reported /\ attempt' = attempt + 1
    BY <1>2, RetryWaits, EndDoes, DurationsAssumption
  <2>2. pc = "failed" /\ sent' = sent
    BY <1>2, RetryWaits
  <2> QED
    BY <2>1, <2>2, DurationsAssumption
<1>3. CASE Provider!Expire \/ Provider!Exhausted
  <2>1. Provider!SentSoFar \in Nat /\ Provider!SentSoFar = Pending
    BY <1>3, DurationsAssumption DEF Provider!SentSoFar, Provider!Expire,
        Provider!Exhausted
  <2>2. /\ pc' = "result" /\ reported' \in 0..6
        /\ reported' <= reported + Provider!SentSoFar
    BY <1>3, <2>1, EndDoes DEF Provider!Expire, Provider!Exhausted
  <2>3. sent' = sent /\ Pending' = 0
    BY <1>3, <2>2 DEF Provider!Expire, Provider!Exhausted
  <2>4. /\ reported + Pending <= sent /\ reported \in Nat
        /\ reported' \in Nat /\ sent \in Nat /\ Pending \in Nat
    BY <2>1, <2>2
  <2>5. reported + Provider!SentSoFar <= sent
    BY <2>1, <2>4
  <2>6. reported' <= sent'
    BY <2>1, <2>2, <2>3, <2>4, <2>5
  <2> QED
    BY <2>2, <2>6
<1>4. CASE Provider!Invoke \/ Provider!AskJudgeAgain \/ Provider!Hop
  BY <1>4, DurationsAssumption DEF Provider!Invoke, Provider!AskJudgeAgain, Provider!Hop
<1>5. CASE \/ Provider!RepairSemantic \/ Provider!Accept \/ Provider!GiveUp
           \/ Provider!SkipJudge
  <2>1. UNCHANGED <<sent, reported>> /\ pc' \in {"service", "done"}
    BY <1>5 DEF Provider!RepairSemantic, Provider!Accept, Provider!GiveUp,
        Provider!SkipJudge
  <2> QED
    BY <2>1, DurationsAssumption
<1>6. CASE UNCHANGED Provider!vars
  BY <1>6 DEF Provider!vars
<1> QED
  BY <1>1, <1>2, <1>3, <1>4, <1>5, <1>6 DEF Provider!Next

\* A provider is chosen with a limit that leaves the reserve, and keeps it.
LEMMA LimitStep ==
    ASSUME SetupType, ClockType, CountType, KindsFit, KeepsLimit,
           [Provider!Next]_(Provider!vars)
    PROVE  KeepsLimit'
<1> USE DurationsAssumption DEF KeepsLimit, Invoking, ClockType
<1>1. CASE Provider!Request
  BY <1>1, RequestTakes
<1>2. CASE Provider!Retry
  BY <1>2, RetryWaits
<1>3. CASE Provider!Expire \/ Provider!Exhausted
  BY <1>3 DEF Provider!Expire, Provider!Exhausted
<1>4. CASE Provider!Invoke
  BY <1>4, ReservedFits DEF Provider!Invoke, SetupType
<1>5. CASE Provider!AskJudgeAgain
  BY <1>5 DEF Provider!AskJudgeAgain
<1>6. CASE Provider!Hop
  BY <1>6 DEF Provider!Hop
<1>7. CASE \/ Provider!RepairSemantic \/ Provider!Accept \/ Provider!GiveUp
           \/ Provider!SkipJudge
  BY <1>7 DEF Provider!RepairSemantic, Provider!Accept, Provider!GiveUp,
      Provider!SkipJudge
<1>8. CASE UNCHANGED Provider!vars
  BY <1>8 DEF Provider!vars
<1> QED
  BY <1>1, <1>2, <1>3, <1>4, <1>5, <1>6, <1>7, <1>8 DEF Provider!Next

\* Content is credited to its writer before anything is accepted.
LEMMA CreditedStep ==
    ASSUME ClockType, CountType, EndType, ContentIsCredited,
        Provider!AttributionIsHonest,
           [Provider!Next]_(Provider!vars)
    PROVE  ContentIsCredited' /\ Provider!AttributionIsHonest'
<1> USE DurationsAssumption DEF ContentIsCredited, Provider!AttributionIsHonest
<1>1. CASE Provider!Request
  <2>1. outcome' = None
    BY <1>1 DEF Provider!Request
  <2>2. CASE \E result \in {"valid", "invalid"} : Provider!Content(result)
    BY <2>1, <2>2 DEF Provider!Content, Provider!Credited
  <2>3. CASE pc' = "failed"
    BY <2>1, <2>3
  <2>4. CASE \E answer \in Provider!Answers : \E error \in {"deadline", "other"} :
                   Provider!End(Provider!Classified(answer), error, attempt)
    BY <2>1, <2>4, ClassifiedIsResult DEF Provider!End
  <2> QED
    BY <1>1, <2>2, <2>3, <2>4, RequestBrings
<1>2. CASE Provider!Retry
  <2>1. pc' = "request" \/ last' = "transport"
    BY <1>2, RetryWaits DEF Provider!End
  <2> QED
    BY <1>2, <2>1, RetryWaits
<1>3. CASE Provider!Expire \/ Provider!Exhausted
  BY <1>3 DEF Provider!Expire, Provider!Exhausted, Provider!End
<1>4. CASE \/ Provider!Invoke \/ Provider!AskJudgeAgain \/ Provider!Hop
           \/ Provider!RepairSemantic
  BY <1>4 DEF Provider!Invoke, Provider!AskJudgeAgain, Provider!Hop,
      Provider!RepairSemantic
<1>5. CASE Provider!Accept
  BY <1>5 DEF Provider!Accept
<1>6. CASE Provider!GiveUp
  BY <1>6 DEF Provider!GiveUp
<1>7. CASE Provider!SkipJudge
  BY <1>7 DEF Provider!SkipJudge
<1>8. CASE UNCHANGED Provider!vars
  BY <1>8 DEF Provider!vars
<1> QED
  BY <1>1, <1>2, <1>3, <1>4, <1>5, <1>6, <1>7, <1>8 DEF Provider!Next

\* Only a request that was sent, and was over by its limit, brings an answer.
LEMMA FreshStep ==
    ASSUME ClockType, CountType, AnswerIsFresh, [Provider!Next]_(Provider!vars)
    PROVE  AnswerIsFresh'
<1> USE DurationsAssumption DEF AnswerIsFresh, ClockType, CountType
<1>1. CASE Provider!Request
  <2>1. now' <= Deadline /\ sent' > 0 /\ side' = side
    BY <1>1, RequestTakes
  <2>2. CASE \E result \in {"valid", "invalid"} : Provider!Content(result)
    BY <2>1, <2>2 DEF Provider!Content, Provider!Credited
  <2>3. CASE pc' = "failed"
    BY <2>3
  <2>4. CASE \E answer \in Provider!Answers : \E error \in {"deadline", "other"} :
                   Provider!End(Provider!Classified(answer), error, attempt)
    BY <2>4, ClassifiedIsResult DEF Provider!End
  <2> QED
    BY <1>1, <2>2, <2>3, <2>4, RequestBrings
<1>2. CASE Provider!Retry
  <2>1. pc' = "request" \/ last' = "transport"
    BY <1>2, RetryWaits DEF Provider!End
  <2> QED
    BY <2>1
<1>3. CASE Provider!Expire \/ Provider!Exhausted
  BY <1>3 DEF Provider!Expire, Provider!Exhausted, Provider!End
<1>4. CASE \/ Provider!Invoke \/ Provider!AskJudgeAgain \/ Provider!Hop
           \/ Provider!RepairSemantic \/ Provider!Accept \/ Provider!GiveUp
           \/ Provider!SkipJudge
  BY <1>4 DEF Provider!Invoke, Provider!AskJudgeAgain, Provider!Hop,
      Provider!RepairSemantic, Provider!Accept, Provider!GiveUp,
      Provider!SkipJudge
<1>5. CASE UNCHANGED Provider!vars
  BY <1>5 DEF Provider!vars
<1> QED
  BY <1>1, <1>2, <1>3, <1>4, <1>5 DEF Provider!Next

\* A call starts in the inductive invariant.
LEMMA ProviderInit == Provider!Init => ProviderIInv
<1> SUFFICES ASSUME Provider!Init PROVE ProviderIInv
  OBVIOUS
<1> USE DurationsAssumption DEF Provider!Init
<1>1. SetupType /\ ClockType /\ CountType
  BY DEF SetupType, ClockType, CountType
<1>2. EndType /\ CreditType /\ CandidateType
  BY DEF EndType, CreditType, CandidateType
<1>3. KindsFit
  BY SetupKinds DEF KindsFit
<1>4. RequestsCounted /\ Provider!RequestsAreBounded /\ ReportsCounted
  BY DEF RequestsCounted, Provider!RequestsAreBounded, ReportsCounted, Pending
<1>5. /\ KeepsLimit /\ ContentIsCredited /\ AnswerIsFresh
      /\ Provider!AttributionIsHonest /\ Provider!RecommendationIsEarned
  BY DEF KeepsLimit, Invoking, ContentIsCredited, AnswerIsFresh,
      Provider!AttributionIsHonest, Provider!RecommendationIsEarned
<1> QED
  BY <1>1, <1>2, <1>3, <1>4, <1>5, CallTypes DEF ProviderIInv

\* Every step of a call keeps the inductive invariant.
LEMMA ProviderStep == ProviderIInv /\ [Provider!Next]_(Provider!vars) => ProviderIInv'
<1> SUFFICES ASSUME ProviderIInv, [Provider!Next]_(Provider!vars) PROVE ProviderIInv'
  OBVIOUS
<1> USE DEF ProviderIInv
<1>1. SetupType /\ ClockType /\ CountType /\ EndType /\ CreditType /\ CandidateType
  BY CallTypes
<1>2. SetupType' /\ ClockType' /\ CountType' /\ EndType' /\ CreditType'
  BY <1>1, SetupStep, ClockStep, CountStep, EndStep, CreditStep
<1>3. CandidateType' /\ Provider!RecommendationIsEarned'
  BY <1>1, CandidateStep
<1>4. Provider!TypeOK'
  <2>1. invocation' \in {1, 2} => invocation' \in 1..2
    OBVIOUS
  <2> QED
    BY <1>2, <1>3, <2>1 DEF Provider!TypeOK, SetupType, ClockType, CountType,
        EndType, CreditType, CandidateType
<1>5. KindsFit' /\ RequestsCounted' /\ Provider!RequestsAreBounded' /\ ReportsCounted'
  BY <1>1, KindsStep, RequestsStep, BoundedStep, ReportsStep
<1>6. KeepsLimit' /\ ContentIsCredited' /\ Provider!AttributionIsHonest'
  BY <1>1, LimitStep, CreditedStep
<1>7. AnswerIsFresh'
  BY <1>1, FreshStep
<1> QED
  BY <1>3, <1>4, <1>5, <1>6, <1>7

\* The inductive invariant implies the promises of RemoteCall.
LEMMA ProviderMeans == ProviderIInv => Provider!ProviderInv
<1> SUFFICES ASSUME ProviderIInv PROVE Provider!EndsInTime /\ Provider!ReportedWereSent
  BY DEF ProviderIInv, Provider!ProviderInv
<1>1. ClockType /\ CountType
  BY CallTypes DEF ProviderIInv
<1>2. Pending \in Nat
  BY <1>1, DurationsAssumption DEF Pending, CountType
<1>3. reported <= sent
  BY <1>1, <1>2 DEF ProviderIInv, ReportsCounted, CountType
<1> QED
  BY <1>1, <1>3, DurationsAssumption DEF ClockType, Provider!EndsInTime,
      Provider!ReportedWereSent

\* Whoever hops to the second provider finds its reserve, less what a sleeper
\* may have been late (reserveTransportFallbackDeadline).
LEMMA HopLeavesReserve ==
    ASSUME ProviderIInv, Provider!Hop
    PROVE  Deadline - now >= Call!Share - MaxLate
<1>1. SetupType /\ ClockType /\ KeepsLimit
  BY CallTypes DEF ProviderIInv
<1>2. /\ now <= limit + MaxLate
      /\ limit <= Deadline - Provider!Lesser(Reserve, Deadline - begun - MinPrimary)
  BY <1>1 DEF Provider!Hop, Provider!Hopping, KeepsLimit, Invoking
<1>3. Provider!Lesser(Reserve, Deadline - begun - MinPrimary) \in Int
  BY <1>1, DurationsAssumption DEF Provider!Lesser, ClockType
<1>4. /\ Call!Share \in Int
      /\ Call!Share <= Provider!Lesser(Reserve, Deadline - begun - MinPrimary)
  BY <1>1, DurationsAssumption DEF Provider!Lesser, Call!Share, ClockType
<1> QED
  BY <1>1, <1>2, <1>3, <1>4, DurationsAssumption DEF ClockType

-----------------------------------------------------------------------------
(* A provider call implements DeadlineCall.                                *)

\* A call starts as DeadlineCall does.
LEMMA CallInit == Provider!Init => Call!Init
<1> SUFFICES ASSUME Provider!Init PROVE Call!Init
  OBVIOUS
<1>1. Provider!AnswerOf = None
  BY DEF Provider!Init, Provider!AnswerOf
<1>2. now \in 0..Deadline /\ begun = now /\ side = "primary" /\ sent = 0
  BY DEF Provider!Init
<1> QED
  BY <1>1, <1>2 DEF Call!Init

\* A request of the call is one of DeadlineCall: it is sent and over in time,
\* and counted.
LEMMA RequestAsks ==
    ASSUME ProviderIInv, Provider!Request
    PROVE  Call!Ask
<1>1. ClockType /\ CountType
  BY CallTypes DEF ProviderIInv
<1>2. /\ now' \in Nat /\ now <= now' /\ now' <= limit /\ now < limit
      /\ sent' = sent + 1 /\ pc = "request" /\ UNCHANGED <<side, begun>>
  BY <1>1, RequestTakes
<1>3. pc' \in {"result", "failed"}
  BY RequestBrings DEF Provider!Content, Provider!End
<1>4. sent < 4 * MaxAttempts
  BY <1>1, <1>2, DurationsAssumption DEF ProviderIInv, RequestsCounted, CountType,
      Earlier, Pending
<1>5. Call!InTime /\ now' \in now .. Deadline
  BY <1>1, <1>2, DurationsAssumption DEF ClockType, Call!InTime
<1>6. Provider!AnswerOf = None /\ Provider!AnswerOf' = None
  BY <1>2, <1>3 DEF Provider!AnswerOf
<1> QED
  BY <1>2, <1>4, <1>5, <1>6 DEF Call!Ask, Call!Open

\* Between two requests the call waits, or the invocation ends.
LEMMA RetryIsWait ==
    ASSUME ProviderIInv, Provider!Retry
    PROVE  Call!Wait \/ UNCHANGED Call!vars
<1>1. ClockType /\ CountType
  BY CallTypes DEF ProviderIInv
<1>2. pc = "failed" /\ UNCHANGED <<side, begun, sent>>
  BY <1>1, RetryWaits
<1>3. CASE \E error \in {"deadline", "other"} :
             Provider!End("transport", error, attempt) /\ now' = now
  <2>1. pc' = "result"
    BY <1>3 DEF Provider!End
  <2> QED
    BY <1>2, <1>3, <2>1 DEF Call!vars, Provider!AnswerOf
<1>4. CASE /\ now < limit /\ now' \in Nat /\ now <= now'
           /\ now' <= limit + MaxLate /\ pc' = "request"
  <2>1. Call!InTime /\ now' \in now .. (Deadline + MaxLate)
    BY <1>1, <1>4, DurationsAssumption DEF ClockType, Call!InTime
  <2>2. Provider!AnswerOf = None /\ Provider!AnswerOf' = None
    BY <1>2, <1>4 DEF Provider!AnswerOf
  <2> QED
    BY <1>2, <2>1, <2>2 DEF Call!Wait, Call!Open
<1> QED
  BY <1>1, <1>3, <1>4, RetryWaits

\* What is accepted is the answer of the provider whose turn it is, in time.
LEMMA AcceptAnswers ==
    ASSUME ProviderIInv, Provider!Accept
    PROVE  Call!Answer
<1>1. pc = "result" /\ last = "valid" /\ pc' = "done"
      /\ outcome' \in {"generated", "repaired"}
      /\ UNCHANGED <<now, side, begun, sent, answeredBy>>
  BY DEF Provider!Accept
<1>2. answeredBy = side /\ sent > 0 /\ now <= Deadline
  BY <1>1 DEF ProviderIInv, AnswerIsFresh
<1>3. Provider!AnswerOf = None /\ Provider!AnswerOf' = side
  BY <1>1, <1>2 DEF Provider!AnswerOf
<1> QED
  BY <1>1, <1>2, <1>3 DEF Call!Answer, Call!Open

\* Every step of a call is a step of DeadlineCall or leaves it alone.
LEMMA CallStep ==
    ASSUME ProviderIInv, [Provider!Next]_(Provider!vars)
    PROVE  [Call!Next]_(Call!vars)
<1> USE DEF Call!Next
<1>1. CASE Provider!Invoke
  <2>1. Call!Begin
    BY <1>1 DEF Provider!Invoke, Call!Begin, Call!Open, Call!InTime,
        Provider!AnswerOf
  <2> QED
    BY <2>1
<1>2. CASE Provider!Request
  BY <1>2, RequestAsks
<1>3. CASE Provider!Retry
  BY <1>3, RetryIsWait
<1>4. CASE Provider!Hop
  <2>1. Call!HandOver
    BY <1>4, HopLeavesReserve DEF Provider!Hop, Provider!Hopping, Call!HandOver,
        Call!Open, Provider!AnswerOf
  <2> QED
    BY <2>1
<1>5. CASE Provider!Accept
  BY <1>5, AcceptAnswers
<1>6. CASE Provider!GiveUp \/ Provider!SkipJudge
  <2>1. /\ pc # "done" /\ pc' = "done" /\ outcome' \in {"fallback", "failed"}
        /\ UNCHANGED <<now, side, begun, sent>>
    BY <1>6 DEF Provider!GiveUp, Provider!Settled, Provider!SkipJudge
  <2>2. Provider!AnswerOf = None /\ Provider!AnswerOf' = "nobody"
    BY <2>1 DEF Provider!AnswerOf
  <2> QED
    BY <2>1, <2>2 DEF Call!GiveUp, Call!Open
<1>7. CASE \/ Provider!Expire \/ Provider!Exhausted \/ Provider!AskJudgeAgain
           \/ Provider!RepairSemantic
  <2>1. pc # "done" /\ pc' # "done" /\ UNCHANGED <<now, side, begun, sent>>
    BY <1>7 DEF Provider!Expire, Provider!Exhausted, Provider!AskJudgeAgain,
        Provider!RepairSemantic, Provider!End
  <2> QED
    BY <2>1 DEF Call!vars, Provider!AnswerOf
<1>8. CASE UNCHANGED Provider!vars
  BY <1>8 DEF Provider!vars, Call!vars, Provider!AnswerOf
<1> QED
  BY <1>1, <1>2, <1>3, <1>4, <1>5, <1>6, <1>7, <1>8 DEF Provider!Next

-----------------------------------------------------------------------------
(* The GitHub adapters: the inductive invariant.                           *)

\* The data of the adapters, and the type invariant of a call and of the rest.
MintRecord == [st: {"running", "live", "aged", "revoked", "failed"}, gen: Nat]
PageLists == UNION {[1 .. n -> Github!Editions] : n \in 0 .. Pages}
Steps == {"idle", "minting", "initial", "pages", "final", "head", "find", "write"}
           \cup Github!Ended
CallRecord(tokens) ==
  [pc: Steps, kind: Github!Kinds \cup {None}, fresh: BOOLEAN,
   expected: Github!Editions \cup {None}, token: tokens \cup {None},
   own: tokens \cup {None}, since: Nat, rejected: tokens \cup {None},
   seen: Github!Editions \cup {None}, pages: PageLists, at: 0 .. MaxMoves,
   existing: Github!CommentIds \cup {None}, writes: 0 .. 1]

\* A mint under way that the cache knows of belongs to the present generation.
SlotsAreCurrent ==
  \A slot \in {pending, refreshing} :
    slot # None => mint[slot].st = "running" /\ mint[slot].gen = gen

\* How far a call has come determines what it holds, has read, chosen and tried.
Fits(r) ==
  /\ r.pc = "idle" => r = Github!Idle
  /\ r.pc \notin {"idle"} \cup Github!Ended => r.token # None
  /\ r.kind = "comment" =>
       /\ ~r.fresh /\ r.expected # None
       /\ r.pc \in {"minting", "find", "head", "write"}
  /\ r.kind = "comment" /\ r.own = None =>
       r.pc \in {"minting", "find"} /\ r.rejected = None
  /\ r.pc = "find" => r.kind = "comment" /\ r.own = None
  /\ r.pc = "write" => r.kind = "comment"
  /\ r.pc \notin {"pages", "final", "done"} => r.pages = <<>>
  /\ r.pc = "pages" => Len(r.pages) < Pages
  /\ r.rejected # None => r.token # r.rejected

\* What FreshUsesFresh says of one call.
IsFresh(r, mints) ==
  r.fresh /\ r.token # None /\ r.rejected = None => mints[r.token].gen >= r.since

\* A call whose record is in type, fits its step and carries the token it asked for.
Sound(r, mints) ==
  r \in CallRecord(1 .. Len(mints)) /\ Fits(r) /\ IsFresh(r, mints)

\* The records of a call that begins, tries again, has found the comment, and
\* holds a token.
Begun(kind, fresh, expected) ==
  [Github!Idle EXCEPT !.kind = kind, !.fresh = fresh, !.expected = expected]
Again(old) == [old EXCEPT !.rejected = old.token, !.seen = None, !.pages = <<>>]
Found(old, existing) == [old EXCEPT !.own = old.token, !.existing = existing]
Holds(rec, token, stage) == [rec EXCEPT !.token = token, !.pc = stage]
SeesEdition(old) == [old EXCEPT !.pc = "pages", !.seen = edition, !.at = moves]
SeesPage(old) ==
  [old EXCEPT !.pages = Append(@, edition),
              !.pc = IF Len(old.pages) + 1 = Pages THEN "final" ELSE "pages"]
HoldsFresh(rec, token, since) ==
  [rec EXCEPT !.token = token, !.since = since, !.pc = "minting"]

\* Every call is sound.
CallsAreSound ==
  /\ call \in [Calls -> CallRecord(1 .. Len(mint))]
  /\ \A c \in Calls : Sound(call[c], mint)

\* Tokens are minted; none is lost or changes its generation.
Extends(mints, more) ==
  /\ Len(mints) \in Nat /\ Len(more) \in Nat /\ Len(mints) <= Len(more)
  /\ \A i \in 1 .. Len(mints) : more[i].gen = mints[i].gen

\* What a read has seen so far is one edition unless the pull request moved.
Agrees(r, present, count) ==
  r.pc \in {"pages", "final"} =>
    /\ r.at <= count
    /\ count = r.at =>
         present = r.seen /\ \A i \in 1 .. Len(r.pages) : r.pages[i] = r.seen
    /\ count = r.at + 1 => present # r.seen

\* What SnapshotIsOneEdition says of one call.
OneEdition(r, count) ==
  r.kind = "load" /\ r.pc = "done" =>
    \/ \A i \in 1 .. Len(r.pages) : r.pages[i] = r.seen
    \/ count >= r.at + 2

\* Reads in progress agree and snapshots are of one edition.
ReadsAreWhole ==
  \A c \in Calls : Agrees(call[c], edition, moves) /\ OneEdition(call[c], moves)

\* Without an overlap or a late create, an upsert is alone with at most one
\* comment, and with none when it is to create one.
UpsertIsAlone ==
  ~excused =>
    /\ \A c, d \in Github!Upserting : c = d
    /\ \A j, k \in comments : j = k
    /\ \A c \in Github!Upserting :
         call[c].own # None /\ call[c].existing = None => comments = {}

\* The types of the token cache, and of the pull request with its comments.
MintType == /\ mint \in Seq(MintRecord) /\ Len(mint) <= MaxMints
            /\ gen \in Nat
            /\ cached \in Github!Minted \cup {None}
            /\ pending \in Github!Minted \cup {None}
            /\ refreshing \in Github!Minted \cup {None}
WorldType == /\ edition \in Github!Editions /\ moves \in 0 .. MaxMoves
             /\ excused \in BOOLEAN
             /\ comments \in SUBSET [id: Github!CommentIds, text: Github!Editions]
             /\ late \in SUBSET [id: Github!CommentIds, text: Github!Editions]

\* What every step of the adapters keeps.  The promises speak of a call that
\* holds a token or has ended, and of the comments; this adds what a call holds
\* at each step, what a read has seen so far, which mints are under way, and
\* that an upsert which overlaps no other is alone with what it found.
GithubIInv ==
  /\ MintType /\ WorldType
  /\ Github!CachedIsCurrent
  /\ SlotsAreCurrent
  /\ CallsAreSound
  /\ ReadsAreWhole
  /\ UpsertIsAlone

\* None is no token.
LEMMA NoneApart ==
    ASSUME MintType
    PROVE  None \notin Github!Minted /\ Len(mint) \in Nat
  BY GithubAssumption DEF MintType, Github!Minted

\* A list of pages takes another page until it has them all.
LEMMA PagesGrow ==
    /\ <<>> \in PageLists
    /\ \A p \in PageLists : p \in Seq(Github!Editions) /\ Len(p) \in 0 .. Pages
    /\ \A p \in PageLists : \A e \in Github!Editions :
         Len(p) < Pages =>
           /\ Append(p, e) \in PageLists /\ Len(Append(p, e)) = Len(p) + 1
           /\ \A i \in 1 .. Len(p) : Append(p, e)[i] = p[i]
           /\ Append(p, e)[Len(p) + 1] = e
<1> USE GithubAssumption
<1>1. <<>> \in PageLists
  <2>1. <<>> \in [1 .. 0 -> Github!Editions]
    OBVIOUS
  <2> QED
    BY <2>1 DEF PageLists
<1>2. ASSUME NEW p \in PageLists
      PROVE  p \in Seq(Github!Editions) /\ Len(p) \in 0 .. Pages
  <2>1. PICK n \in 0 .. Pages : p \in [1 .. n -> Github!Editions]
    BY DEF PageLists
  <2> QED
    BY <2>1
<1>3. ASSUME NEW p \in PageLists, NEW e \in Github!Editions, Len(p) < Pages
      PROVE  /\ Append(p, e) \in PageLists /\ Len(Append(p, e)) = Len(p) + 1
             /\ \A i \in 1 .. Len(p) : Append(p, e)[i] = p[i]
             /\ Append(p, e)[Len(p) + 1] = e
  <2>1. p \in Seq(Github!Editions) /\ Len(p) \in 0 .. Pages
    BY <1>2
  <2>2. /\ Append(p, e) \in [1 .. (Len(p) + 1) -> Github!Editions]
        /\ Len(Append(p, e)) = Len(p) + 1
        /\ \A i \in 1 .. Len(p) : Append(p, e)[i] = p[i]
        /\ Append(p, e)[Len(p) + 1] = e
    <3>1. Append(p, e) \in Seq(Github!Editions) /\ Len(Append(p, e)) = Len(p) + 1
      BY <2>1
    <3>2. /\ \A i \in 1 .. Len(p) : Append(p, e)[i] = p[i]
          /\ Append(p, e)[Len(p) + 1] = e
      BY <2>1
    <3> HIDE DEF PageLists
    <3> QED
      BY <3>1, <3>2, LenProperties
  <2>3. Len(p) + 1 \in 0 .. Pages
    BY <2>1, <1>3
  <2> QED
    BY <2>2, <2>3 DEF PageLists
<1> QED
  BY <1>1, <1>2, <1>3

\* A new mint is added at the end and changes no earlier one.
LEMMA MintAppended ==
    ASSUME MintType, NEW m \in MintRecord, mint' = Append(mint, m)
    PROVE  /\ mint' \in Seq(MintRecord) /\ Len(mint') = Len(mint) + 1
           /\ \A i \in Github!Minted : mint'[i] = mint[i]
           /\ mint'[Len(mint) + 1] = m
  BY DEF MintType, Github!Minted

\* A mint changes its state and keeps its generation.
LEMMA MintChanged ==
    ASSUME MintType, NEW m \in Github!Minted,
           NEW st \in {"running", "live", "aged", "revoked", "failed"},
           mint' = [mint EXCEPT ![m].st = st]
    PROVE  /\ mint' \in Seq(MintRecord) /\ Len(mint') = Len(mint)
           /\ \A i \in Github!Minted : i # m => mint'[i] = mint[i]
           /\ mint'[m].st = st /\ mint'[m].gen = mint[m].gen
<1> DEFINE r == [mint[m] EXCEPT !.st = st]
<1>1. mint \in Seq(MintRecord) /\ m \in 1 .. Len(mint)
  BY DEF MintType, Github!Minted
<1>2. mint[m] \in MintRecord
  BY <1>1
<1>3. r \in MintRecord /\ r.st = st /\ r.gen = mint[m].gen
  BY <1>2 DEF MintRecord
<1>4. mint' = [mint EXCEPT ![m] = r]
  OBVIOUS
<1> HIDE DEF r
<1> QED
  BY <1>1, <1>3, <1>4, ExceptSeq DEF Github!Minted

\* The three branches of get: the token, and what becomes of the cache.
LEMMA GetDoes ==
    ASSUME MintType, SlotsAreCurrent, Github!CachedIsCurrent,
           NEW c \in Calls, NEW rec, NEW held \in {cached, None}, Github!Get(c, rec, held)
    PROVE  /\ \E token, stage :
                /\ call' = [call EXCEPT ![c] = [rec EXCEPT !.token = token, !.pc = stage]]
                /\ stage \in {"minting", Github!Granted(rec)}
                /\ token \in Github!Minted' /\ token # None
                /\ token \in Github!Minted => token = held \/ mint[token].st = "running"
           /\ MintType' /\ SlotsAreCurrent' /\ Github!CachedIsCurrent'
           /\ Github!Minted \subseteq Github!Minted'
           /\ \A i \in Github!Minted : mint'[i] = mint[i]
<1> USE GithubAssumption
<1>0. None \notin Github!Minted /\ Len(mint) \in Nat
  BY NoneApart
<1>1. CASE /\ Github!Usable(held) /\ cached' = held
           /\ UNCHANGED <<mint, pending, refreshing, gen>>
           /\ call' = [call EXCEPT ![c] =
                [rec EXCEPT !.token = held, !.pc = Github!Granted(rec)]]
  <2>1. held # None /\ held \in Github!Minted
    BY <1>1 DEF Github!Usable, MintType
  <2>2. Github!Minted' = Github!Minted
    BY <1>1 DEF Github!Minted
  <2> QED
    BY <1>1, <2>1, <2>2 DEF MintType, SlotsAreCurrent, Github!CachedIsCurrent
<1>2. CASE /\ pending # None /\ cached' = held
           /\ UNCHANGED <<mint, pending, refreshing, gen>>
           /\ call' = [call EXCEPT ![c] =
                [rec EXCEPT !.token = pending, !.pc = "minting"]]
  <2>1. pending \in Github!Minted /\ mint[pending].st = "running"
    BY <1>2 DEF SlotsAreCurrent, MintType
  <2>2. Github!Minted' = Github!Minted
    BY <1>2 DEF Github!Minted
  <2> QED
    BY <1>2, <2>1, <2>2 DEF MintType, SlotsAreCurrent, Github!CachedIsCurrent
<1>3. CASE /\ Len(mint) < MaxMints
           /\ mint' = Append(mint, [st |-> "running", gen |-> gen])
           /\ pending' = Len(mint) + 1
           /\ call' = [call EXCEPT ![c] =
                [rec EXCEPT !.token = Len(mint) + 1, !.pc = "minting"]]
           /\ cached' = held
           /\ UNCHANGED <<refreshing, gen>>
  <2>1. [st |-> "running", gen |-> gen] \in MintRecord
    BY DEF MintType, MintRecord
  <2>2. /\ mint' \in Seq(MintRecord) /\ Len(mint') = Len(mint) + 1
        /\ \A i \in Github!Minted : mint'[i] = mint[i]
        /\ mint'[Len(mint) + 1] = [st |-> "running", gen |-> gen]
    BY <1>3, <2>1, MintAppended
  <2>3. /\ Github!Minted \subseteq Github!Minted'
        /\ Len(mint) + 1 \in Github!Minted' /\ Len(mint) + 1 \notin Github!Minted
    BY <1>0, <2>2 DEF Github!Minted
  <2>4. MintType'
    BY <1>0, <1>3, <2>2, <2>3 DEF MintType
  <2>5. SlotsAreCurrent'
    <3>1. mint'[pending'].st = "running" /\ mint'[pending'].gen = gen'
      BY <1>3, <2>2
    <3>2. refreshing' # None =>
            mint'[refreshing'].st = "running" /\ mint'[refreshing'].gen = gen'
      BY <1>3, <2>2 DEF SlotsAreCurrent, MintType
    <3> QED
      BY <3>1, <3>2 DEF SlotsAreCurrent
  <2>6. Github!CachedIsCurrent'
    BY <1>3, <2>2 DEF Github!CachedIsCurrent, MintType
  <2>7. Len(mint) + 1 # None
    BY <1>0, <1>3
  <2> QED
    BY <1>3, <2>2, <2>3, <2>4, <2>5, <2>6, <2>7
<1> QED
  BY <1>1, <1>2, <1>3 DEF Github!Get

\* Both branches of getFresh: the token is of the generation it opens or joins.
LEMMA GetFreshDoes ==
    ASSUME MintType, SlotsAreCurrent, Github!CachedIsCurrent,
           NEW c \in Calls, NEW rec, Github!GetFresh(c, rec)
    PROVE  /\ \E token \in Github!Minted', since \in Nat :
                /\ call' = [call EXCEPT ![c] =
                     [rec EXCEPT !.token = token, !.since = since, !.pc = "minting"]]
                /\ token # None /\ mint'[token].gen >= since
           /\ MintType' /\ SlotsAreCurrent' /\ Github!CachedIsCurrent'
           /\ Github!Minted \subseteq Github!Minted'
           /\ \A i \in Github!Minted : mint'[i] = mint[i]
<1> USE GithubAssumption
<1>0. None \notin Github!Minted /\ Len(mint) \in Nat
  BY NoneApart
<1>1. CASE refreshing # None /\ UNCHANGED Github!cache
             /\ call' = [call EXCEPT ![c] = [rec EXCEPT !.token = refreshing,
                                             !.since = gen, !.pc = "minting"]]
  <2>1. refreshing \in Github!Minted /\ mint[refreshing].gen = gen
    BY <1>1 DEF SlotsAreCurrent, MintType
  <2>2. /\ UNCHANGED <<mint, cached, pending, refreshing, gen>>
        /\ Github!Minted' = Github!Minted
    BY <1>1 DEF Github!Minted, Github!cache
  <2>3. MintType' /\ SlotsAreCurrent' /\ Github!CachedIsCurrent'
    BY <2>2 DEF MintType, SlotsAreCurrent, Github!CachedIsCurrent
  <2>4. gen \in Nat /\ mint'[refreshing].gen >= gen
    BY <2>1, <2>2 DEF MintType
  <2> QED
    BY <1>1, <2>1, <2>2, <2>3, <2>4
<1>2. CASE refreshing = None
  <2> DEFINE m == Len(mint) + 1
  <2>0. m \notin Github!Minted
    BY <1>0 DEF Github!Minted
  <2>1. /\ gen' = gen + 1 /\ cached' = None /\ m <= MaxMints
        /\ mint' = Append(mint, [st |-> "running", gen |-> gen + 1])
        /\ pending' = m /\ refreshing' = m
        /\ call' = [call EXCEPT ![c] = [rec EXCEPT !.token = m,
                                        !.since = gen + 1, !.pc = "minting"]]
    BY <1>2, <2>0 DEF Github!GetFresh, Github!PendingAfterRefresh
  <2>2. [st |-> "running", gen |-> gen + 1] \in MintRecord /\ gen + 1 \in Nat
    BY DEF MintType, MintRecord
  <2>3. /\ mint' \in Seq(MintRecord) /\ Len(mint') = m
        /\ \A i \in Github!Minted : mint'[i] = mint[i]
        /\ mint'[m] = [st |-> "running", gen |-> gen + 1]
    BY <2>1, <2>2, MintAppended
  <2>4. Github!Minted \subseteq Github!Minted' /\ m \in Github!Minted'
    BY <1>0, <2>3 DEF Github!Minted
  <2>5. MintType'
    BY <1>0, <2>1, <2>2, <2>3, <2>4 DEF MintType
  <2>6. SlotsAreCurrent' /\ Github!CachedIsCurrent'
    BY <2>1, <2>3 DEF SlotsAreCurrent, Github!CachedIsCurrent
  <2>7. m # None
    BY <1>0, <2>1
  <2>8. mint'[m].gen >= gen + 1
    BY <2>2, <2>3
  <2> HIDE DEF m
  <2> QED
    BY <2>1, <2>2, <2>3, <2>4, <2>5, <2>6, <2>7, <2>8
<1> QED
  BY <1>1, <1>2 DEF Github!GetFresh

\* A call that is sound stays so while tokens are minted.
LEMMA SoundStays ==
    ASSUME NEW mints, NEW more, Extends(mints, more)
    PROVE  \A r : Sound(r, mints) => Sound(r, more)
<1> TAKE r
<1> HAVE Sound(r, mints)
<1>0. 1 .. Len(mints) \subseteq 1 .. Len(more)
  BY DEF Extends
<1>1. r \in CallRecord(1 .. Len(more))
  BY <1>0 DEF Sound, CallRecord
<1>2. r.token # None => r.token \in 1 .. Len(mints)
  BY DEF Sound, CallRecord
<1>3. IsFresh(r, more)
  BY <1>2 DEF Sound, IsFresh, Extends
<1> QED
  BY <1>1, <1>3 DEF Sound

\* A step of one call keeps the calls sound if it leaves that one sound.
LEMMA OneCallChanges ==
    ASSUME CallsAreSound, Extends(mint, mint'), NEW c \in Calls, NEW r,
           Sound(r, mint'), call' = [call EXCEPT ![c] = r]
    PROVE  CallsAreSound'
<1>1. ASSUME NEW d \in Calls PROVE Sound(call'[d], mint')
  <2>1. Sound(call[d], mint')
    BY SoundStays DEF CallsAreSound
  <2>2. call'[d] = IF d = c THEN r ELSE call[d]
    BY DEF CallsAreSound
  <2> QED
    BY <2>1, <2>2
<1>2. call' \in [Calls -> CallRecord(1 .. Len(mint'))]
  <2>1. DOMAIN call' = Calls /\ call' = [d \in Calls |-> call'[d]]
    BY DEF CallsAreSound
  <2> QED
    BY <1>1, <2>1 DEF Sound
<1> QED
  BY <1>1, <1>2 DEF CallsAreSound

\* Minting alone keeps the calls sound.
LEMMA NoCallChanges ==
    ASSUME CallsAreSound, Extends(mint, mint'), UNCHANGED call
    PROVE  CallsAreSound'
<1>1. ASSUME NEW d \in Calls PROVE Sound(call[d], mint')
  BY SoundStays DEF CallsAreSound
<1>2. call \in [Calls -> CallRecord(1 .. Len(mint'))]
  <2>1. DOMAIN call = Calls /\ call = [d \in Calls |-> call[d]]
    BY DEF CallsAreSound
  <2> QED
    BY <1>1, <2>1 DEF Sound
<1> QED
  BY <1>1, <1>2 DEF CallsAreSound

\* A call that has ended or not begun holds nothing.
LEMMA IdleIsACall == \A tokens : Github!Idle \in CallRecord(tokens)
<1> USE GithubAssumption
<1> TAKE tokens
<1> DEFINE none == <<>>
<1>1. none \in PageLists
  BY PagesGrow
<1>2. Github!Idle = [pc |-> "idle", kind |-> None, fresh |-> FALSE, expected |-> None,
              token |-> None, own |-> None, since |-> 0, rejected |-> None,
              seen |-> None, pages |-> none, at |-> 0, existing |-> None,
              writes |-> 0]
  BY DEF Github!Idle
<1> HIDE DEF none
<1>3. /\ "idle" \in Steps /\ 0 \in 0 .. MaxMoves /\ 0 \in 0 .. 1 /\ 0 \in Nat
      /\ None \in Github!Kinds \cup {None} /\ None \in Github!Editions \cup {None}
      /\ None \in tokens \cup {None} /\ None \in Github!CommentIds \cup {None}
  BY DEF Steps
<1> QED
  BY <1>1, <1>2, <1>3, Zenon DEF CallRecord

\* A field of a call is replaced within its type.
LEMMA FieldChanges ==
    ASSUME NEW tokens, NEW r \in CallRecord(tokens)
    PROVE  /\ \A x \in Steps : [r EXCEPT !.pc = x] \in CallRecord(tokens)
           /\ \A x \in Github!Kinds \cup {None} : [r EXCEPT !.kind = x] \in CallRecord(tokens)
           /\ \A x \in BOOLEAN : [r EXCEPT !.fresh = x] \in CallRecord(tokens)
           /\ \A x \in Github!Editions \cup {None} :
                /\ [r EXCEPT !.expected = x] \in CallRecord(tokens)
                /\ [r EXCEPT !.seen = x] \in CallRecord(tokens)
           /\ \A x \in tokens \cup {None} :
                /\ [r EXCEPT !.token = x] \in CallRecord(tokens)
                /\ [r EXCEPT !.own = x] \in CallRecord(tokens)
                /\ [r EXCEPT !.rejected = x] \in CallRecord(tokens)
           /\ \A x \in Nat : [r EXCEPT !.since = x] \in CallRecord(tokens)
           /\ \A x \in PageLists : [r EXCEPT !.pages = x] \in CallRecord(tokens)
           /\ \A x \in 0 .. MaxMoves : [r EXCEPT !.at = x] \in CallRecord(tokens)
           /\ \A x \in Github!CommentIds \cup {None} :
                [r EXCEPT !.existing = x] \in CallRecord(tokens)
<1>1. \A x \in Steps : [r EXCEPT !.pc = x] \in CallRecord(tokens)
  BY DEF CallRecord
<1>2. \A x \in Github!Kinds \cup {None} : [r EXCEPT !.kind = x] \in CallRecord(tokens)
  BY DEF CallRecord
<1>3. \A x \in BOOLEAN : [r EXCEPT !.fresh = x] \in CallRecord(tokens)
  BY DEF CallRecord
<1>4. \A x \in Github!Editions \cup {None} :
        /\ [r EXCEPT !.expected = x] \in CallRecord(tokens)
        /\ [r EXCEPT !.seen = x] \in CallRecord(tokens)
  BY DEF CallRecord
<1>5. \A x \in tokens \cup {None} :
        /\ [r EXCEPT !.token = x] \in CallRecord(tokens)
        /\ [r EXCEPT !.own = x] \in CallRecord(tokens)
        /\ [r EXCEPT !.rejected = x] \in CallRecord(tokens)
  BY DEF CallRecord
<1>6. \A x \in Nat : [r EXCEPT !.since = x] \in CallRecord(tokens)
  BY DEF CallRecord
<1>7. \A x \in PageLists : [r EXCEPT !.pages = x] \in CallRecord(tokens)
  BY DEF CallRecord
<1>8. \A x \in 0 .. MaxMoves : [r EXCEPT !.at = x] \in CallRecord(tokens)
  BY DEF CallRecord
<1>9. \A x \in Github!CommentIds \cup {None} :
        [r EXCEPT !.existing = x] \in CallRecord(tokens)
  BY DEF CallRecord
<1> QED
  BY <1>1, <1>2, <1>3, <1>4, <1>5, <1>6, <1>7, <1>8, <1>9

\* A call that has not begun, or failed, or is done holds nothing.
LEMMA EndedIsSound ==
    ASSUME NEW mints, NEW r \in {Github!Idle, Github!Failed, Github!Done}
    PROVE  /\ Sound(r, mints) /\ r.kind = None
           /\ r.pc \in {"idle"} \cup Github!Ended
           /\ r.own = None /\ r.existing = None /\ r.pages = <<>>
           /\ r.expected = None /\ r.token = None /\ r.rejected = None
           /\ r = Github!Idle \/ r.pc # "idle"
<1> USE GithubAssumption
<1>1. <<>> \in PageLists
  BY PagesGrow
<1>2. /\ r.kind = None /\ r.pc \in {"idle"} \cup Github!Ended
      /\ r.own = None /\ r.existing = None /\ r.pages = <<>>
      /\ r.expected = None /\ r.token = None /\ r.rejected = None /\ r.fresh = FALSE
      /\ r = Github!Idle \/ r.pc # "idle"
  BY DEF Github!Idle, Github!Failed, Github!Done, Github!Ended
<1>3. r \in CallRecord(1 .. Len(mints))
  <2>1. Github!Idle \in CallRecord(1 .. Len(mints))
    BY IdleIsACall
  <2> QED
    BY <2>1 DEF CallRecord, Github!Failed, Github!Done, Steps, Github!Ended
<1>4. Fits(r)
  BY <1>2 DEF Fits, Github!Ended, Github!Kinds
<1> QED
  BY <1>2, <1>3, <1>4 DEF Sound, IsFresh

\* A call that begins with a token is sound (installationTokens.get, getFresh).
LEMMA StartIsSound ==
    ASSUME NEW mints, NEW kind \in Github!Kinds, NEW fresh \in BOOLEAN,
           NEW expected \in Github!Editions \cup {None},
           kind = "comment" => ~fresh /\ expected # None,
           NEW token \in 1 .. Len(mints), token # None, NEW since \in Nat,
           fresh => mints[token].gen >= since,
           NEW rec, rec = Begun(kind, fresh, expected)
    PROVE  /\ \A r : r = HoldsFresh(rec, token, since) =>
                /\ Sound(r, mints) /\ r.kind = kind /\ r.own = None
                /\ r.pc \in {"minting", "initial", "find", "head"}
           /\ \A stage \in {"minting", Github!Granted(rec)} : \A r :
                ~fresh /\ r = Holds(rec, token, stage) =>
                  /\ Sound(r, mints) /\ r.kind = kind /\ r.own = None
                  /\ r.pc \in {"minting", "initial", "find", "head"}
<1> SUFFICES ASSUME NEW then, NEW r,
                    \/ ~fresh /\ r = [rec EXCEPT !.token = token, !.pc = then]
                    \/ r = [rec EXCEPT !.token = token, !.since = since, !.pc = then],
                    rec = [Github!Idle EXCEPT !.kind = kind, !.fresh = fresh,
                                       !.expected = expected],
                    then \in {"minting", Github!Granted(rec)}
             PROVE  /\ Sound(r, mints) /\ r.kind = kind /\ r.own = None
                    /\ r.pc \in {"minting", "initial", "find", "head"}
  BY DEF Holds, HoldsFresh, Begun
<1> DEFINE tokens == 1 .. Len(mints)
<1> HIDE DEF tokens
<1> USE GithubAssumption
<1>1. rec \in CallRecord(tokens)
  <2> DEFINE r1 == [Github!Idle EXCEPT !.kind = kind]
             r2 == [r1 EXCEPT !.fresh = fresh]
             r3 == [r2 EXCEPT !.expected = expected]
  <2> HIDE DEF r1, r2, r3
  <2>1. r1 \in CallRecord(tokens)
    BY IdleIsACall, FieldChanges DEF r1
  <2>2. r2 \in CallRecord(tokens)
    BY <2>1, FieldChanges DEF r2
  <2>3. r3 \in CallRecord(tokens)
    BY <2>2, FieldChanges DEF r3
  <2> QED
    BY <2>3, Zenon DEF r1, r2, r3
<1>2. /\ rec.kind = kind /\ rec.fresh = fresh /\ rec.expected = expected
      /\ rec.own = None /\ rec.rejected = None /\ rec.pages = <<>>
  BY DEF Github!Idle
<1>3. /\ then \in {"minting", "initial", "find", "head"}
      /\ then = "find" => kind = "comment"
      /\ kind = "comment" => then \in {"minting", "find"}
  BY <1>2 DEF Github!Granted, Github!Kinds
<1>4. token \in tokens \cup {None} /\ then \in Steps
  BY <1>3 DEF tokens, Steps
<1>5. r \in CallRecord(tokens)
  <2> DEFINE r1 == [rec EXCEPT !.token = token]
             r2 == [r1 EXCEPT !.since = since]
  <2> HIDE DEF r1, r2
  <2>1. r1 \in CallRecord(tokens)
    BY <1>1, <1>4, FieldChanges DEF r1
  <2>2. r2 \in CallRecord(tokens)
    BY <2>1, FieldChanges DEF r2
  <2>3. /\ [r1 EXCEPT !.pc = then] \in CallRecord(tokens)
        /\ [r2 EXCEPT !.pc = then] \in CallRecord(tokens)
    BY <2>1, <2>2, <1>4, FieldChanges
  <2>4. r = [r1 EXCEPT !.pc = then] \/ r = [r2 EXCEPT !.pc = then]
    BY Zenon DEF r1, r2
  <2> QED
    BY <2>3, <2>4
<1>6. /\ r.kind = kind /\ r.fresh = fresh /\ r.expected = expected
      /\ r.token = token
      /\ r.pc = then /\ r.own = None /\ r.rejected = None /\ r.pages = <<>>
      /\ ~fresh \/ r.since = since
  <2>1. CASE ~fresh /\ r = [rec EXCEPT !.token = token, !.pc = then]
    BY <1>1, <1>2, <2>1 DEF CallRecord
  <2>2. CASE r = [rec EXCEPT !.token = token, !.since = since, !.pc = then]
    BY <1>1, <1>2, <2>2 DEF CallRecord
  <2> QED
    BY <2>1, <2>2
<1> HIDE DEF tokens
<1>7. Fits(r)
  BY <1>3, <1>6 DEF Fits, Github!Ended
<1>8. IsFresh(r, mints)
  BY <1>6 DEF IsFresh
<1> QED
  BY <1>3, <1>5, <1>6, <1>7, <1>8 DEF Sound, tokens

\* A read that starts over after a 401 is sound (the one retry of
\* withInstallationAuthorization).
LEMMA AgainIsSound ==
    ASSUME NEW mints, NEW old, Sound(old, mints),
           old.pc \in {"initial", "pages", "final", "head"},
           NEW token \in 1 .. Len(mints), token # None, token # old.token,
           NEW rec, rec = Again(old),
           NEW stage \in {"minting", Github!Granted(rec)}
    PROVE  \A r : r = Holds(rec, token, stage) =>
             /\ Sound(r, mints)
             /\ r.kind = old.kind /\ r.own = old.own /\ r.existing = old.existing
             /\ r.pc \in {"minting", "initial", "find", "head"}
<1> SUFFICES ASSUME NEW r, r = [rec EXCEPT !.token = token, !.pc = stage],
                    rec = [old EXCEPT !.rejected = old.token, !.seen = None, !.pages = <<>>]
             PROVE  /\ Sound(r, mints)
                    /\ r.kind = old.kind /\ r.own = old.own
                    /\ r.existing = old.existing
                    /\ r.pc \in {"minting", "initial", "find", "head"}
  BY DEF Holds, Again
<1> DEFINE tokens == 1 .. Len(mints)
<1> USE GithubAssumption
<1>0. old \in CallRecord(tokens) /\ Fits(old)
  BY DEF Sound
<1>1. token \in tokens \cup {None}
  OBVIOUS
<1> HIDE DEF tokens
<1>2. old.token \in tokens \cup {None} /\ old.token # None
  BY <1>0 DEF CallRecord, Fits, Github!Ended
<1>3. rec \in CallRecord(tokens)
  <2> DEFINE none == <<>>
             r1 == [old EXCEPT !.rejected = old.token]
             r2 == [r1 EXCEPT !.seen = None]
             r3 == [r2 EXCEPT !.pages = none]
  <2>0. none \in PageLists
    BY PagesGrow
  <2> HIDE DEF r1, r2, r3, none
  <2>1. r1 \in CallRecord(tokens)
    BY <1>0, <1>2, FieldChanges DEF r1
  <2>2. r2 \in CallRecord(tokens)
    BY <2>1, FieldChanges DEF r2
  <2>3. r3 \in CallRecord(tokens)
    BY <2>0, <2>2, FieldChanges DEF r3
  <2> QED
    BY <2>3, Zenon DEF r1, r2, r3, none
<1>4. /\ rec.kind = old.kind /\ rec.fresh = old.fresh /\ rec.expected = old.expected
      /\ rec.own = old.own /\ rec.rejected = old.token /\ rec.pages = <<>>
      /\ rec.existing = old.existing
  BY <1>0 DEF CallRecord
<1>5. /\ stage \in {"minting", "initial", "find", "head"}
      /\ stage = "find" => old.kind = "comment" /\ old.own = None
      /\ old.kind = "comment" => stage \in {"minting", "find", "head"}
  BY <1>4 DEF Github!Granted
<1>6. old.kind = "comment" => old.own # None
  BY <1>0 DEF Fits
<1>7. r \in CallRecord(tokens)
  <2> DEFINE r1 == [rec EXCEPT !.token = token]
  <2> HIDE DEF r1
  <2>1. r1 \in CallRecord(tokens)
    BY <1>3, <1>1, FieldChanges DEF r1
  <2>2. [r1 EXCEPT !.pc = stage] \in CallRecord(tokens)
    BY <2>1, <1>5, FieldChanges DEF Steps
  <2>3. r = [r1 EXCEPT !.pc = stage]
    BY Zenon DEF r1
  <2> QED
    BY <2>2, <2>3
<1>8. /\ r.kind = old.kind /\ r.fresh = old.fresh /\ r.expected = old.expected
      /\ r.token = token /\ r.pc = stage /\ r.own = old.own
      /\ r.rejected = old.token
      /\ r.pages = <<>> /\ r.existing = old.existing
  BY <1>3, <1>4 DEF CallRecord
<1>9. Fits(r)
  BY <1>0, <1>2, <1>5, <1>6, <1>8 DEF Fits, Github!Ended
<1>10. IsFresh(r, mints)
  BY <1>2, <1>8 DEF IsFresh
<1> QED
  BY <1>5, <1>7, <1>8, <1>9, <1>10 DEF Sound, tokens

\* An upsert that has found its comment, or none, is sound (findExisting).
LEMMA FoundIsSound ==
    ASSUME NEW mints, NEW old, Sound(old, mints), old.pc = "find",
           NEW token \in 1 .. Len(mints), token # None,
           NEW existing \in Github!CommentIds \cup {None},
           NEW rec, rec = Found(old, existing),
           NEW stage \in {"minting", Github!Granted(rec)}
    PROVE  \A r : r = Holds(rec, token, stage) =>
             /\ Sound(r, mints)
             /\ r.kind = "comment" /\ r.own # None /\ r.existing = existing
             /\ r.pc \in {"minting", "head"}
<1> SUFFICES ASSUME NEW r, r = [rec EXCEPT !.token = token, !.pc = stage],
                    rec = [old EXCEPT !.own = old.token, !.existing = existing]
             PROVE  /\ Sound(r, mints)
                    /\ r.kind = "comment" /\ r.own # None /\ r.existing = existing
                    /\ r.pc \in {"minting", "head"}
  BY DEF Holds, Found
<1> DEFINE tokens == 1 .. Len(mints)
<1> USE GithubAssumption
<1>0. old \in CallRecord(tokens) /\ Fits(old)
  BY DEF Sound
<1>1. token \in tokens \cup {None}
  OBVIOUS
<1> HIDE DEF tokens
<1>2. /\ old.token \in tokens \cup {None} /\ old.token # None
      /\ old.kind = "comment"
      /\ ~old.fresh /\ old.expected # None /\ old.rejected = None
      /\ old.pages = <<>>
  BY <1>0 DEF CallRecord, Fits, Github!Ended
<1>3. rec \in CallRecord(tokens)
  <2> DEFINE r1 == [old EXCEPT !.own = old.token]
             r2 == [r1 EXCEPT !.existing = existing]
  <2> HIDE DEF r1, r2
  <2>1. r1 \in CallRecord(tokens)
    BY <1>0, <1>2, FieldChanges DEF r1
  <2>2. r2 \in CallRecord(tokens)
    BY <2>1, FieldChanges DEF r2
  <2> QED
    BY <2>2, Zenon DEF r1, r2
<1>4. /\ rec.kind = old.kind /\ rec.fresh = old.fresh /\ rec.expected = old.expected
      /\ rec.own = old.token /\ rec.rejected = None /\ rec.pages = <<>>
      /\ rec.existing = existing
  BY <1>0, <1>2 DEF CallRecord
<1>5. stage \in {"minting", "head"}
  BY <1>2, <1>4 DEF Github!Granted
<1>7. r \in CallRecord(tokens)
  <2> DEFINE r1 == [rec EXCEPT !.token = token]
  <2> HIDE DEF r1
  <2>1. r1 \in CallRecord(tokens)
    BY <1>3, <1>1, FieldChanges DEF r1
  <2>2. [r1 EXCEPT !.pc = stage] \in CallRecord(tokens)
    BY <2>1, <1>5, FieldChanges DEF Steps
  <2>3. r = [r1 EXCEPT !.pc = stage]
    BY Zenon DEF r1
  <2> QED
    BY <2>2, <2>3
<1>8. /\ r.kind = old.kind /\ r.fresh = old.fresh /\ r.expected = old.expected
      /\ r.token = token /\ r.pc = stage /\ r.own = old.token /\ r.rejected = None
      /\ r.pages = <<>> /\ r.existing = existing
  BY <1>3, <1>4 DEF CallRecord
<1>9. Fits(r)
  BY <1>2, <1>5, <1>8 DEF Fits, Github!Ended
<1>10. IsFresh(r, mints)
  BY <1>2, <1>8 DEF IsFresh
<1> QED
  BY <1>2, <1>5, <1>7, <1>8, <1>9, <1>10 DEF Sound, tokens

\* The step after a token was granted, and after a head was read.
LEMMA AdvancedIsSound ==
    ASSUME NEW mints, NEW old, Sound(old, mints),
           NEW stage, \/ old.pc = "minting" /\ stage = Github!Granted(old)
                      \/ old.pc = "head" /\ old.kind = "comment" /\ stage = "write",
           NEW r, r = [old EXCEPT !.pc = stage]
    PROVE  /\ Sound(r, mints)
           /\ r.kind = old.kind /\ r.own = old.own /\ r.existing = old.existing
           /\ r.pc = stage /\ stage \in {"initial", "find", "head", "write"}
<1> DEFINE tokens == 1 .. Len(mints)
<1> USE GithubAssumption
<1>0. old \in CallRecord(tokens) /\ Fits(old)
  BY DEF Sound
<1>1. /\ stage \in {"initial", "find", "head", "write"}
      /\ stage = "find" <=> old.kind = "comment" /\ old.own = None
      /\ stage = "write" => old.kind = "comment"
      /\ old.kind = "comment" => stage \in {"find", "head", "write"}
  BY <1>0 DEF Github!Granted, Fits
<1> HIDE DEF tokens
<1>2. r \in CallRecord(tokens)
  BY <1>0, <1>1, FieldChanges DEF Steps
<1>3. /\ r.kind = old.kind /\ r.fresh = old.fresh /\ r.expected = old.expected
      /\ r.token = old.token /\ r.pc = stage /\ r.own = old.own
      /\ r.rejected = old.rejected
      /\ r.since = old.since /\ r.pages = old.pages /\ r.existing = old.existing
  BY <1>0 DEF CallRecord
<1>4. Fits(r)
  BY <1>0, <1>1, <1>3 DEF Fits, Github!Ended
<1>5. IsFresh(r, mints)
  BY <1>3 DEF IsFresh, Sound
<1> QED
  BY <1>1, <1>2, <1>3, <1>4, <1>5 DEF Sound, tokens

\* The first read binds the edition it finds; a page is read from the present one.
LEMMA ReadingIsSound ==
    ASSUME WorldType, NEW mints, NEW old, Sound(old, mints)
    PROVE  \A r :
             (old.pc = "initial" /\ r = SeesEdition(old)) \/
             (old.pc = "pages" /\ r = SeesPage(old)) =>
               Sound(r, mints) /\ r.kind = old.kind /\ old.kind # "comment"
<1> SUFFICES ASSUME
      NEW r,
      \/ /\ old.pc = "initial"
         /\ r = [old EXCEPT !.pc = "pages", !.seen = edition, !.at = moves]
      \/ /\ old.pc = "pages"
         /\ r = [old EXCEPT !.pages = Append(@, edition),
                   !.pc = IF Len(old.pages) + 1 = Pages THEN "final" ELSE "pages"]
    PROVE  Sound(r, mints) /\ r.kind = old.kind /\ old.kind # "comment"
  BY DEF SeesEdition, SeesPage
<1> DEFINE tokens == 1 .. Len(mints)
<1> USE GithubAssumption
<1>0. old \in CallRecord(tokens) /\ Fits(old) /\ IsFresh(old, mints)
  BY DEF Sound
<1> HIDE DEF tokens
<1>1. old.kind # "comment"
  BY <1>0 DEF Fits
<1>2. CASE /\ old.pc = "initial"
           /\ r = [old EXCEPT !.pc = "pages", !.seen = edition, !.at = moves]
  <2> DEFINE r1 == [old EXCEPT !.pc = "pages"]
             r2 == [r1 EXCEPT !.seen = edition]
  <2> HIDE DEF r1, r2
  <2>1. r1 \in CallRecord(tokens)
    BY <1>0, FieldChanges DEF r1, Steps
  <2>2. r2 \in CallRecord(tokens)
    BY <2>1, FieldChanges DEF r2, WorldType
  <2>3. [r2 EXCEPT !.at = moves] \in CallRecord(tokens)
    BY <2>2, FieldChanges DEF WorldType
  <2>4. r = [r2 EXCEPT !.at = moves]
    BY <1>2, Zenon DEF r1, r2
  <2>5. /\ r.kind = old.kind /\ r.fresh = old.fresh /\ r.expected = old.expected
        /\ r.token = old.token /\ r.pc = "pages" /\ r.own = old.own
        /\ r.rejected = old.rejected /\ r.since = old.since /\ r.pages = old.pages
    BY <1>0, <1>2 DEF CallRecord
  <2>6. Len(r.pages) < Pages
    BY <1>0, <1>2, <2>5 DEF Fits
  <2>7. Fits(r) /\ IsFresh(r, mints)
    BY <1>0, <1>1, <1>2, <2>5, <2>6 DEF Fits, Github!Ended, IsFresh
  <2> QED
    BY <1>1, <2>3, <2>4, <2>5, <2>7 DEF Sound, tokens
<1>3. CASE /\ old.pc = "pages"
           /\ r = [old EXCEPT !.pages = Append(@, edition),
                     !.pc = IF Len(old.pages) + 1 = Pages THEN "final" ELSE "pages"]
  <2> DEFINE more == Append(old.pages, edition)
             stage == IF Len(old.pages) + 1 = Pages THEN "final" ELSE "pages"
             r1 == [old EXCEPT !.pages = more]
  <2>1. /\ old.pages \in PageLists /\ Len(old.pages) < Pages
    BY <1>0, <1>3 DEF CallRecord, Fits
  <2>2. /\ Len(old.pages) \in Nat /\ more \in PageLists
        /\ Len(more) = Len(old.pages) + 1
    BY <2>1, PagesGrow DEF WorldType
  <2>3. stage \in {"pages", "final"} /\ (stage = "pages" => Len(more) < Pages)
    BY <2>1, <2>2
  <2>4. r = [r1 EXCEPT !.pc = stage]
    BY <1>3, Zenon
  <2> HIDE DEF more, stage, r1
  <2>5. r1 \in CallRecord(tokens)
    BY <1>0, <2>2, FieldChanges DEF r1
  <2>6. r \in CallRecord(tokens)
    BY <2>3, <2>4, <2>5, FieldChanges DEF Steps
  <2>7. /\ r.kind = old.kind /\ r.fresh = old.fresh /\ r.expected = old.expected
        /\ r.token = old.token /\ r.pc = stage /\ r.own = old.own
        /\ r.rejected = old.rejected /\ r.since = old.since /\ r.pages = more
    BY <1>0, <2>4 DEF CallRecord, r1
  <2>8. Fits(r) /\ IsFresh(r, mints)
    BY <1>0, <1>1, <1>3, <2>3, <2>7 DEF Fits, Github!Ended, IsFresh
  <2> QED
    BY <1>1, <2>6, <2>7, <2>8 DEF Sound, tokens
<1> QED
  BY <1>2, <1>3

\* A snapshot that is handed out.
LEMMA SnapshotIsSound ==
    ASSUME NEW mints, NEW old, Sound(old, mints), NEW r,
           r = [Github!Done EXCEPT !.kind = "load", !.seen = old.seen,
                            !.pages = old.pages, !.at = old.at]
    PROVE  Sound(r, mints) /\ r.kind = "load"
<1> DEFINE tokens == 1 .. Len(mints)
<1> USE GithubAssumption
<1>0. old \in CallRecord(tokens)
  BY DEF Sound
<1>1. /\ Github!Done \in CallRecord(tokens) /\ Github!Done.token = None
      /\ Github!Done.pc = "done"
      /\ Github!Done.rejected = None /\ Github!Done.fresh = FALSE
  BY EndedIsSound DEF Sound, Github!Done, Github!Idle
<1> HIDE DEF tokens
<1>2. /\ old.seen \in Github!Editions \cup {None} /\ old.pages \in PageLists
      /\ old.at \in 0 .. MaxMoves /\ "load" \in Github!Kinds \cup {None}
  BY <1>0 DEF CallRecord, Github!Kinds
<1>3. r \in CallRecord(tokens)
  <2> DEFINE r1 == [Github!Done EXCEPT !.kind = "load"]
             r2 == [r1 EXCEPT !.seen = old.seen]
             r3 == [r2 EXCEPT !.pages = old.pages]
  <2> HIDE DEF r1, r2, r3
  <2>1. r1 \in CallRecord(tokens)
    BY <1>1, <1>2, FieldChanges DEF r1
  <2>2. r2 \in CallRecord(tokens)
    BY <2>1, <1>2, FieldChanges DEF r2
  <2>3. r3 \in CallRecord(tokens)
    BY <2>2, <1>2, FieldChanges DEF r3
  <2>4. [r3 EXCEPT !.at = old.at] \in CallRecord(tokens)
    BY <2>3, <1>2, FieldChanges
  <2> QED
    BY <2>4, Zenon DEF r1, r2, r3
<1>4. /\ r.kind = "load" /\ r.pc = "done" /\ r.token = None /\ r.rejected = None
  BY <1>1 DEF CallRecord
<1>5. Fits(r)
  BY <1>4 DEF Fits, Github!Ended
<1>6. IsFresh(r, mints)
  BY <1>4 DEF IsFresh
<1> QED
  BY <1>3, <1>4, <1>5, <1>6 DEF Sound, tokens

\* The part of the invariant about the cache and its callers.
CacheInv == MintType /\ SlotsAreCurrent /\ Github!CachedIsCurrent /\ CallsAreSound

\* A call that goes on keeps what its upsert has found.
GoesOn(old, r) ==
  \/ r = old
  \/ /\ old.pc \notin Github!Ended
     /\ r.kind = "comment" =>
          old.kind = "comment" /\ r.own = old.own /\ r.existing = old.existing

\* A call that neither reads pages nor hands out a snapshot.
ReadsNothing(old, r) ==
  r = old \/ (r.pc \notin {"pages", "final"} /\ ~(r.kind = "load" /\ r.pc = "done"))

\* Every call is sound.
LEMMA SoundCall ==
    ASSUME CacheInv, NEW c \in Calls
    PROVE  Sound(call[c], mint) /\ Fits(call[c]) /\ call[c].pc \in Steps
  BY DEF CacheInv, CallsAreSound, Sound, CallRecord

\* Without a mint the tokens stay.
LEMMA SameMints ==
    ASSUME MintType, UNCHANGED mint
    PROVE  Extends(mint, mint')
  BY DEF Extends, MintType

\* Tokens that are added extend the list.
LEMMA MoreMints ==
    ASSUME MintType, MintType', Github!Minted \subseteq Github!Minted',
           \A i \in Github!Minted : mint'[i] = mint[i]
    PROVE  Extends(mint, mint')
<1>1. Len(mint) \in Nat /\ Len(mint') \in Nat
  BY DEF MintType
<1>2. Len(mint) <= Len(mint')
  BY <1>1 DEF Github!Minted
<1> QED
  BY <1>1, <1>2 DEF Extends, Github!Minted

\* A step of one call leaves the others.
LEMMA CallBecomes ==
    ASSUME CallsAreSound, NEW c \in Calls, NEW r, call' = [call EXCEPT ![c] = r]
    PROVE  call'[c] = r /\ \A d \in Calls : d # c => call'[d] = call[d]
  BY DEF CallsAreSound

\* A call begins.
LEMMA StartStep ==
    ASSUME CacheInv, WorldType, NEW c \in Calls, Github!Start(c)
    PROVE  /\ CacheInv'
           /\ \A d \in Calls : ReadsNothing(call[d], call'[d])
           /\ call[c].kind = None
           /\ call'[c].own = None /\ \A d \in Calls : d # c => call'[d] = call[d]
           /\ excused' = (excused \/ (call'[c].kind = "comment" /\ Github!Upserting # {}))
<1> USE GithubAssumption
<1>1. PICK kind \in Github!Kinds, fresh \in BOOLEAN :
        /\ Github!At(c, "idle")
        /\ kind = "comment" => ~fresh
        /\ \E expected \in Github!Expectations(kind) :
             LET rec == [call[c] EXCEPT !.kind = kind, !.fresh = fresh,
                                        !.expected = expected] IN
             IF fresh THEN Github!GetFresh(c, rec) ELSE Github!Get(c, rec, cached)
        /\ excused' = (excused \/ (kind = "comment" /\ Github!Upserting # {}))
  BY DEF Github!Start
<1>2. call[c] = Github!Idle
  BY <1>1, SoundCall DEF Fits, Github!At
<1>3. PICK expected \in Github!Expectations(kind) :
        LET rec == [call[c] EXCEPT !.kind = kind, !.fresh = fresh,
                                   !.expected = expected] IN
        IF fresh THEN Github!GetFresh(c, rec) ELSE Github!Get(c, rec, cached)
  BY <1>1
<1>4. expected \in Github!Editions \cup {None} /\ (kind = "comment" => expected # None)
  BY DEF Github!Expectations, Github!Kinds, Github!Editions, WorldType
<1> DEFINE rec == [Github!Idle EXCEPT !.kind = kind, !.fresh = fresh, !.expected = expected]
<1>5. IF fresh THEN Github!GetFresh(c, rec) ELSE Github!Get(c, rec, cached)
  BY <1>2, <1>3
<1>6. rec = Begun(kind, fresh, expected)
  BY DEF Begun
<1> HIDE DEF rec
<1>7. ASSUME NEW r, Sound(r, mint'), r.kind = kind, r.own = None,
             r.pc \in {"minting", "initial", "find", "head"},
             call' = [call EXCEPT ![c] = r],
             MintType' /\ SlotsAreCurrent' /\ Github!CachedIsCurrent',
             Extends(mint, mint')
      PROVE  /\ CacheInv'
             /\ \A d \in Calls : ReadsNothing(call[d], call'[d])
             /\ call'[c].own = None /\ \A d \in Calls : d # c => call'[d] = call[d]
             /\ call'[c].kind = kind
  <2>1. call'[c] = r /\ \A d \in Calls : d # c => call'[d] = call[d]
    BY <1>7, CallBecomes DEF CacheInv
  <2>2. CallsAreSound'
    BY <1>7, OneCallChanges DEF CacheInv
  <2> QED
    BY <1>7, <2>1, <2>2 DEF CacheInv, ReadsNothing
<1>8. CASE fresh
  <2>1. Github!GetFresh(c, rec)
    BY <1>5, <1>8
  <2>2. PICK token \in Github!Minted', since \in Nat :
          /\ call' = [call EXCEPT ![c] =
               [rec EXCEPT !.token = token, !.since = since, !.pc = "minting"]]
          /\ token # None /\ mint'[token].gen >= since
    BY <2>1, GetFreshDoes DEF CacheInv
  <2>3. MintType' /\ SlotsAreCurrent' /\ Github!CachedIsCurrent' /\ Extends(mint, mint')
    BY <2>1, GetFreshDoes, MoreMints DEF CacheInv
  <2> DEFINE r == HoldsFresh(rec, token, since)
  <2>5. call' = [call EXCEPT ![c] = r]
    BY <2>2 DEF Holds, HoldsFresh
  <2>6. token \in 1 .. Len(mint') /\ (kind = "comment" => ~fresh /\ expected # None)
    BY <1>1, <1>4 DEF Github!Minted
  <2>7. /\ Sound(r, mint') /\ r.kind = kind /\ r.own = None
        /\ r.pc \in {"minting", "initial", "find", "head"}
    <3>1. /\ "minting" \in {"minting", Github!Granted(rec)}
          /\ fresh => mint'[token].gen >= since
      BY <2>2
    <3> QED
      BY <1>4, <1>6, <2>2, <2>6, <3>1, StartIsSound
  <2> HIDE DEF r
  <2>8. /\ CacheInv'
        /\ \A d \in Calls : ReadsNothing(call[d], call'[d])
        /\ call'[c].own = None /\ \A d \in Calls : d # c => call'[d] = call[d]
        /\ call'[c].kind = kind
    BY <1>7, <2>3, <2>5, <2>7
  <2>9. call[c].kind = None
    BY <1>2 DEF Github!Idle
  <2> QED
    BY <1>1, <2>8, <2>9
<1>9. CASE ~fresh
  <2>1. Github!Get(c, rec, cached)
    BY <1>5, <1>9
  <2>2. PICK token, stage :
          /\ call' = [call EXCEPT ![c] = [rec EXCEPT !.token = token, !.pc = stage]]
          /\ stage \in {"minting", Github!Granted(rec)}
          /\ token \in Github!Minted' /\ token # None
          /\ token \in Github!Minted => token = cached \/ mint[token].st = "running"
    BY <2>1, GetDoes DEF CacheInv
  <2>3. MintType' /\ SlotsAreCurrent' /\ Github!CachedIsCurrent' /\ Extends(mint, mint')
    BY <2>1, GetDoes, MoreMints DEF CacheInv
  <2> DEFINE r == Holds(rec, token, stage)
  <2>5. call' = [call EXCEPT ![c] = r]
    BY <2>2 DEF Holds, HoldsFresh
  <2>6. token \in 1 .. Len(mint') /\ (kind = "comment" => ~fresh /\ expected # None)
    BY <1>1, <1>4, <2>2 DEF Github!Minted
  <2>7. /\ Sound(r, mint') /\ r.kind = kind /\ r.own = None
        /\ r.pc \in {"minting", "initial", "find", "head"}
    BY <1>4, <1>6, <1>9, <2>2, <2>6, StartIsSound
  <2> HIDE DEF r
  <2>8. /\ CacheInv'
        /\ \A d \in Calls : ReadsNothing(call[d], call'[d])
        /\ call'[c].own = None /\ \A d \in Calls : d # c => call'[d] = call[d]
        /\ call'[c].kind = kind
    BY <1>7, <2>3, <2>5, <2>7
  <2>9. call[c].kind = None
    BY <1>2 DEF Github!Idle
  <2> QED
    BY <1>1, <2>8, <2>9
<1> QED
  BY <1>8, <1>9

\* A step of one call that keeps its kind, its client and its comment.
LEMMA OneGoesOn ==
    ASSUME CacheInv, NEW c \in Calls, NEW r, call' = [call EXCEPT ![c] = r],
           Sound(r, mint'), Extends(mint, mint'),
           MintType' /\ SlotsAreCurrent' /\ Github!CachedIsCurrent',
           GoesOn(call[c], r)
    PROVE  CacheInv' /\ \A d \in Calls : GoesOn(call[d], call'[d])
<1>1. call'[c] = r /\ \A d \in Calls : d # c => call'[d] = call[d]
  BY CallBecomes DEF CacheInv
<1>2. CallsAreSound'
  BY OneCallChanges DEF CacheInv
<1> QED
  BY <1>1, <1>2 DEF CacheInv, GoesOn

\* A call ends, in failure or not.
LEMMA CallEnds ==
    ASSUME CacheInv, NEW c \in Calls, call[c].pc \notin Github!Ended,
           NEW r \in {Github!Failed, Github!Done}, call' = [call EXCEPT ![c] = r],
           UNCHANGED <<mint, pending, refreshing, gen>>, cached' \in {cached, None}
    PROVE  /\ CacheInv'
           /\ \A d \in Calls : GoesOn(call[d], call'[d])
           /\ \A d \in Calls : ReadsNothing(call[d], call'[d])
           /\ call'[c].kind = None /\ \A d \in Calls : d # c => call'[d] = call[d]
<1>1. MintType' /\ SlotsAreCurrent' /\ Github!CachedIsCurrent'
  BY DEF CacheInv, MintType, SlotsAreCurrent, Github!CachedIsCurrent, Github!Minted
<1>2. Sound(r, mint') /\ r.kind = None
  BY EndedIsSound
<1>3. GoesOn(call[c], r)
  BY <1>2, GithubAssumption DEF GoesOn, Github!Kinds
<1>4. CacheInv' /\ \A d \in Calls : GoesOn(call[d], call'[d])
  BY <1>1, <1>2, <1>3, OneGoesOn, SameMints DEF CacheInv
<1>5. r.pc \in Github!Ended
  BY DEF Github!Failed, Github!Done, Github!Idle, Github!Ended
<1>6. call'[c] = r /\ \A d \in Calls : d # c => call'[d] = call[d]
  BY CallBecomes DEF CacheInv
<1>7. \A d \in Calls : ReadsNothing(call[d], call'[d])
  BY <1>2, <1>5, <1>6, GithubAssumption DEF ReadsNothing, Github!Ended, Github!Kinds
<1> QED
  BY <1>2, <1>4, <1>6, <1>7

\* A 401 drops the cached token and starts a read over at most once.
LEMMA UnauthorizedStep ==
    ASSUME CacheInv, NEW c \in Calls, Github!Unauthorized(c)
    PROVE  /\ CacheInv'
           /\ \A d \in Calls : GoesOn(call[d], call'[d])
           /\ \A d \in Calls : ReadsNothing(call[d], call'[d])
<1> USE GithubAssumption
<1>0. call[c].pc \notin Github!Ended
  BY DEF Github!Unauthorized, Github!Requesting, Github!Ended
<1>1. CASE /\ cached' = Github!Invalidated
           /\ call' = [call EXCEPT ![c] = Github!Failed]
           /\ UNCHANGED <<mint, pending, refreshing, gen>>
  BY <1>0, <1>1, CallEnds DEF Github!Invalidated
<1> DEFINE rec == [call[c] EXCEPT !.rejected = call[c].token, !.seen = None, !.pages = <<>>]
<1>2. CASE /\ call[c].rejected = None
           /\ call[c].pc \notin {"find", "write"}
           /\ Github!Get(c, rec, Github!Invalidated)
  <2>1. Sound(call[c], mint) /\ call[c].pc \in {"initial", "pages", "final", "head"}
    BY <1>2, SoundCall DEF Github!Unauthorized, Github!Requesting
  <2>2. call[c].token \in Github!Minted
    BY <2>1 DEF Sound, Fits, CallRecord, Github!Ended, Github!Minted
  <2>3. mint[call[c].token].st = "revoked"
    BY <1>2 DEF Github!Unauthorized, Github!Authorized, Github!Carried, Github!At
  <2>4. rec = Again(call[c])
    BY DEF Again
  <2> HIDE DEF rec
  <2>5. Github!Get(c, rec, None)
    BY <1>2 DEF Github!Invalidated
  <2>6. PICK token, stage :
          /\ call' = [call EXCEPT ![c] = [rec EXCEPT !.token = token, !.pc = stage]]
          /\ stage \in {"minting", Github!Granted(rec)}
          /\ token \in Github!Minted' /\ token # None
          /\ token \in Github!Minted => token = None \/ mint[token].st = "running"
    BY <2>5, GetDoes DEF CacheInv
  <2>7. MintType' /\ SlotsAreCurrent' /\ Github!CachedIsCurrent' /\ Extends(mint, mint')
    BY <2>5, GetDoes, MoreMints DEF CacheInv
  <2>8. token # call[c].token
    BY <2>2, <2>3, <2>6
  <2>9. Sound(call[c], mint')
    BY <2>1, <2>7, SoundStays
  <2> DEFINE r == Holds(rec, token, stage)
  <2>11. call' = [call EXCEPT ![c] = r]
    BY <2>6 DEF Holds
  <2>16. token \in 1 .. Len(mint')
    BY <2>6 DEF Github!Minted
  <2>10. /\ Sound(r, mint')
         /\ r.kind = call[c].kind /\ r.own = call[c].own
         /\ r.existing = call[c].existing
         /\ r.pc \in {"minting", "initial", "find", "head"}
    BY <2>1, <2>4, <2>6, <2>8, <2>9, <2>16, AgainIsSound
  <2> HIDE DEF r
  <2>12. GoesOn(call[c], r)
    BY <1>0, <2>10 DEF GoesOn
  <2>13. CacheInv' /\ \A d \in Calls : GoesOn(call[d], call'[d])
    BY <2>7, <2>10, <2>11, <2>12, OneGoesOn
  <2>14. \A d \in Calls : ReadsNothing(call[d], call'[d])
    BY <2>10, <2>11, CallBecomes DEF ReadsNothing, CacheInv
  <2> QED
    BY <2>13, <2>14
<1> QED
  BY <1>1, <1>2 DEF Github!Unauthorized

\* A step that leaves the cache alone.
LEMMA CacheSame ==
    ASSUME CacheInv, UNCHANGED Github!cache
    PROVE  /\ MintType' /\ SlotsAreCurrent' /\ Github!CachedIsCurrent'
           /\ Extends(mint, mint')
           /\ UNCHANGED <<mint, cached, pending, refreshing, gen>>
<1>1. UNCHANGED <<mint, cached, pending, refreshing, gen>>
  BY DEF Github!cache
<1> QED
  BY <1>1, SameMints DEF CacheInv, MintType, SlotsAreCurrent,
      Github!CachedIsCurrent, Github!Minted

\* A step that leaves cache and calls alone.
LEMMA CacheInvSame ==
    ASSUME CacheInv, UNCHANGED Github!cache, UNCHANGED call
    PROVE  CacheInv'
  BY CacheSame, NoCallChanges DEF CacheInv

\* The upsert that found no comment did so when there was none (findExisting).
LEMMA FindStep ==
    ASSUME CacheInv, WorldType, NEW c \in Calls, Github!Find(c)
    PROVE  /\ CacheInv'
           /\ \A d \in Calls : ReadsNothing(call[d], call'[d])
           /\ call[c].kind = "comment" /\ call[c].pc \notin Github!Ended
           /\ call'[c].kind = "comment" /\ call'[c].existing = None => comments = {}
           /\ \A d \in Calls : d # c => call'[d] = call[d]
<1> USE GithubAssumption
<1>0. Sound(call[c], mint) /\ call[c].pc = "find" /\ call[c].kind = "comment"
  BY SoundCall DEF Github!Find, Github!At, Fits
<1>1. CASE call' = [call EXCEPT ![c] = Github!Failed] /\ UNCHANGED Github!cache
  <2>1. call'[c].kind = None
    BY <1>0, <1>1, CallEnds, CacheSame DEF Github!Ended
  <2>2. call'[c].kind # "comment"
    BY <2>1 DEF Github!Kinds
  <2> QED
    BY <1>0, <1>1, <2>2, CallEnds, CacheSame DEF Github!Ended
<1>2. CASE Github!Get(c, [call[c] EXCEPT !.own = call[c].token,
                     !.existing = IF comments = {} THEN None
                       ELSE (CHOOSE k \in comments : TRUE).id], cached)
  <2> DEFINE existing == IF comments = {} THEN None
                         ELSE (CHOOSE k \in comments : TRUE).id
             rec == Found(call[c], existing)
  <2>1. existing \in Github!CommentIds \cup {None} /\ (existing = None => comments = {})
    BY DEF WorldType
  <2>2. Github!Get(c, rec, cached)
    BY <1>2 DEF Found
  <2> HIDE DEF existing
  <2>3. rec = Found(call[c], existing)
    OBVIOUS
  <2> HIDE DEF rec
  <2>4. PICK token, stage :
          /\ call' = [call EXCEPT ![c] = [rec EXCEPT !.token = token, !.pc = stage]]
          /\ stage \in {"minting", Github!Granted(rec)}
          /\ token \in Github!Minted' /\ token # None
          /\ token \in Github!Minted => token = cached \/ mint[token].st = "running"
    BY <2>2, GetDoes DEF CacheInv
  <2>5. MintType' /\ SlotsAreCurrent' /\ Github!CachedIsCurrent' /\ Extends(mint, mint')
    BY <2>2, GetDoes, MoreMints DEF CacheInv
  <2>6. Sound(call[c], mint')
    BY <1>0, <2>5, SoundStays
  <2> DEFINE r == Holds(rec, token, stage)
  <2>7. call' = [call EXCEPT ![c] = r]
    BY <2>4 DEF Holds
  <2>8. token \in 1 .. Len(mint')
    BY <2>4 DEF Github!Minted
  <2>9. /\ Sound(r, mint')
        /\ r.kind = "comment" /\ r.own # None /\ r.existing = existing
        /\ r.pc \in {"minting", "head"}
    BY <1>0, <2>1, <2>3, <2>4, <2>6, <2>8, FoundIsSound
  <2> HIDE DEF r
  <2>10. call'[c] = r /\ \A d \in Calls : d # c => call'[d] = call[d]
    BY <2>7, CallBecomes DEF CacheInv
  <2>11. CallsAreSound'
    BY <2>5, <2>7, <2>9, OneCallChanges DEF CacheInv
  <2> QED
    BY <1>0, <2>1, <2>5, <2>9, <2>10, <2>11 DEF CacheInv, ReadsNothing, Github!Ended
<1> QED
  BY <1>1, <1>2 DEF Github!Find

\* A request fails.
LEMMA FailsStep ==
    ASSUME CacheInv, NEW c \in Calls, Github!Fails(c)
    PROVE  /\ CacheInv'
           /\ \A d \in Calls : GoesOn(call[d], call'[d])
           /\ \A d \in Calls : ReadsNothing(call[d], call'[d])
<1>1. /\ call[c].pc \notin Github!Ended
      /\ call' = [call EXCEPT ![c] = Github!Failed] /\ UNCHANGED Github!cache
  BY DEF Github!Fails, Github!Requesting, Github!Ended
<1> QED
  BY <1>1, CallEnds, CacheSame

\* A read fails, goes on with a page, or hands out what it has read.
LEMMA ReadStep ==
    ASSUME CacheInv, WorldType, NEW c \in Calls,
           Github!ReadInitial(c) \/ Github!ReadPage(c) \/ Github!ReadFinal(c)
    PROVE  /\ CacheInv'
           /\ \A d \in Calls : GoesOn(call[d], call'[d])
           /\ \A d \in Calls : d # c => call'[d] = call[d]
<1>0. /\ Sound(call[c], mint) /\ call[c].pc \notin Github!Ended
      /\ UNCHANGED Github!cache
      /\ call[c].pc \in {"initial", "pages", "final"}
  BY SoundCall DEF Github!ReadInitial, Github!ReadPage, Github!ReadFinal,
      Github!At, Github!Ended
<1>1. ASSUME NEW r, call' = [call EXCEPT ![c] = r], Sound(r, mint), r.kind # "comment"
      PROVE  /\ CacheInv'
             /\ \A d \in Calls : GoesOn(call[d], call'[d])
             /\ \A d \in Calls : d # c => call'[d] = call[d]
  <2>1. Sound(r, mint') /\ GoesOn(call[c], r)
    BY <1>0, <1>1, CacheSame DEF GoesOn
  <2>2. \A d \in Calls : d # c => call'[d] = call[d]
    BY <1>1, CallBecomes DEF CacheInv
  <2> QED
    BY <1>0, <1>1, <2>1, <2>2, OneGoesOn, CacheSame
<1>2. CASE call' = [call EXCEPT ![c] = Github!Failed]
  <2>1. Sound(Github!Failed, mint) /\ Github!Failed.kind # "comment"
    BY EndedIsSound, GithubAssumption DEF Github!Kinds
  <2> QED
    BY <1>1, <1>2, <2>1
<1>3. CASE Github!ReadInitial(c) /\ edition[1] = call[c].expected[1]
  <2> DEFINE r == SeesEdition(call[c])
  <2>1. call' = [call EXCEPT ![c] = r] /\ call[c].pc = "initial"
    BY <1>3 DEF Github!ReadInitial, Github!At, SeesEdition
  <2>3. Sound(r, mint) /\ r.kind # "comment"
    BY <1>0, <2>1, ReadingIsSound
  <2> HIDE DEF r
  <2> QED
    BY <1>1, <2>1, <2>3
<1>4. CASE Github!ReadPage(c)
  <2> DEFINE r == SeesPage(call[c])
  <2>1. call' = [call EXCEPT ![c] = r] /\ call[c].pc = "pages"
    BY <1>4 DEF Github!ReadPage, Github!At, CacheInv, CallsAreSound, SeesPage
  <2>4. Sound(r, mint) /\ r.kind # "comment"
    BY <1>0, <2>1, ReadingIsSound
  <2> HIDE DEF r
  <2> QED
    BY <1>1, <2>1, <2>4
<1>5. CASE Github!ReadFinal(c) /\ Github!SameEdition(c)
  <2> DEFINE r == [Github!Done EXCEPT !.kind = "load", !.seen = call[c].seen,
                                 !.pages = call[c].pages, !.at = call[c].at]
  <2>1. call' = [call EXCEPT ![c] = r]
    BY <1>5 DEF Github!ReadFinal
  <2>2. Sound(r, mint) /\ r.kind # "comment"
    BY <1>0, SnapshotIsSound
  <2> HIDE DEF r
  <2> QED
    BY <1>1, <2>1, <2>2
<1> QED
  BY <1>2, <1>3, <1>4, <1>5 DEF Github!ReadInitial, Github!ReadFinal

\* The head is read (getCurrentHead, assertCurrentHead).
LEMMA ReadHeadStep ==
    ASSUME CacheInv, NEW c \in Calls, Github!ReadHead(c)
    PROVE  /\ CacheInv'
           /\ \A d \in Calls : GoesOn(call[d], call'[d])
           /\ \A d \in Calls : ReadsNothing(call[d], call'[d])
<1>0. Sound(call[c], mint) /\ call[c].pc = "head" /\ UNCHANGED Github!cache
  BY SoundCall DEF Github!ReadHead, Github!At
<1>1. \/ \E r \in {Github!Failed, Github!Done} : call' = [call EXCEPT ![c] = r]
      \/ /\ call[c].kind = "comment"
         /\ call' = [call EXCEPT ![c] = [call[c] EXCEPT !.pc = "write"]]
  BY DEF Github!ReadHead
<1>2. CASE \E r \in {Github!Failed, Github!Done} : call' = [call EXCEPT ![c] = r]
  BY <1>0, <1>2, CallEnds, CacheSame DEF Github!Ended
<1>3. CASE /\ call[c].kind = "comment"
           /\ call' = [call EXCEPT ![c] = [call[c] EXCEPT !.pc = "write"]]
  <2> DEFINE r == [call[c] EXCEPT !.pc = "write"]
  <2>1. r = [call[c] EXCEPT !.pc = "write"]
    OBVIOUS
  <2>2. call' = [call EXCEPT ![c] = r]
    BY <1>3
  <2> HIDE DEF r
  <2>3. /\ Sound(r, mint) /\ r.kind = call[c].kind /\ r.own = call[c].own
        /\ r.existing = call[c].existing /\ r.pc = "write"
    BY <1>0, <1>3, <2>1, AdvancedIsSound
  <2>4. Sound(r, mint') /\ GoesOn(call[c], r) /\ ReadsNothing(call[c], r)
    BY <1>0, <1>3, <2>3, CacheSame DEF GoesOn, ReadsNothing, Github!Ended
  <2>5. CacheInv' /\ \A d \in Calls : GoesOn(call[d], call'[d])
    BY <1>0, <2>2, <2>4, OneGoesOn, CacheSame
  <2> QED
    BY <2>2, <2>4, <2>5, CallBecomes DEF CacheInv, ReadsNothing
<1> QED
  BY <1>1, <1>2, <1>3

\* The upsert writes at most once and ends (executeWrite).
LEMMA WriteStep ==
    ASSUME CacheInv, NEW c \in Calls, Github!Write(c)
    PROVE  /\ CacheInv'
           /\ \A d \in Calls : ReadsNothing(call[d], call'[d])
           /\ call[c].kind = "comment" /\ call[c].own # None
           /\ call[c].expected # None
           /\ call[c].pc \notin Github!Ended
           /\ call'[c].kind = None
           /\ \A d \in Calls : d # c => call'[d] = call[d]
           /\ comments' = comments \/ comments' = Github!Applied(c)
           /\ late' = late \/ late' = late \cup (Github!Applied(c) \ comments)
<1>1. Fits(call[c]) /\ call[c].pc = "write" /\ UNCHANGED Github!cache
  BY SoundCall DEF Github!Write, Github!At
<1>2. \E r \in {Github!Failed, Github!Done} : call' = [call EXCEPT ![c] = r]
  BY DEF Github!Write, Github!AfterLostAnswer
<1>3. /\ comments' = comments \/ comments' = Github!Applied(c)
      /\ late' = late \/ late' = late \cup (Github!Applied(c) \ comments)
  BY DEF Github!Write
<1>4. /\ CacheInv'
      /\ \A d \in Calls : ReadsNothing(call[d], call'[d])
      /\ call'[c].kind = None
      /\ \A d \in Calls : d # c => call'[d] = call[d]
  BY <1>1, <1>2, CallEnds, CacheSame DEF Github!Ended
<1> QED
  BY <1>1, <1>3, <1>4 DEF Fits, Github!Ended

\* A mint settles, and every call that waits on it goes on or fails.
LEMMA MintSettlesStep ==
    ASSUME CacheInv, NEW m \in Github!Minted, Github!MintSettles(m)
    PROVE  /\ CacheInv'
           /\ \A d \in Calls : GoesOn(call[d], call'[d])
           /\ \A d \in Calls : ReadsNothing(call[d], call'[d])
<1> USE GithubAssumption
<1>0. /\ mint[m].st = "running" /\ gen' = gen
      /\ pending' = Github!Cleared(pending, m)
      /\ refreshing' = Github!Cleared(refreshing, m)
  BY DEF Github!MintSettles
<1>1. PICK st \in {"live", "failed"} : mint' = [mint EXCEPT ![m].st = st]
  BY DEF Github!MintSettles
<1>2. /\ mint' \in Seq(MintRecord) /\ Len(mint') = Len(mint)
      /\ \A i \in Github!Minted : i # m => mint'[i] = mint[i]
      /\ mint'[m].gen = mint[m].gen
  BY <1>1, MintChanged DEF CacheInv
<1>3. Extends(mint, mint')
  BY <1>2 DEF CacheInv, MintType, Extends, Github!Minted
<1>4. cached' = cached \/ (cached' = m /\ mint[m].gen = gen)
  BY DEF Github!MintSettles, Github!MayCache
<1>5. MintType'
  BY <1>0, <1>2, <1>4 DEF CacheInv, MintType, Github!Minted, Github!Cleared
<1>6. SlotsAreCurrent'
  <2>1. ASSUME NEW slot \in {pending', refreshing'}, slot # None
        PROVE  mint'[slot].st = "running" /\ mint'[slot].gen = gen'
    <3>1. slot \in {pending, refreshing} /\ slot # m
      BY <1>0, <2>1 DEF Github!Cleared
    <3> QED
      BY <1>0, <1>2, <2>1, <3>1 DEF CacheInv, SlotsAreCurrent, MintType
  <2> QED
    BY <2>1 DEF SlotsAreCurrent
<1>7. Github!CachedIsCurrent'
  BY <1>0, <1>2, <1>4 DEF CacheInv, Github!CachedIsCurrent, MintType
<1>8. ASSUME NEW d \in Calls
      PROVE  /\ Sound(call'[d], mint')
             /\ GoesOn(call[d], call'[d]) /\ ReadsNothing(call[d], call'[d])
  <2>1. Sound(call[d], mint) /\ Sound(call[d], mint')
    BY <1>3, SoundCall, SoundStays
  <2>2. \/ call'[d] = call[d]
        \/ call[d].pc = "minting" /\ call'[d] = Github!Failed
        \/ /\ call[d].pc = "minting"
           /\ call'[d] = [call[d] EXCEPT !.pc = Github!Granted(call[d])]
    BY DEF Github!MintSettles, Github!Waiting, Github!At
  <2>3. CASE call'[d] = call[d]
    BY <2>1, <2>3 DEF GoesOn, ReadsNothing
  <2>4. CASE call[d].pc = "minting" /\ call'[d] = Github!Failed
    <3>1. /\ Sound(Github!Failed, mint') /\ Github!Failed.kind = None
          /\ Github!Failed.pc = "failed"
      BY EndedIsSound DEF Github!Failed, Github!Idle
    <3> QED
      BY <2>4, <3>1 DEF GoesOn, ReadsNothing, Github!Kinds, Github!Ended
  <2>5. CASE /\ call[d].pc = "minting"
             /\ call'[d] = [call[d] EXCEPT !.pc = Github!Granted(call[d])]
    <3> DEFINE old == call[d]
               stage == Github!Granted(old)
               r == [old EXCEPT !.pc = stage]
    <3>1. /\ r = [old EXCEPT !.pc = stage] /\ stage = Github!Granted(old)
          /\ old.pc = "minting"
      BY <2>5
    <3>2. Sound(old, mint') /\ call'[d] = r
      BY <2>1, <2>5
    <3> HIDE DEF old, stage, r
    <3>3. /\ Sound(r, mint') /\ r.kind = old.kind /\ r.own = old.own
          /\ r.existing = old.existing
          /\ r.pc \in {"initial", "find", "head", "write"}
      BY <3>1, <3>2, AdvancedIsSound
    <3> QED
      BY <2>5, <3>2, <3>3 DEF GoesOn, ReadsNothing, Github!Ended, old
  <2> QED
    BY <2>2, <2>3, <2>4, <2>5
<1>9. call' \in [Calls -> CallRecord(1 .. Len(mint'))]
  <2>1. DOMAIN call' = Calls /\ call' = [d \in Calls |-> call'[d]]
    BY DEF Github!MintSettles
  <2> QED
    BY <1>8, <2>1 DEF Sound
<1> QED
  BY <1>5, <1>6, <1>7, <1>8, <1>9 DEF CacheInv, CallsAreSound

\* GitHub expires or revokes a token.
LEMMA AgesStep ==
    ASSUME CacheInv, NEW m \in Github!Minted, Github!Ages(m)
    PROVE  CacheInv'
<1>0. mint[m].st = "live" /\ UNCHANGED <<cached, pending, refreshing, gen, call>>
  BY DEF Github!Ages
<1>1. PICK st \in {"aged", "revoked"} : mint' = [mint EXCEPT ![m].st = st]
  BY DEF Github!Ages
<1>2. /\ mint' \in Seq(MintRecord) /\ Len(mint') = Len(mint)
      /\ \A i \in Github!Minted : i # m => mint'[i] = mint[i]
      /\ mint'[m].gen = mint[m].gen
  BY <1>1, MintChanged DEF CacheInv
<1>3. Extends(mint, mint')
  BY <1>2 DEF CacheInv, MintType, Extends, Github!Minted
<1>4. MintType'
  BY <1>0, <1>2 DEF CacheInv, MintType, Github!Minted
<1>5. SlotsAreCurrent'
  <2>1. ASSUME NEW slot \in {pending, refreshing}, slot # None
        PROVE  mint'[slot].st = "running" /\ mint'[slot].gen = gen
    <3>1. /\ mint[slot].st = "running" /\ mint[slot].gen = gen
          /\ slot \in Github!Minted
      BY <2>1 DEF CacheInv, SlotsAreCurrent, MintType
    <3> QED
      BY <1>0, <1>2, <3>1
  <2> QED
    BY <1>0, <2>1 DEF SlotsAreCurrent
<1>6. Github!CachedIsCurrent'
  BY <1>0, <1>2 DEF CacheInv, Github!CachedIsCurrent, MintType
<1> QED
  BY <1>0, <1>3, <1>4, <1>5, <1>6, NoCallChanges DEF CacheInv

\* Who does what: a step changes the cache and the calls so, or leaves them.
LEMMA CacheStep ==
    ASSUME CacheInv, WorldType, [Github!Next]_(Github!vars)
    PROVE  CacheInv'
<1>1. ASSUME NEW c \in Calls,
             \/ Github!Start(c) \/ Github!Unauthorized(c) \/ Github!Fails(c)
             \/ Github!ReadHead(c) \/ Github!Find(c) \/ Github!Write(c)
             \/ Github!ReadInitial(c) \/ Github!ReadPage(c) \/ Github!ReadFinal(c)
      PROVE  CacheInv'
  BY <1>1, StartStep, UnauthorizedStep, FailsStep, ReadStep, ReadHeadStep,
      FindStep, WriteStep
<1>2. ASSUME NEW m \in Github!Minted, Github!MintSettles(m) \/ Github!Ages(m)
      PROVE  CacheInv'
  BY <1>2, MintSettlesStep, AgesStep
<1>3. CASE UNCHANGED <<Github!cache, call>>
  BY <1>3, CacheInvSame
<1>4. ASSUME NEW k \in late, Github!Lands(k) PROVE CacheInv'
  BY <1>3, <1>4 DEF Github!Lands
<1>5. CASE Github!Moves \/ UNCHANGED Github!vars
  BY <1>3, <1>5 DEF Github!Moves, Github!vars, Github!cache
<1> QED
  BY <1>1, <1>2, <1>4, <1>5 DEF Github!Next

\* A write leaves comments of the App.
LEMMA AppliedIsTyped ==
    ASSUME CacheInv, WorldType, NEW c \in Calls, call[c].expected # None
    PROVE  Github!Applied(c) \in SUBSET [id: Github!CommentIds, text: Github!Editions]
<1>1. call[c].expected \in Github!Editions /\ call[c].writes \in 0 .. 1
  BY DEF CacheInv, CallsAreSound, CallRecord
<1>2. <<c, call[c].writes + 1>> \in Github!CommentIds
  BY <1>1 DEF Github!CommentIds
<1>3. [id |-> <<c, call[c].writes + 1>>, text |-> Github!Text(c)]
        \in [id: Github!CommentIds, text: Github!Editions]
  BY <1>1, <1>2 DEF Github!Text
<1>4. ASSUME NEW k \in comments
      PROVE  /\ k \in [id: Github!CommentIds, text: Github!Editions]
             /\ [k EXCEPT !.text = Github!Text(c)]
                  \in [id: Github!CommentIds, text: Github!Editions]
  BY <1>1 DEF WorldType, Github!Text
<1> QED
  BY <1>3, <1>4 DEF Github!Applied

\* The pull request and its comments stay in their types.
LEMMA WorldStep ==
    ASSUME CacheInv, WorldType, [Github!Next]_(Github!vars)
    PROVE  WorldType'
<1> USE GithubAssumption
<1>1. ASSUME NEW c \in Calls, Github!Write(c) PROVE WorldType'
  <2>1. UNCHANGED <<edition, moves, excused>>
    BY <1>1 DEF Github!Write
  <2>2. Github!Applied(c) \in SUBSET [id: Github!CommentIds, text: Github!Editions]
    BY <1>1, WriteStep, AppliedIsTyped
  <2> QED
    BY <1>1, <2>1, <2>2, WriteStep DEF WorldType
<1>2. ASSUME NEW c \in Calls, Github!Start(c) PROVE WorldType'
  BY <1>2 DEF Github!Start, WorldType
<1>3. ASSUME NEW k \in late, Github!Lands(k) PROVE WorldType'
  BY <1>3 DEF Github!Lands, WorldType
<1>4. CASE Github!Moves
  BY <1>4 DEF Github!Moves, WorldType
<1>5. CASE UNCHANGED Github!world
  BY <1>5 DEF Github!world, WorldType
<1>6. ASSUME NEW c \in Calls,
             \/ Github!Unauthorized(c) \/ Github!Fails(c)
             \/ Github!ReadHead(c) \/ Github!Find(c)
             \/ Github!ReadInitial(c) \/ Github!ReadPage(c) \/ Github!ReadFinal(c)
      PROVE  UNCHANGED Github!world
  BY <1>6 DEF Github!Unauthorized, Github!Fails, Github!ReadHead, Github!Find,
      Github!ReadInitial, Github!ReadPage, Github!ReadFinal
<1>7. ASSUME NEW m \in Github!Minted, Github!MintSettles(m) \/ Github!Ages(m)
      PROVE  UNCHANGED Github!world
  BY <1>7 DEF Github!MintSettles, Github!Ages
<1>8. UNCHANGED Github!vars => UNCHANGED Github!world
  BY DEF Github!vars, Github!world
<1> QED
  BY <1>1, <1>2, <1>3, <1>4, <1>5, <1>6, <1>7, <1>8 DEF Github!Next

\* A step in which no call reads.
LEMMA NothingRead ==
    ASSUME ReadsAreWhole, UNCHANGED <<edition, moves>>,
           \A d \in Calls : ReadsNothing(call[d], call'[d])
    PROVE  ReadsAreWhole'
<1>1. ASSUME NEW d \in Calls
      PROVE  Agrees(call'[d], edition, moves) /\ OneEdition(call'[d], moves)
  <2>1. CASE call'[d] = call[d]
    BY <2>1 DEF ReadsAreWhole
  <2>2. CASE call'[d] # call[d]
    BY <2>2 DEF ReadsNothing, Agrees, OneEdition
  <2> QED
    BY <2>1, <2>2
<1> QED
  BY <1>1 DEF ReadsAreWhole

\* A step in which one call reads.
LEMMA OneReads ==
    ASSUME CacheInv, ReadsAreWhole, UNCHANGED <<edition, moves>>,
           NEW c \in Calls, NEW r, call' = [call EXCEPT ![c] = r],
           Agrees(r, edition, moves), OneEdition(r, moves)
    PROVE  ReadsAreWhole'
<1>1. call'[c] = r /\ \A d \in Calls : d # c => call'[d] = call[d]
  BY CallBecomes DEF CacheInv
<1> QED
  BY <1>1 DEF ReadsAreWhole

\* Snapshots stay of one edition, unless the pull request moved twice
\* (loadWithAuthorization).
LEMMA ReadsStep ==
    ASSUME CacheInv, WorldType, ReadsAreWhole, [Github!Next]_(Github!vars)
    PROVE  ReadsAreWhole'
<1> USE GithubAssumption
<1>1. ASSUME NEW c \in Calls,
             \/ Github!Start(c) \/ Github!Unauthorized(c) \/ Github!Fails(c)
             \/ Github!ReadHead(c) \/ Github!Find(c) \/ Github!Write(c)
      PROVE  ReadsAreWhole'
  <2>1. \A d \in Calls : ReadsNothing(call[d], call'[d])
    BY <1>1, StartStep, UnauthorizedStep, FailsStep, ReadHeadStep, FindStep, WriteStep
  <2>2. UNCHANGED <<edition, moves>>
    BY <1>1 DEF Github!Start, Github!Unauthorized, Github!Fails, Github!ReadHead,
        Github!Find, Github!Write, Github!world
  <2> QED
    BY <2>1, <2>2, NothingRead
<1>2. ASSUME NEW m \in Github!Minted, Github!MintSettles(m) PROVE ReadsAreWhole'
  BY <1>2, MintSettlesStep, NothingRead DEF Github!MintSettles, Github!world
<1>3. CASE UNCHANGED <<edition, moves, call>>
  BY <1>3 DEF ReadsAreWhole
<1>4. ASSUME NEW m \in Github!Minted, Github!Ages(m) PROVE ReadsAreWhole'
  BY <1>3, <1>4 DEF Github!Ages, Github!world
<1>5. ASSUME NEW k \in late, Github!Lands(k) PROVE ReadsAreWhole'
  BY <1>3, <1>5 DEF Github!Lands
<1>6. CASE UNCHANGED Github!vars
  BY <1>3, <1>6 DEF Github!vars
<1>7. CASE Github!Moves
  <2>1. edition' # edition /\ moves' = moves + 1 /\ call' = call /\ moves \in Nat
    BY <1>7 DEF Github!Moves, WorldType
  <2>2. ASSUME NEW d \in Calls
        PROVE  Agrees(call[d], edition', moves') /\ OneEdition(call[d], moves')
    <3>1. call[d].at \in Nat
      BY DEF CacheInv, CallsAreSound, CallRecord
    <3>2. Agrees(call[d], edition, moves) /\ OneEdition(call[d], moves)
      BY DEF ReadsAreWhole
    <3>3. Agrees(call[d], edition', moves')
      BY <2>1, <3>1, <3>2 DEF Agrees
    <3>4. OneEdition(call[d], moves')
      BY <2>1, <3>1, <3>2 DEF OneEdition
    <3> QED
      BY <3>3, <3>4
  <2> QED
    BY <2>1, <2>2 DEF ReadsAreWhole
<1>8. ASSUME NEW c \in Calls,
             \/ Github!ReadInitial(c) \/ Github!ReadPage(c) \/ Github!ReadFinal(c)
      PROVE  ReadsAreWhole'
  <2> DEFINE old == call[c]
  <2>1. /\ Agrees(old, edition, moves) /\ old \in CallRecord(1 .. Len(mint))
        /\ Fits(old)
        /\ moves \in Nat
    BY SoundCall DEF ReadsAreWhole, Sound, WorldType
  <2>2. UNCHANGED <<edition, moves>>
    BY <1>8 DEF Github!ReadInitial, Github!ReadPage, Github!ReadFinal, Github!world
  <2>3. CASE call' = [call EXCEPT ![c] = Github!Failed]
    <3>1. Github!Failed.pc = "failed"
      BY DEF Github!Failed, Github!Idle
    <3> QED
      BY <2>2, <2>3, <3>1, OneReads DEF Agrees, OneEdition
  <2>4. CASE Github!ReadInitial(c) /\ edition[1] = call[c].expected[1]
    <3> DEFINE r == [old EXCEPT !.pc = "pages", !.seen = edition, !.at = moves]
    <3>1. call' = [call EXCEPT ![c] = r] /\ old.pc = "initial"
      BY <2>4 DEF Github!ReadInitial, Github!At
    <3>2. old.pages = <<>>
      BY <2>1, <3>1 DEF Fits
    <3>3. r.pc = "pages" /\ r.seen = edition /\ r.at = moves /\ r.pages = old.pages
      BY <2>1 DEF CallRecord
    <3> HIDE DEF r, old
    <3>4. Agrees(r, edition, moves) /\ OneEdition(r, moves)
      BY <2>1, <3>2, <3>3 DEF Agrees, OneEdition
    <3> QED
      BY <2>2, <3>1, <3>4, OneReads
  <2>5. CASE Github!ReadPage(c)
    <3> DEFINE more == Append(old.pages, edition)
               stage == IF Len(old.pages) + 1 = Pages THEN "final" ELSE "pages"
               r == [old EXCEPT !.pages = Append(@, edition), !.pc = stage]
    <3>1. call' = [call EXCEPT ![c] = r] /\ old.pc = "pages"
      BY <2>5 DEF Github!ReadPage, Github!At, CacheInv, CallsAreSound
    <3>2. old.pages \in PageLists /\ Len(old.pages) < Pages
      BY <2>1, <3>1 DEF Fits, CallRecord
    <3>3. /\ Len(old.pages) \in Nat /\ Len(more) = Len(old.pages) + 1
          /\ \A i \in 1 .. Len(old.pages) : more[i] = old.pages[i]
          /\ more[Len(old.pages) + 1] = edition
      BY <3>2, PagesGrow DEF WorldType
    <3>4. /\ r.pc \in {"pages", "final"} /\ r.seen = old.seen /\ r.at = old.at
          /\ r.pages = more
      BY <2>1 DEF CallRecord
    <3>5. moves = old.at => \A i \in 1 .. Len(more) : more[i] = old.seen
      BY <2>1, <3>1, <3>3 DEF Agrees
    <3> HIDE DEF r, more, stage, old
    <3>6. Agrees(r, edition, moves) /\ OneEdition(r, moves)
      BY <2>1, <3>1, <3>4, <3>5 DEF Agrees, OneEdition
    <3> QED
      BY <2>2, <3>1, <3>6, OneReads
  <2>6. CASE Github!ReadFinal(c) /\ Github!SameEdition(c)
    <3> DEFINE r == [Github!Done EXCEPT !.kind = "load", !.seen = old.seen,
                                 !.pages = old.pages, !.at = old.at]
    <3>1. call' = [call EXCEPT ![c] = r] /\ old.pc = "final" /\ edition = old.seen
      BY <2>6 DEF Github!ReadFinal, Github!SameEdition, Github!At
    <3>2. /\ r.pc = "done" /\ r.seen = old.seen /\ r.at = old.at
          /\ r.pages = old.pages
      BY DEF Github!Done, Github!Idle
    <3>3. old.at \in Nat
      BY <2>1 DEF CallRecord
    <3> HIDE DEF r, old
    <3>4. /\ old.at <= moves /\ moves # old.at + 1
          /\ moves = old.at =>
               \A i \in 1 .. Len(old.pages) : old.pages[i] = old.seen
      BY <2>1, <3>1 DEF Agrees
    <3>5. moves # old.at => moves >= old.at + 2
      BY <3>3, <3>4 DEF WorldType
    <3>6. Agrees(r, edition, moves) /\ OneEdition(r, moves)
      BY <3>2, <3>4, <3>5 DEF Agrees, OneEdition
    <3> QED
      BY <2>2, <3>1, <3>6, OneReads
  <2> QED
    BY <1>8, <2>3, <2>4, <2>5, <2>6 DEF Github!ReadInitial, Github!ReadFinal
<1> QED
  BY <1>1, <1>2, <1>4, <1>5, <1>6, <1>7, <1>8 DEF Github!Next

\* A step that keeps every upsert's client and comment.
LEMMA AloneGoesOn ==
    ASSUME UpsertIsAlone, UNCHANGED <<comments, excused>>,
           \A d \in Calls : GoesOn(call[d], call'[d])
    PROVE  UpsertIsAlone'
<1>1. ASSUME NEW d \in Github!Upserting'
      PROVE  d \in Github!Upserting /\ call'[d].own = call[d].own
             /\ call'[d].existing = call[d].existing
  BY DEF Github!Upserting, GoesOn
<1> QED
  BY <1>1 DEF UpsertIsAlone

\* An upsert that overlaps no other stays alone with the comment it found.
LEMMA AloneStep ==
    ASSUME CacheInv, WorldType, UpsertIsAlone, [Github!Next]_(Github!vars)
    PROVE  UpsertIsAlone'
<1> USE GithubAssumption
<1>1. ASSUME NEW c \in Calls,
             \/ Github!Unauthorized(c) \/ Github!Fails(c) \/ Github!ReadHead(c)
             \/ Github!ReadInitial(c) \/ Github!ReadPage(c) \/ Github!ReadFinal(c)
      PROVE  UpsertIsAlone'
  <2>1. \A d \in Calls : GoesOn(call[d], call'[d])
    BY <1>1, UnauthorizedStep, FailsStep, ReadHeadStep, ReadStep
  <2>2. UNCHANGED <<comments, excused>>
    BY <1>1 DEF Github!Unauthorized, Github!Fails, Github!ReadHead,
        Github!ReadInitial, Github!ReadPage, Github!ReadFinal, Github!world
  <2> QED
    BY <2>1, <2>2, AloneGoesOn
<1>2. ASSUME NEW m \in Github!Minted, Github!MintSettles(m) PROVE UpsertIsAlone'
  BY <1>2, MintSettlesStep, AloneGoesOn DEF Github!MintSettles, Github!world
<1>3. CASE UNCHANGED <<comments, excused, call>>
  BY <1>3, AloneGoesOn DEF GoesOn
<1>4. ASSUME NEW m \in Github!Minted, Github!Ages(m) PROVE UpsertIsAlone'
  BY <1>3, <1>4 DEF Github!Ages, Github!world
<1>5. CASE Github!Moves \/ UNCHANGED Github!vars
  BY <1>3, <1>5 DEF Github!Moves, Github!vars
<1>6. ASSUME NEW k \in late, Github!Lands(k) PROVE UpsertIsAlone'
  BY <1>6 DEF Github!Lands, UpsertIsAlone
<1>7. ASSUME NEW c \in Calls, Github!Start(c), ~excused' PROVE UpsertIsAlone'
  <2>1. /\ call[c].kind = None /\ call'[c].own = None
        /\ \A d \in Calls : d # c => call'[d] = call[d]
        /\ ~excused /\ (call'[c].kind = "comment" => Github!Upserting = {})
    BY <1>7, StartStep DEF WorldType
  <2>2. comments' = comments
    BY <1>7 DEF Github!Start
  <2>3. ASSUME NEW d \in Github!Upserting', d # c PROVE d \in Github!Upserting
    BY <2>1, <2>3 DEF Github!Upserting
  <2>4. \A d, e \in Github!Upserting' : d = e
    BY <2>1, <2>3 DEF UpsertIsAlone, Github!Upserting
  <2>5. ASSUME NEW d \in Github!Upserting', call'[d].own # None, call'[d].existing = None
        PROVE  comments = {}
    <3>1. d # c /\ d \in Calls
      BY <2>1, <2>5 DEF Github!Upserting
    <3>2. d \in Github!Upserting /\ call'[d] = call[d]
      BY <2>1, <2>3, <3>1
    <3> QED
      BY <2>1, <2>5, <3>2 DEF UpsertIsAlone
  <2> QED
    BY <2>1, <2>2, <2>4, <2>5 DEF UpsertIsAlone
<1>8. ASSUME NEW c \in Calls, Github!Find(c), ~excused PROVE UpsertIsAlone'
  <2>1. /\ call[c].kind = "comment" /\ call[c].pc \notin Github!Ended
        /\ call'[c].kind = "comment" /\ call'[c].existing = None => comments = {}
        /\ \A d \in Calls : d # c => call'[d] = call[d]
    BY <1>8, FindStep
  <2>2. UNCHANGED <<comments, excused>>
    BY <1>8 DEF Github!Find, Github!world
  <2>3. /\ c \in Github!Upserting
        /\ \A d \in Github!Upserting' : d \in Github!Upserting /\ d \in Calls
    BY <2>1 DEF Github!Upserting
  <2>4. \A d \in Github!Upserting' : d = c
    BY <1>8, <2>3 DEF UpsertIsAlone
  <2>5. ASSUME NEW d \in Github!Upserting', call'[d].existing = None PROVE comments = {}
    BY <2>1, <2>4, <2>5 DEF Github!Upserting
  <2> QED
    BY <1>8, <2>2, <2>4, <2>5 DEF UpsertIsAlone
<1>9. ASSUME NEW c \in Calls, Github!Write(c), ~excused PROVE UpsertIsAlone'
  <2>1. /\ call[c].kind = "comment" /\ call[c].own # None
        /\ call[c].pc \notin Github!Ended
        /\ call'[c].kind = None
        /\ \A d \in Calls : d # c => call'[d] = call[d]
        /\ comments' = comments \/ comments' = Github!Applied(c)
    BY <1>9, WriteStep
  <2>2. excused' = excused
    BY <1>9 DEF Github!Write
  <2>3. c \in Github!Upserting
    BY <2>1 DEF Github!Upserting
  <2>4. Github!Upserting' = {}
    <3>1. ASSUME NEW d \in Github!Upserting' PROVE FALSE
      <4>1. d \in Calls /\ d # c
        BY <2>1 DEF Github!Upserting, Github!Kinds
      <4>2. d \in Github!Upserting
        BY <2>1, <4>1 DEF Github!Upserting
      <4> QED
        BY <1>9, <2>3, <4>1, <4>2 DEF UpsertIsAlone
    <3> QED
      BY <3>1
  <2>5. \A j, k \in Github!Applied(c) : j = k
    BY <1>9, <2>1, <2>3 DEF UpsertIsAlone, Github!Applied
  <2>6. \A j, k \in comments' : j = k
    BY <1>9, <2>1, <2>5 DEF UpsertIsAlone
  <2> QED
    BY <2>4, <2>6 DEF UpsertIsAlone
<1>10. ASSUME NEW c \in Calls, Github!Start(c) \/ Github!Find(c) \/ Github!Write(c),
              excused
       PROVE  excused'
  BY <1>10, StartStep DEF Github!Find, Github!Write, Github!world
<1>11. ASSUME NEW c \in Calls, Github!Start(c) \/ Github!Find(c) \/ Github!Write(c)
       PROVE  UpsertIsAlone'
  <2>1. CASE excused'
    BY <2>1 DEF UpsertIsAlone
  <2>2. CASE ~excused'
    BY <1>7, <1>8, <1>9, <1>10, <1>11, <2>2
  <2> QED
    BY <2>1, <2>2
<1> QED
  BY <1>1, <1>2, <1>4, <1>5, <1>6, <1>11 DEF Github!Next

\* The adapters start in the inductive invariant.
LEMMA GithubInit == Github!Init => GithubIInv
<1> SUFFICES ASSUME Github!Init PROVE GithubIInv
  OBVIOUS
<1> USE GithubAssumption DEF Github!Init
<1>1. MintType
  <2>1. mint \in Seq(MintRecord) /\ Len(mint) = 0
    OBVIOUS
  <2> QED
    BY <2>1 DEF MintType
<1>2. WorldType
  <2>1. edition \in Github!Editions /\ moves \in 0 .. MaxMoves
    OBVIOUS
  <2>3. excused = FALSE
    OBVIOUS
  <2>2. /\ comments \in SUBSET [id: Github!CommentIds, text: Github!Editions]
        /\ late \in SUBSET [id: Github!CommentIds, text: Github!Editions]
    OBVIOUS
  <2> QED
    BY <2>1, <2>2, <2>3 DEF WorldType
<1>3. Github!CachedIsCurrent /\ SlotsAreCurrent
  BY DEF Github!CachedIsCurrent, SlotsAreCurrent
<1>4. ASSUME NEW c \in Calls PROVE Sound(call[c], mint) /\ call[c].kind = None
                                   /\ call[c].pc = "idle"
  <2>1. call[c] = Github!Idle
    OBVIOUS
  <2>2. Github!Idle.pc = "idle" /\ Github!Idle.kind = None
    BY DEF Github!Idle
  <2> QED
    BY <2>1, <2>2, EndedIsSound
<1>5. CallsAreSound
  <2>1. call \in [Calls -> CallRecord(1 .. Len(mint))]
    BY IdleIsACall
  <2> QED
    BY <1>4, <2>1 DEF CallsAreSound
<1>6. ReadsAreWhole
  BY <1>4 DEF ReadsAreWhole, Agrees, OneEdition, Github!Kinds
<1>7. UpsertIsAlone
  <2>1. Github!Upserting = {}
    BY <1>4 DEF Github!Upserting, Github!Kinds
  <2> QED
    BY <2>1 DEF UpsertIsAlone
<1> QED
  BY <1>1, <1>2, <1>3, <1>5, <1>6, <1>7 DEF GithubIInv

\* Every step of the adapters keeps the inductive invariant.
LEMMA GithubStep == GithubIInv /\ [Github!Next]_(Github!vars) => GithubIInv'
<1> SUFFICES ASSUME GithubIInv, [Github!Next]_(Github!vars) PROVE GithubIInv'
  OBVIOUS
<1>1. CacheInv /\ WorldType /\ ReadsAreWhole /\ UpsertIsAlone
  BY DEF GithubIInv, CacheInv
<1>2. CacheInv' /\ WorldType' /\ ReadsAreWhole' /\ UpsertIsAlone'
  BY <1>1, CacheStep, WorldStep, ReadsStep, AloneStep
<1> QED
  BY <1>2 DEF GithubIInv, CacheInv

\* The adapters count comments as the library does.
LEMMA SameCount == \A S : Github!Cardinality(S) = Cardinality(S)
<1>1. \A S : Github!IsFiniteSet(S) <=> IsFiniteSet(S)
  BY DEF Github!IsFiniteSet, IsFiniteSet
<1> QED
  BY <1>1 DEF Github!Cardinality, Cardinality

\* The inductive invariant implies the promises of GithubClient.
LEMMA GithubMeans == GithubIInv => Github!GithubInv
<1> SUFFICES ASSUME GithubIInv PROVE Github!GithubInv
  OBVIOUS
<1> USE DEF GithubIInv
<1>1. Github!TypeOK
  <2>1. \A i \in Github!Minted : mint[i] \in MintRecord
    BY DEF MintType, Github!Minted
  <2>2. call \in [Calls -> CallRecord(Github!Minted)]
    BY DEF CallsAreSound, Github!Minted
  <2>3. Len(mint) \in 0 .. MaxMints
    BY GithubAssumption DEF MintType
  <2>4. {cached, pending, refreshing} \subseteq Github!Minted \cup {None}
    BY DEF MintType
  <2> QED
    BY <2>1, <2>2, <2>3, <2>4 DEF Github!TypeOK, MintType, WorldType, MintRecord,
        CallRecord, Steps, PageLists
<1>2. ASSUME NEW c \in Calls PROVE Fits(call[c]) /\ IsFresh(call[c], mint)
  BY DEF CallsAreSound, Sound
<1>3. Github!FreshUsesFresh /\ Github!RetryUsesAnotherToken
  BY <1>2 DEF Github!FreshUsesFresh, Github!RetryUsesAnotherToken, IsFresh, Fits
<1>4. Github!SnapshotIsOneEdition
  BY DEF Github!SnapshotIsOneEdition, ReadsAreWhole, OneEdition, Github!At
<1>5. Github!OneTimelineComment
  <2>1. ASSUME ~excused PROVE Cardinality(comments) \in {0, 1}
    <3>1. \A j, k \in comments : j = k
      BY <2>1 DEF UpsertIsAlone
    <3>2. CASE comments = {}
      BY <3>2, FS_EmptySet
    <3>3. CASE comments # {}
      <4>1. PICK k : k \in comments
        BY <3>3
      <4>2. comments = {k}
        BY <3>1, <4>1
      <4>3. Cardinality({k}) = 1
        BY FS_Singleton
      <4> QED
        BY <4>2, <4>3
    <3> QED
      BY <3>2, <3>3
  <2> QED
    BY <2>1, SameCount DEF Github!OneTimelineComment
<1> QED
  BY <1>1, <1>3, <1>4, <1>5 DEF Github!GithubInv

-----------------------------------------------------------------------------
(* Sequences of sequences, by induction on natural numbers.                *)

\* A set of naturals with 0 and the successor of each of its members has all:
\* the members below a gap would be a finite set, mapped into a part of itself.
LEMMA Induction ==
    ASSUME NEW S \in SUBSET Nat, 0 \in S, \A n \in S : n + 1 \in S
    PROVE  S = Nat
<1> SUFFICES ASSUME NEW x \in Nat, x \notin S PROVE FALSE
  OBVIOUS
<1> DEFINE A == {n \in S : n < x}
           f == [n \in A |-> n + 1]
<1>1. IsFiniteSet(A)
  <2>1. A \in SUBSET Nat
    OBVIOUS
  <2>2. \A n \in A : n <= x
    <3> TAKE n \in A
    <3>1. n \in Nat /\ n < x
      OBVIOUS
    <3> QED
      BY <3>1
  <2> HIDE DEF A
  <2> QED
    BY <2>1, <2>2, FS_BoundedSetOfNaturals
<1>2. 0 \in A
  OBVIOUS
<1>3. \A n \in A : n \in Nat /\ n + 1 \in A
  <2> TAKE n \in A
  <2>1. n \in S /\ n + 1 \in S /\ n + 1 # x /\ n < x
    OBVIOUS
  <2> QED
    BY <2>1
<1> HIDE DEF A
<1>4. f \in Injection(A, A)
  BY <1>3 DEF Injection, IsInjective
<1>5. f \in Surjection(A, A)
  BY <1>1, <1>4, FS_Injection
<1>6. PICK n \in A : f[n] = 0
  BY <1>2, <1>5 DEF Surjection
<1> QED
  BY <1>3, <1>6

\* What FlattenSeq computes, step by step.
Flattens(s, f) ==
  f = [i \in 1 .. Len(s) |-> IF i = 1 THEN s[i] ELSE f[i - 1] \o s[i]]

\* Whatever satisfies the recursion of FlattenSeq is what FlattenSeq computes.
LEMMA FlattenUnique ==
    ASSUME NEW s, Len(s) \in Nat \ {0}, NEW f, Flattens(s, f)
    PROVE  Phone!FlattenSeq(s) = f[Len(s)]
<1> DEFINE Fl(g) == g = [i \in 1 .. Len(s) |-> IF i = 1 THEN s[i] ELSE g[i - 1] \o s[i]]
           g == CHOOSE h : Fl(h)
<1>1. Phone!FlattenSeq(s) = g[Len(s)]
  BY DEF Phone!FlattenSeq
<1>2. Fl(g)
  BY DEF Flattens
<1> HIDE DEF g
<1> DEFINE S == {k \in Nat : k \in 1 .. Len(s) => g[k] = f[k]}
<1>3. 0 \in S
  OBVIOUS
<1>4. \A k \in S : k + 1 \in S
  <2> SUFFICES ASSUME NEW k \in S, k + 1 \in 1 .. Len(s) PROVE g[k + 1] = f[k + 1]
    OBVIOUS
  <2>1. CASE k = 0
    BY <1>2, <2>1 DEF Flattens
  <2>2. CASE k # 0
    <3>1. k \in 1 .. Len(s) /\ k + 1 # 1 /\ (k + 1) - 1 = k
      BY <2>2
    <3>2. g[k] = f[k]
      BY <3>1
    <3>3. g[k + 1] = g[k] \o s[k + 1]
      BY <1>2, <3>1
    <3>4. f[k + 1] = f[k] \o s[k + 1]
      BY <3>1 DEF Flattens
    <3> QED
      BY <3>2, <3>3, <3>4
  <2> QED
    BY <2>1, <2>2
<1>5. S = Nat
  <2> HIDE DEF S
  <2>1. S \in SUBSET Nat
    BY DEF S
  <2> QED
    BY <1>3, <1>4, <2>1, Induction
<1>6. Len(s) \in S
  BY <1>5
<1> QED
  BY <1>1, <1>6

\* Something satisfies the recursion of FlattenSeq, whatever the parts.
LEMMA FlattenExists ==
    ASSUME NEW X, NEW s \in Seq(Seq(X))
    PROVE  \E f \in [1 .. Len(s) -> Seq(X)] : Flattens(s, f)
<1> DEFINE Step(f, i) == IF i = 1 THEN s[i] ELSE f[i - 1] \o s[i]
           Good(k) == \E f \in [1 .. k -> Seq(X)] : \A i \in 1 .. k : f[i] = Step(f, i)
           S == {k \in Nat : k <= Len(s) => Good(k)}
<1>1. Good(0)
  <2> DEFINE f == [i \in 1 .. 0 |-> <<>>]
  <2>1. f \in [1 .. 0 -> Seq(X)]
    OBVIOUS
  <2>2. \A i \in 1 .. 0 : f[i] = Step(f, i)
    OBVIOUS
  <2> QED
    BY <2>1, <2>2
<1>2. ASSUME NEW k \in Nat, k + 1 <= Len(s), Good(k)
      PROVE  Good(k + 1)
  <2>1. PICK f \in [1 .. k -> Seq(X)] : \A i \in 1 .. k : f[i] = Step(f, i)
    BY <1>2
  <2> DEFINE g == [i \in 1 .. k + 1 |-> IF i <= k THEN f[i] ELSE Step(f, i)]
  <2>2. s[k + 1] \in Seq(X)
    BY <1>2, ElementOfSeq
  <2>3. Step(f, k + 1) \in Seq(X)
    <3>1. CASE k = 0
      BY <2>2, <3>1
    <3>2. CASE k # 0
      <4>1. k + 1 # 1 /\ (k + 1) - 1 = k /\ k \in 1 .. k
        BY <3>2
      <4>2. f[k] \in Seq(X)
        BY <4>1
      <4> QED
        BY <2>2, <4>1, <4>2, ConcatProperties
    <3> QED
      BY <3>1, <3>2
  <2>4. g \in [1 .. k + 1 -> Seq(X)]
    <3> HIDE DEF Step
    <3>1. \A i \in 1 .. k + 1 : i <= k => i \in 1 .. k
      OBVIOUS
    <3>2. \A i \in 1 .. k + 1 : i <= k \/ i = k + 1
      OBVIOUS
    <3> QED
      BY <2>3, <3>1, <3>2
  <2>5. \A i \in 1 .. k + 1 : g[i] = Step(g, i)
    <3> TAKE i \in 1 .. k + 1
    <3>1. CASE i <= k
      <4>1. i \in 1 .. k /\ (i = 1 \/ i - 1 \in 1 .. k)
        BY <3>1
      <4>2. g[i] = Step(f, i)
        BY <2>1, <3>1, <4>1
      <4>3. i # 1 => i - 1 \in 1 .. k + 1 /\ i - 1 <= k
        BY <3>1
      <4>4. i # 1 => g[i - 1] = f[i - 1]
        BY <4>3
      <4> QED
        BY <4>2, <4>4
    <3>2. CASE ~(i <= k)
      <4>1. i = k + 1 /\ (i # 1 => i - 1 \in 1 .. k + 1 /\ i - 1 <= k)
        BY <3>2
      <4>2. g[i] = Step(f, i)
        BY <3>2
      <4>3. i # 1 => g[i - 1] = f[i - 1]
        BY <4>1
      <4> QED
        BY <4>2, <4>3
    <3> QED
      BY <3>1, <3>2
  <2> QED
    BY <2>4, <2>5
<1>3. S = Nat
  <2> HIDE DEF Good
  <2>1. 0 \in S
    BY <1>1
  <2>2. \A k \in S : k + 1 \in S
    <3> TAKE k \in S
    <3>1. k + 1 <= Len(s) => k <= Len(s)
      BY LenProperties
    <3> QED
      BY <1>2, <3>1
  <2>3. S \in SUBSET Nat
    OBVIOUS
  <2> HIDE DEF S
  <2> QED
    BY <2>1, <2>2, <2>3, Induction
<1>4. Len(s) \in S
  BY <1>3, LenProperties
<1>5. PICK f \in [1 .. Len(s) -> Seq(X)] : \A i \in 1 .. Len(s) : f[i] = Step(f, i)
  BY <1>4, LenProperties
<1>6. f = [i \in 1 .. Len(s) |-> Step(f, i)]
  BY <1>5
<1> QED
  BY <1>6 DEF Flattens

\* A set with the empty sequence, and with every extension of its members by
\* one element, has every sequence.
LEMMA SeqInduction ==
    ASSUME NEW E, NEW P \in SUBSET Seq(E), <<>> \in P,
           \A s \in P, e \in E : Append(s, e) \in P
    PROVE  P = Seq(E)
<1> DEFINE S == {n \in Nat : \A s \in Seq(E) : Len(s) = n => s \in P}
<1>1. 0 \in S
  BY EmptySeq
<1>2. \A n \in S : n + 1 \in S
  <2> TAKE n \in S
  <2>1. ASSUME NEW s \in Seq(E), Len(s) = n + 1 PROVE s \in P
    <3>1. s # <<>>
      BY <2>1, EmptySeq
    <3>2. PICK t \in Seq(E), e \in E : s = Append(t, e)
      BY <3>1, SequenceEmptyOrAppend
    <3>3. Len(t) = n
      BY <2>1, <3>2, AppendProperties, LenProperties
    <3> QED
      BY <3>2, <3>3
  <2> QED
    BY <2>1
<1>3. S = Nat
  <2>1. S \in SUBSET Nat
    OBVIOUS
  <2> HIDE DEF S
  <2> QED
    BY <1>1, <1>2, <2>1, Induction
<1> QED
  BY <1>3, LenProperties

\* No parts make an empty object.
LEMMA FlattenEmpty == Phone!FlattenSeq(<<>>) = <<>>
BY DEF Phone!FlattenSeq

\* The parts put together are a sequence of what the parts are sequences of.
LEMMA FlattenType ==
    ASSUME NEW X, NEW s \in Seq(Seq(X))
    PROVE  Phone!FlattenSeq(s) \in Seq(X)
<1>1. CASE s = <<>>
  <2>1. <<>> \in Seq(X)
    BY EmptySeq
  <2> QED
    BY <1>1, <2>1, FlattenEmpty
<1>2. CASE s # <<>>
  <2>1. Len(s) \in Nat \ {0}
    BY <1>2, EmptySeq
  <2>2. PICK f \in [1 .. Len(s) -> Seq(X)] : Flattens(s, f)
    BY FlattenExists
  <2>3. Phone!FlattenSeq(s) = f[Len(s)]
    BY <2>1, <2>2, FlattenUnique
  <2>4. Len(s) \in 1 .. Len(s)
    BY <2>1
  <2> QED
    BY <2>2, <2>3, <2>4
<1> QED
  BY <1>1, <1>2

\* One part more is put behind the others.
LEMMA FlattenAppend ==
    ASSUME NEW X, NEW s \in Seq(Seq(X)), NEW e \in Seq(X)
    PROVE  Phone!FlattenSeq(Append(s, e)) = Phone!FlattenSeq(s) \o e
<1> DEFINE t == Append(s, e)
           n == Len(s)
<1>1. n \in Nat /\ t \in Seq(Seq(X)) /\ Len(t) = n + 1 /\ t[n + 1] = e
      /\ \A i \in 1 .. n : t[i] = s[i]
  BY AppendProperties, LenProperties
<1>2. PICK f \in [1 .. n -> Seq(X)] : Flattens(s, f)
  BY FlattenExists
<1>3. PICK g \in [1 .. Len(t) -> Seq(X)] : Flattens(t, g)
  BY <1>1, FlattenExists
<1> HIDE DEF t, n
<1>4. Phone!FlattenSeq(t) = g[n + 1]
  BY <1>1, <1>3, FlattenUnique
<1>5. CASE n = 0
  <2>1. s = <<>>
    BY <1>5, EmptySeq DEF n
  <2>2. g[1] = e
    BY <1>1, <1>3, <1>5 DEF Flattens
  <2>3. <<>> \o e = e
    BY ConcatEmptySeq
  <2> QED
    BY <1>4, <1>5, <2>1, <2>2, <2>3, FlattenEmpty DEF t
<1>6. CASE n # 0
  <2> DEFINE h == [i \in 1 .. n |-> g[i]]
  <2>1. h = [i \in 1 .. n |-> IF i = 1 THEN s[i] ELSE h[i - 1] \o s[i]]
    <3>1. \A i \in 1 .. n : g[i] = IF i = 1 THEN s[i] ELSE g[i - 1] \o s[i]
      <4> TAKE i \in 1 .. n
      <4>1. i \in 1 .. Len(t) /\ t[i] = s[i]
        BY <1>1
      <4>2. g[i] = IF i = 1 THEN t[i] ELSE g[i - 1] \o t[i]
        BY <1>3, <4>1 DEF Flattens
      <4> QED
        BY <4>1, <4>2
    <3>2. \A i \in 1 .. n : i # 1 => i - 1 \in 1 .. n
      BY <1>1
    <3> QED
      BY <3>1, <3>2
  <2>2. Phone!FlattenSeq(s) = h[n]
    <3>1. Flattens(s, h)
      BY <2>1 DEF Flattens, n
    <3> HIDE DEF h
    <3> QED
      BY <1>1, <1>6, <3>1, FlattenUnique DEF n
  <2>3. g[n + 1] = g[n] \o e
    <3>1. n + 1 \in 1 .. Len(t) /\ n + 1 # 1 /\ (n + 1) - 1 = n
      BY <1>1, <1>6
    <3> QED
      BY <1>1, <1>3, <3>1 DEF Flattens
  <2>4. h[n] = g[n]
    BY <1>1, <1>6
  <2> QED
    BY <1>4, <2>2, <2>3, <2>4 DEF t
<1> QED
  BY <1>5, <1>6

\* Two lists of parts, put together one after the other.
LEMMA FlattenConcat ==
    ASSUME NEW X, NEW s \in Seq(Seq(X)), NEW t \in Seq(Seq(X))
    PROVE  Phone!FlattenSeq(s \o t) = Phone!FlattenSeq(s) \o Phone!FlattenSeq(t)
<1> DEFINE P == {u \in Seq(Seq(X)) :
                             Phone!FlattenSeq(s \o u) = Phone!FlattenSeq(s) \o Phone!FlattenSeq(u)}
<1>1. <<>> \in P
  <2>1. /\ s \o <<>> = s /\ Phone!FlattenSeq(s) \o <<>> = Phone!FlattenSeq(s)
        /\ <<>> \in Seq(Seq(X))
    BY ConcatEmptySeq, FlattenType, EmptySeq
  <2> QED
    BY <2>1, FlattenEmpty
<1>2. \A u \in P, e \in Seq(X) : Append(u, e) \in P
  <2> TAKE u \in P, e \in Seq(X)
  <2>1. /\ u \in Seq(Seq(X))
        /\ Phone!FlattenSeq(s \o u) = Phone!FlattenSeq(s) \o Phone!FlattenSeq(u)
    OBVIOUS
  <2>2. Append(u, e) \in Seq(Seq(X)) /\ Append(u, e) = u \o <<e>>
    BY <2>1, AppendProperties, AppendIsConcat
  <2>3. s \o u \in Seq(Seq(X)) /\ Append(s \o u, e) = (s \o u) \o <<e>>
    BY <2>1, ConcatProperties, AppendIsConcat
  <2>4. <<e>> \in Seq(Seq(X))
    OBVIOUS
  <2>5. s \o Append(u, e) = Append(s \o u, e)
    BY <2>1, <2>2, <2>3, <2>4, ConcatAssociative
  <2>6. Phone!FlattenSeq(Append(s \o u, e))
          = (Phone!FlattenSeq(s) \o Phone!FlattenSeq(u)) \o e
    BY <2>1, <2>3, FlattenAppend
  <2>7. Phone!FlattenSeq(Append(u, e)) = Phone!FlattenSeq(u) \o e
    BY <2>1, FlattenAppend
  <2>8. (Phone!FlattenSeq(s) \o Phone!FlattenSeq(u)) \o e
          = Phone!FlattenSeq(s) \o (Phone!FlattenSeq(u) \o e)
    <3>1. Phone!FlattenSeq(s) \in Seq(X) /\ Phone!FlattenSeq(u) \in Seq(X)
      BY <2>1, FlattenType
    <3>2. \A a, b, c \in Seq(X) : (a \o b) \o c = a \o (b \o c)
      BY ConcatAssociative
    <3> QED
      BY <3>1, <3>2
  <2> QED
    BY <2>2, <2>5, <2>6, <2>7, <2>8
<1>3. P = Seq(Seq(X))
  <2>1. P \in SUBSET Seq(Seq(X))
    OBVIOUS
  <2> HIDE DEF P
  <2> QED
    BY <1>1, <1>2, <2>1, SeqInduction
<1> QED
  BY <1>3

\* The parts that are cut off are the front of what waited.
LEMMA FlattenCut ==
    ASSUME Target \in Nat \ {0}, NEW X, NEW st \in Seq(X), NEW n \in Nat,
           n * Target <= Len(st)
    PROVE  /\ Phone!Cut(st, n) \in Seq(Seq(X))
           /\ Len(Phone!Cut(st, n)) = n
           /\ \A p \in 1 .. n : Len(Phone!Cut(st, n)[p]) = Target
           /\ Phone!FlattenSeq(Phone!Cut(st, n)) = SubSeq(st, 1, n * Target)
<1> DEFINE Good(k) == /\ Phone!Cut(st, k) \in Seq(Seq(X))
                      /\ Len(Phone!Cut(st, k)) = k
                      /\ \A p \in 1 .. k : Len(Phone!Cut(st, k)[p]) = Target
                      /\ Phone!FlattenSeq(Phone!Cut(st, k)) = SubSeq(st, 1, k * Target)
           S == {k \in Nat : k * Target <= Len(st) => Good(k)}
<1>0. Len(st) \in Nat /\ \A i \in 1 .. Len(st) : st[i] \in X
  BY LenProperties, ElementOfSeq
<1>1. Good(0)
  <2>1. Phone!Cut(st, 0) = <<>>
    BY DEF Phone!Cut
  <2>2. SubSeq(st, 1, 0 * Target) = <<>>
    <3>1. 0 * Target = 0
      OBVIOUS
    <3> QED
      BY <3>1, SubSeqEmpty
  <2>3. <<>> \in Seq(Seq(X)) /\ Len(<<>>) = 0 /\ \A p \in 1 .. 0 : FALSE
    BY EmptySeq
  <2> QED
    BY <2>1, <2>2, <2>3, FlattenEmpty
<1>2. ASSUME NEW k \in Nat, (k + 1) * Target <= Len(st), Good(k)
      PROVE  Good(k + 1)
  <2> DEFINE from == k * Target
             piece == SubSeq(st, from + 1, from + Target)
  <2>1. from \in Nat /\ (k + 1) * Target = from + Target
    OBVIOUS
  <2> HIDE DEF from
  <2>2. piece \in Seq(X) /\ Len(piece) = Target
    <3>1. \A i \in from + 1 .. from + Target : i \in 1 .. Len(st)
      BY <1>0, <1>2, <2>1
    <3>2. \A i \in from + 1 .. from + Target : st[i] \in X
      BY <1>0, <3>1
    <3> QED
      BY <2>1, <3>2, SubSeqProperties
  <2>3. /\ Append(Phone!Cut(st, k), piece) \in Seq(Seq(X))
        /\ Len(Append(Phone!Cut(st, k), piece)) = k + 1
        /\ \A p \in 1 .. k : Append(Phone!Cut(st, k), piece)[p] = Phone!Cut(st, k)[p]
        /\ Append(Phone!Cut(st, k), piece)[k + 1] = piece
    <3> DEFINE c == Phone!Cut(st, k)
    <3>1. c \in Seq(Seq(X)) /\ Len(c) = k /\ piece \in Seq(X)
      BY <1>2, <2>2
    <3> HIDE DEF c, piece
    <3> QED
      BY <3>1, AppendProperties DEF c
  <2>4. Phone!Cut(st, k + 1) = Append(Phone!Cut(st, k), piece)
    <3>1. \A p \in 1 .. k + 1 : Phone!Cut(st, k + 1)[p] = Append(Phone!Cut(st, k), piece)[p]
      <4> TAKE p \in 1 .. k + 1
      <4>1. Phone!Cut(st, k + 1)[p] = SubSeq(st, (p - 1) * Target + 1, p * Target)
        BY DEF Phone!Cut
      <4>2. CASE p = k + 1
        <5>1. (p - 1) * Target = from /\ p * Target = from + Target
          BY <2>1, <4>2 DEF from
        <5> QED
          BY <2>3, <4>1, <4>2, <5>1
      <4>3. CASE p # k + 1
        <5>1. p \in 1 .. k
          BY <4>3
        <5>2. Phone!Cut(st, k)[p] = SubSeq(st, (p - 1) * Target + 1, p * Target)
          BY <5>1 DEF Phone!Cut
        <5> QED
          BY <2>3, <4>1, <5>1, <5>2
      <4> QED
        BY <4>2, <4>3
    <3>2. \A p \in 1 .. k + 1 : Phone!Cut(st, k + 1)[p] \in Seq(X)
      BY <2>3, <3>1, ElementOfSeq
    <3>3. Phone!Cut(st, k + 1) \in Seq(Seq(X)) /\ Len(Phone!Cut(st, k + 1)) = k + 1
      <4>1. Phone!Cut(st, k + 1) = [p \in 1 .. k + 1 |-> Phone!Cut(st, k + 1)[p]]
        BY DEF Phone!Cut
      <4> DEFINE c == Phone!Cut(st, k + 1)
      <4> HIDE DEF c
      <4>2. c \in [1 .. k + 1 -> Seq(X)]
        BY <3>2, <4>1 DEF c
      <4>3. c \in Seq(Seq(X)) /\ Len(c) = k + 1
        BY <4>2
      <4> QED
        BY <4>3 DEF c
    <3> QED
      BY <2>3, <3>1, <3>3, SeqEqual
  <2>5. Phone!FlattenSeq(Phone!Cut(st, k + 1)) = SubSeq(st, 1, from) \o piece
    BY <1>2, <2>2, <2>4, FlattenAppend DEF from
  <2>6. SubSeq(st, 1, from) \o piece = SubSeq(st, 1, from + Target)
    <3>1. /\ 1 \in 1 .. Len(st) + 1 /\ from \in 1 - 1 .. Len(st)
          /\ from + Target \in from .. Len(st)
      BY <1>0, <1>2, <2>1
    <3> QED
      BY <3>1, ConcatAdjacentSubSeq
  <2>7. \A p \in 1 .. k + 1 : Len(Phone!Cut(st, k + 1)[p]) = Target
    <3> TAKE p \in 1 .. k + 1
    <3>1. p \in 1 .. k \/ p = k + 1
      OBVIOUS
    <3> QED
      BY <1>2, <2>2, <2>4, <2>3, <3>1
  <2> QED
    BY <2>1, <2>4, <2>5, <2>6, <2>3, <2>7
<1>3. S = Nat
  <2> HIDE DEF Good
  <2>1. 0 \in S
    BY <1>1
  <2>2. \A k \in S : k + 1 \in S
    <3> TAKE k \in S
    <3>1. (k + 1) * Target <= Len(st) => k * Target <= Len(st)
      <4>1. k * Target \in Nat /\ (k + 1) * Target = k * Target + Target
        OBVIOUS
      <4> QED
        BY <1>0, <4>1
    <3> QED
      BY <1>2, <3>1
  <2>3. S \in SUBSET Nat
    OBVIOUS
  <2> HIDE DEF S
  <2> QED
    BY <2>1, <2>2, <2>3, Induction
<1> QED
  BY <1>3

-----------------------------------------------------------------------------
(* The phone: the object of a list of chunks, in cells.                    *)

\* A cell names its blob, the chunk index of its nonce, and its place.
Cell == Nat \X Nat \X Nat

\* Chunks of the first n blobs; their records, and the object of a list of
\* chunks; the list that recordEncryptAndUpload makes of the first n blobs.
Chunk(n) == [index : Nat, blob : 1 .. n]
RecordIn(sizes, blob, i) == [k \in 1 .. sizes[blob] |-> <<blob, i, k>>]
RecordsIn(sizes, list) ==
  [i \in 1 .. Len(list) |-> RecordIn(sizes, list[i].blob, list[i].index)]
ObjectIn(sizes, list) == Phone!FlattenSeq(RecordsIn(sizes, list))
ListTo(n) == [i \in 1 .. n |-> [index |-> i - 1, blob |-> i]]

\* A record has the cells of its blob, and one at least (encryptRecordingChunk).
LEMMA RecordType ==
    ASSUME NEW sizes \in Seq(Sizes), NEW b \in 1 .. Len(sizes), NEW i \in Nat
    PROVE  /\ RecordIn(sizes, b, i) \in Seq(Cell)
           /\ Len(RecordIn(sizes, b, i)) = sizes[b]
           /\ sizes[b] \in Nat \ {0}
<1>1. sizes[b] \in Nat \ {0}
  <2>1. sizes[b] \in Sizes
    BY ElementOfSeq
  <2>2. sizes[b] \in Nat
    BY <2>1, PhoneAssumption
  <2>3. sizes[b] > 0
    BY <2>1, SizeAssumption
  <2> QED
    BY <2>2, <2>3
<1>2. b \in Nat
  BY LenProperties
<1> DEFINE n == sizes[b]
           r == [k \in 1 .. n |-> <<b, i, k>>]
<1>3. n \in Nat
  BY <1>1
<1> HIDE DEF n
<1>4. \A k \in 1 .. n : <<b, i, k>> \in Cell
  BY <1>2, <1>3 DEF Cell
<1>5. r \in [1 .. n -> Cell]
  BY <1>4
<1>6. r \in Seq(Cell) /\ Len(r) = n
  <2> HIDE DEF r
  <2> QED
    BY <1>3, <1>5
<1> QED
  BY <1>1, <1>6 DEF RecordIn, n

\* The records of a list of chunks, one for each.
LEMMA RecordsType ==
    ASSUME NEW sizes \in Seq(Sizes), NEW list \in Seq(Chunk(Len(sizes)))
    PROVE  /\ RecordsIn(sizes, list) \in Seq(Seq(Cell))
           /\ Len(RecordsIn(sizes, list)) = Len(list)
<1>1. Len(list) \in Nat /\ Len(sizes) \in Nat
  BY LenProperties
<1>2. \A i \in 1 .. Len(list) : list[i].blob \in 1 .. Len(sizes) /\ list[i].index \in Nat
  <2> TAKE i \in 1 .. Len(list)
  <2>1. list[i] \in Chunk(Len(sizes))
    BY ElementOfSeq
  <2> QED
    BY <2>1 DEF Chunk
<1> DEFINE r == RecordsIn(sizes, list)
<1>3. r \in [1 .. Len(list) -> Seq(Cell)]
  BY <1>2, RecordType DEF RecordsIn
<1> HIDE DEF r
<1>4. r \in Seq(Seq(Cell)) /\ Len(r) = Len(list)
  BY <1>1, <1>3
<1> QED
  BY <1>4 DEF r

\* The object of a list of chunks is a sequence of cells.
LEMMA ObjectType ==
    ASSUME NEW sizes \in Seq(Sizes), NEW list \in Seq(Chunk(Len(sizes)))
    PROVE  ObjectIn(sizes, list) \in Seq(Cell)
BY RecordsType, FlattenType DEF ObjectIn

\* One chunk more puts its record behind the object (recordEncryptAndUpload).
LEMMA ObjectAppend ==
    ASSUME NEW sizes \in Seq(Sizes), NEW list \in Seq(Chunk(Len(sizes))),
           NEW c \in Chunk(Len(sizes))
    PROVE  ObjectIn(sizes, Append(list, c))
             = ObjectIn(sizes, list) \o RecordIn(sizes, c.blob, c.index)
<1> DEFINE r == RecordsIn(sizes, list)
           e == RecordIn(sizes, c.blob, c.index)
           longer == Append(list, c)
           q == RecordsIn(sizes, longer)
<1>1. r \in Seq(Seq(Cell)) /\ Len(r) = Len(list) /\ e \in Seq(Cell)
  BY RecordsType, RecordType DEF Chunk
<1>2. /\ longer \in Seq(Chunk(Len(sizes))) /\ Len(longer) = Len(list) + 1
      /\ \A i \in 1 .. Len(list) : longer[i] = list[i]
      /\ longer[Len(list) + 1] = c
  BY AppendProperties
<1>3. q \in Seq(Seq(Cell)) /\ Len(q) = Len(list) + 1
  <2> HIDE DEF longer
  <2> QED
    BY <1>2, RecordsType
<1>4. /\ Append(r, e) \in Seq(Seq(Cell)) /\ Len(Append(r, e)) = Len(list) + 1
      /\ \A i \in 1 .. Len(list) : Append(r, e)[i] = r[i]
      /\ Append(r, e)[Len(list) + 1] = e
  <2> HIDE DEF r, e
  <2> QED
    BY <1>1, AppendProperties
<1>5. Len(list) \in Nat
  BY LenProperties
<1>6. \A i \in 1 .. Len(list) + 1 : q[i] = Append(r, e)[i]
  <2> TAKE i \in 1 .. Len(list) + 1
  <2>1. q[i] = RecordIn(sizes, longer[i].blob, longer[i].index)
    BY <1>2 DEF RecordsIn
  <2>2. CASE i \in 1 .. Len(list)
    BY <1>2, <1>4, <2>1, <2>2 DEF RecordsIn
  <2>3. CASE i = Len(list) + 1
    BY <1>2, <1>4, <2>1, <2>3
  <2>4. i \in 1 .. Len(list) \/ i = Len(list) + 1
    BY <1>5
  <2> QED
    BY <2>2, <2>3, <2>4
<1>7. q = Append(r, e)
  <2> HIDE DEF q, r, e
  <2> QED
    BY <1>3, <1>4, <1>6, SeqEqual
<1> HIDE DEF q, r, e
<1>8. Phone!FlattenSeq(Append(r, e)) = Phone!FlattenSeq(r) \o e
  BY <1>1, FlattenAppend
<1> QED
  BY <1>7, <1>8 DEF ObjectIn, q, r, e

\* A blob that is emitted later does not change the object of what is listed.
LEMMA ObjectKept ==
    ASSUME NEW sizes \in Seq(Sizes), NEW list \in Seq(Chunk(Len(sizes))),
           NEW s \in Sizes
    PROVE  ObjectIn(Append(sizes, s), list) = ObjectIn(sizes, list)
<1>1. \A b \in 1 .. Len(sizes) : Append(sizes, s)[b] = sizes[b]
  BY AppendProperties
<1>2. \A i \in 1 .. Len(list) : list[i].blob \in 1 .. Len(sizes)
  <2> TAKE i \in 1 .. Len(list)
  <2>1. list[i] \in Chunk(Len(sizes))
    BY ElementOfSeq
  <2> QED
    BY <2>1 DEF Chunk
<1>3. \A i \in 1 .. Len(list) :
        RecordIn(Append(sizes, s), list[i].blob, list[i].index)
          = RecordIn(sizes, list[i].blob, list[i].index)
  BY <1>1, <1>2 DEF RecordIn
<1>4. RecordsIn(Append(sizes, s), list) = RecordsIn(sizes, list)
  BY <1>3 DEF RecordsIn
<1> QED
  BY <1>4 DEF ObjectIn

\* The chunks of the first n blobs, in order.
LEMMA ListToProperties ==
    ASSUME NEW n \in Nat
    PROVE  /\ ListTo(n) \in Seq(Chunk(n)) /\ Len(ListTo(n)) = n
           /\ ListTo(n + 1) = Append(ListTo(n), [index |-> n, blob |-> n + 1])
<1>1. \A m \in Nat : ListTo(m) \in Seq(Chunk(m)) /\ Len(ListTo(m)) = m
  <2> TAKE m \in Nat
  <2>1. ListTo(m) \in [1 .. m -> Chunk(m)]
    BY DEF ListTo, Chunk
  <2> QED
    BY <2>1
<1> DEFINE c == [index |-> n, blob |-> n + 1]
<1>2. ListTo(n) \in Seq(Chunk(n + 1)) /\ c \in Chunk(n + 1)
  <2>1. Chunk(n) \subseteq Chunk(n + 1) /\ c \in Chunk(n + 1)
    BY DEF Chunk
  <2> QED
    BY <1>1, <2>1, SeqMonotonic
<1>3. /\ Append(ListTo(n), c) \in Seq(Chunk(n + 1))
      /\ Len(Append(ListTo(n), c)) = n + 1
      /\ \A i \in 1 .. n : Append(ListTo(n), c)[i] = ListTo(n)[i]
      /\ Append(ListTo(n), c)[n + 1] = c
  BY <1>1, <1>2, AppendProperties
<1>4. \A i \in 1 .. n + 1 : ListTo(n + 1)[i] = Append(ListTo(n), c)[i]
  <2> TAKE i \in 1 .. n + 1
  <2>1. CASE i \in 1 .. n
    BY <1>3, <2>1 DEF ListTo
  <2>2. CASE i = n + 1
    BY <1>3, <2>2 DEF ListTo
  <2>3. i \in 1 .. n \/ i = n + 1
    OBVIOUS
  <2> QED
    BY <2>1, <2>2, <2>3
<1>5. ListTo(n + 1) \in Seq(Chunk(n + 1)) /\ Len(ListTo(n + 1)) = n + 1
  BY <1>1
<1>6. ListTo(n + 1) = Append(ListTo(n), c)
  BY <1>3, <1>4, <1>5, SeqEqual
<1> QED
  BY <1>1, <1>6

\* Division by the target keeps the order.
LEMMA DivKept ==
    ASSUME NEW a \in Nat, NEW b \in Nat, NEW d \in Nat \ {0}, a <= b
    PROVE  a \div d <= b \div d /\ a \div d \in Nat
OBVIOUS

\* What is left after whole parts is less than a part.
LEMMA DivBounds ==
    ASSUME NEW a \in Nat, NEW d \in Nat \ {0}
    PROVE  /\ a \div d \in Nat
           /\ (a \div d) * d \in Nat /\ (a \div d) * d <= a
           /\ a < (a \div d) * d + d
OBVIOUS

\* More whole parts have more cells.
LEMMA TimesKept ==
    ASSUME NEW m \in Nat, NEW n \in Nat, NEW d \in Nat, m <= n
    PROVE  m * d <= n * d
<1>1. PICK k \in Nat : n = m + k
  <2>1. n - m \in Nat /\ n = m + (n - m)
    OBVIOUS
  <2> QED
    BY <2>1
<1>2. (m + k) * d = m * d + k * d /\ k * d \in Nat /\ m * d \in Nat
  OBVIOUS
<1> QED
  BY <1>1, <1>2
\* Who has n whole parts has n times the target, and at least n parts.
LEMMA DivLower ==
    ASSUME NEW a \in Nat, NEW n \in Nat, NEW d \in Nat \ {0}, n * d <= a
    PROVE  n <= a \div d
<1>1. SUFFICES ASSUME a \div d + 1 <= n PROVE FALSE
  BY DivBounds
<1>2. a \div d \in Nat
  BY DivBounds
<1>3. (a \div d + 1) * d <= n * d
  BY <1>1, <1>2, TimesKept
<1>4. (a \div d + 1) * d = (a \div d) * d + d
  BY <1>2
<1> QED
  BY <1>3, <1>4, DivBounds

\* A function on 1 .. n is a sequence of length n.
LEMMA FunctionIsSeq ==
    ASSUME NEW S, NEW n \in Nat, NEW f \in [1 .. n -> S]
    PROVE  f \in Seq(S) /\ Len(f) = n
OBVIOUS

\* Parts of the target's size have as many cells as their number says.
LEMMA FullLength ==
    ASSUME Target \in Nat \ {0}, NEW X, NEW s \in Seq(Seq(X)),
           \A n \in 1 .. Len(s) : Len(s[n]) = Target
    PROVE  Len(Phone!FlattenSeq(s)) = Len(s) * Target
<1> DEFINE Full == {e \in Seq(X) : Len(e) = Target}
           P == {u \in Seq(Full) : Len(Phone!FlattenSeq(u)) = Len(u) * Target}
<1>1. <<>> \in P
  <2>1. Len(<<>>) = 0 /\ <<>> \in Seq(Full) /\ 0 * Target = 0
    BY EmptySeq
  <2> QED
    BY <2>1, FlattenEmpty
<1>2. \A u \in P, e \in Full : Append(u, e) \in P
  <2> TAKE u \in P, e \in Full
  <2>1. u \in Seq(Full) /\ Len(Phone!FlattenSeq(u)) = Len(u) * Target
    OBVIOUS
  <2>2. Append(u, e) \in Seq(Full) /\ Len(Append(u, e)) = Len(u) + 1
    BY <2>1, AppendProperties
  <2>3. u \in Seq(Seq(X))
    <3>1. Full \subseteq Seq(X)
      OBVIOUS
    <3> HIDE DEF Full
    <3> QED
      BY <2>1, <3>1, SeqMonotonic
  <2>4. Phone!FlattenSeq(Append(u, e)) = Phone!FlattenSeq(u) \o e
    BY <2>3, FlattenAppend
  <2>5. Len(Phone!FlattenSeq(u) \o e) = Len(u) * Target + Target
    <3>1. e \in Seq(X) /\ Len(e) = Target
      OBVIOUS
    <3>2. Phone!FlattenSeq(u) \in Seq(X)
      BY <2>3, FlattenType
    <3>3. Len(Phone!FlattenSeq(u) \o e) = Len(Phone!FlattenSeq(u)) + Len(e)
      BY <3>1, <3>2, ConcatProperties
    <3> QED
      BY <2>1, <3>1, <3>3
  <2>6. (Len(u) + 1) * Target = Len(u) * Target + Target
    <3>1. Len(u) \in Nat
      BY <2>1, LenProperties
    <3> QED
      BY <3>1
  <2> QED
    BY <2>2, <2>4, <2>5, <2>6
<1>3. P = Seq(Full)
  <2>1. P \in SUBSET Seq(Full)
    OBVIOUS
  <2> HIDE DEF P, Full
  <2> QED
    BY <1>1, <1>2, <2>1, SeqInduction
<1>4. s \in Seq(Full)
  <2>1. \A n \in 1 .. Len(s) : s[n] \in Full
    BY ElementOfSeq
  <2> HIDE DEF Full
  <2>2. s \in [1 .. Len(s) -> Full] /\ Len(s) \in Nat
    BY <2>1, LenProperties
  <2> QED
    BY <2>2, FunctionIsSeq
<1> QED
  BY <1>3, <1>4

\* When every part but the last has the target's size, there are at most as many
\* as the cells allow, and one.
LEMMA FullBound ==
    ASSUME Target \in Nat \ {0}, NEW X, NEW s \in Seq(Seq(X)),
           \A n \in 1 .. Len(s) - 1 : Len(s[n]) = Target
    PROVE  Len(s) <= Len(Phone!FlattenSeq(s)) \div Target + 1
<1> DEFINE total == Len(Phone!FlattenSeq(s))
<1>0. total \in Nat /\ Len(s) \in Nat
  BY FlattenType, LenProperties
<1>1. CASE s = <<>>
  <2>1. Len(s) = 0 /\ total = 0
    BY <1>1, FlattenEmpty, EmptySeq
  <2>2. 0 \div Target = 0
    OBVIOUS
  <2> QED
    BY <2>1, <2>2
<1>2. CASE s # <<>>
  <2>1. PICK t \in Seq(Seq(X)), e \in Seq(X) : s = Append(t, e)
    BY <1>2, SequenceEmptyOrAppend
  <2>2. Len(s) = Len(t) + 1 /\ \A n \in 1 .. Len(t) : s[n] = t[n]
    BY <2>1, AppendProperties
  <2>3. Len(t) \in Nat /\ Len(e) \in Nat
    BY LenProperties
  <2>4. Len(Phone!FlattenSeq(t)) = Len(t) * Target
    <3>1. \A n \in 1 .. Len(t) : Len(t[n]) = Target
      <4> TAKE n \in 1 .. Len(t)
      <4>1. n \in 1 .. Len(s) - 1 /\ s[n] = t[n]
        BY <2>2, <2>3
      <4> QED
        BY <4>1
    <3> QED
      BY <3>1, FullLength
  <2>5. total = Len(t) * Target + Len(e)
    <3>1. Phone!FlattenSeq(s) = Phone!FlattenSeq(t) \o e
      BY <2>1, FlattenAppend
    <3>2. Phone!FlattenSeq(t) \in Seq(X)
      BY FlattenType
    <3> QED
      BY <2>4, <3>1, <3>2, ConcatProperties
  <2> HIDE DEF total
  <2>6. Len(t) <= total \div Target
    <3>1. Len(t) * Target \in Nat
      BY <2>3
    <3>2. Len(t) * Target <= total
      BY <2>3, <2>5, <3>1
    <3> QED
      BY <1>0, <2>3, <3>2, DivLower
  <2> QED
    BY <1>0, <2>2, <2>3, <2>6 DEF total
<1> QED
  BY <1>1, <1>2

-----------------------------------------------------------------------------
(* The phone: the inductive invariant.                                     *)

\* The main thread before the end of the take.
BeforeEnd == {"start", "uploads", "take", "drain"}

\* The shape of the phone's state.
PhoneShape ==
  /\ blobs \in Seq(Sizes) /\ Len(blobs) <= MaxBlobs
  /\ recorder \in {"off", "on", "stopping"} /\ answered \in 0 .. Questions
  /\ {timely, aborted, failed, pressed} \subseteq BOOLEAN
  /\ next \in 0 .. Len(blobs) /\ index \in 0 .. next
  /\ chunks \in Seq(Chunk(Len(blobs))) /\ Len(chunks) <= next
  /\ packer \in [count : 0 .. next, staged : Seq(Cell)]
  /\ outbox \in Seq(Seq(Cell)) /\ parts \in Seq(Seq(Cell))
  /\ exposed \subseteq Cell
  /\ upload \in Phone!Uploads \cup {None} /\ (upload # None => outbox # <<>>)
  /\ main \in Phone!MainStates
  /\ \A m \in stray : m.kind \in Phone!Uploads \cup Phone!Asks

\* The cells of a sequence.
CellsOf(s) == {s[k] : k \in 1 .. Len(s)}

\* The cells that are on their way out of the device, or out of it.
Held == exposed \cup CellsOf(packer.staged)
          \cup UNION {CellsOf(outbox[p]) : p \in 1 .. Len(outbox)}

\* The next record takes a nonce that none of them has.
NonceIsFresh ==
  /\ \A c \in Held : Phone!Nonce(c) < packer.count
  /\ \A c, d \in Held : Phone!Nonce(c) = Phone!Nonce(d) => c[1] = d[1]

\* All the cells packed, in order.
Packed == Phone!FlattenSeq(parts \o outbox) \o packer.staged

\* Until something fails, what was packed is the take so far.
StillWhole ==
  ~failed /\ main \in BeforeEnd \cup {"finish"} =>
    /\ index = next /\ packer.count = next
    /\ chunks = ListTo(next)
    /\ Packed = ObjectIn(blobs, chunks)

\* How a take ends.
EndsInOrder ==
  /\ main = "drain" => recorder = "off"
  /\ main = "finish" =>
       /\ recorder = "off" /\ next = Len(blobs) /\ packer.staged = <<>>
       /\ ~failed /\ timely /\ answered = Questions

\* Nothing is recorded or packed any more.
Over == recorder = "off" /\ next = Len(blobs) /\ main \notin BeforeEnd

\* Parts are full, but for the last one of a take that is over.
PartsFull ==
  \A n \in 1 .. Len(parts) + Len(outbox) :
    \/ Len((parts \o outbox)[n]) = Target
    \/ n = Len(parts) + Len(outbox) /\ Over

\* No more is packed than is listed, and that is within maximumUploadBytes.
WithinLimit ==
  /\ Len(Phone!FlattenSeq(parts \o outbox)) + Len(packer.staged)
       <= Len(ObjectIn(blobs, chunks))
  /\ Len(ObjectIn(blobs, chunks)) <= Limit

\* The whole take is in the manifest, and stays there.
Sealed ==
  /\ Over /\ main # "finish" /\ outbox = <<>> /\ upload = None
  /\ ~failed /\ timely /\ answered = Questions
  /\ chunks = ListTo(Len(blobs))
  /\ Phone!FlattenSeq(parts) = ObjectIn(blobs, chunks)

\* Whoever has the manifest has it sealed.
ManifestIsSealed ==
  /\ main = "finalize" => Sealed
  /\ \A m \in stray : m.kind = "finalize" => Sealed /\ m = Phone!Manifest
  /\ srv.accepted # None => Sealed /\ srv.accepted = Phone!Manifest

\* The attempt as stored: whether it has a recording goes with its status.
ServerFits(s) ==
  /\ s = [attempt |-> s.attempt, current |-> s.current, session |-> s.session,
          store |-> s.store, ledger |-> s.ledger, accepted |-> s.accepted,
          refused |-> s.refused]
  /\ s.attempt \in Phone!Statuses /\ s.current \in BOOLEAN /\ s.refused \in BOOLEAN
  /\ s.session \in {None, "active", "pending", "aborting", "failed"}
  /\ s.attempt \in Phone!Abortable => s.accepted = None
  /\ s.attempt \in Phone!Progressed => s.accepted # None
  /\ s.attempt \in Phone!Retryable => s.accepted = None \/ s.refused

\* The phone goes by what the server has done.
PhoneKnows ==
  /\ main \in {"polling", "uploaded"} => srv.accepted # None
  /\ main = "replaced" => srv.attempt \in Phone!Retryable

\* What the worker has released is what it could check of the manifest.
ReaderFits ==
  /\ reader = [pc |-> reader.pc, got |-> reader.got, released |-> reader.released]
  /\ reader.pc \in {"idle", "reading", "ok", "failed"}
  /\ reader.pc = "idle" => reader.got = <<>> /\ reader.released = <<>>
  /\ reader.pc # "idle" =>
       /\ srv.accepted # None
       /\ reader.released = [i \in Phone!Genuine(reader.got) |-> Phone!Listed[i].blob]
  /\ reader.pc \in {"reading", "ok"} =>
       Phone!Genuine(reader.got) = Phone!Complete(reader.got)
  /\ reader.pc = "ok" => Phone!EndsWhole

\* What every step of the phone, the server and the worker keeps.
PhoneIInv ==
  /\ PhoneShape /\ NonceIsFresh
  /\ StillWhole /\ EndsInOrder
  /\ PartsFull /\ WithinLimit
  /\ ManifestIsSealed
  /\ ServerFits(srv) /\ PhoneKnows
  /\ ReaderFits

-----------------------------------------------------------------------------
(* The phone: its steps keep the shape of its state.                       *)

\* Steps that leave the queue alone.
QuietStep ==
  \/ Phone!Data \/ Phone!Answer \/ Phone!Interrupt \/ Phone!RecorderError \/ Phone!Stop
  \/ \E m \in stray : Phone!Lands(m)
  \/ Phone!Answered \/ Phone!Broken
  \/ Phone!BuildManifest \/ Phone!PressRecover \/ Phone!Poll
  \/ Phone!Supersede \/ Phone!ExpireAttempt
  \/ Phone!StartRead \/ Phone!ReadMore \/ Phone!EndRead \/ Phone!Settle

\* Steps of the queue, and the end of the take, which hands the queue its last part.
QueueStep ==
  \/ Phone!ProcessBlob \/ Phone!BeginPart
  \/ Phone!PartAnswered \/ Phone!PartBroken \/ Phone!FinishTake

\* A step outside the queue leaves blobs in progress, parts and manifest alone.
LEMMA QuietSteps ==
    ASSUME QuietStep
    PROVE  UNCHANGED Phone!pipeline
<1>1. CASE Phone!Data \/ Phone!Answer \/ Phone!Interrupt \/ Phone!RecorderError
    \/ Phone!Stop
  BY <1>1 DEF Phone!Data, Phone!Answer, Phone!Interrupt, Phone!RecorderError, Phone!Stop
<1>2. CASE \E m \in stray : Phone!Lands(m)
  BY <1>2 DEF Phone!Lands
<1>3. CASE Phone!Answered
  BY <1>3 DEF Phone!Answered
<1>4. CASE Phone!Broken
  BY <1>4 DEF Phone!Broken
<1>5. CASE Phone!BuildManifest \/ Phone!PressRecover \/ Phone!Poll
    \/ Phone!Supersede \/ Phone!ExpireAttempt
  BY <1>5 DEF Phone!BuildManifest, Phone!PressRecover, Phone!Poll, Phone!Supersede,
      Phone!ExpireAttempt
<1>6. CASE Phone!StartRead \/ Phone!ReadMore \/ Phone!EndRead \/ Phone!Settle
  BY <1>6 DEF Phone!StartRead, Phone!ReadMore, Phone!EndRead, Phone!Settle
<1> QED
  BY <1>1, <1>2, <1>3, <1>4, <1>5, <1>6 DEF QuietStep

\* Every step is one or the other.
LEMMA NextSteps == Phone!Next <=> QuietStep \/ QueueStep
BY DEF Phone!Next, QuietStep, QueueStep

\* What the technical abort can answer (reserveTechnicalAbort).
LEMMA VerdictType ==
    ASSUME NEW m
    PROVE  /\ Phone!Verdict(m) \in {"technical_retry", "already_progressed", "invalidated",
                              "reserved", "conflict"}
           /\ Phone!Verdict(m) = "already_progressed" => srv.attempt \in Phone!Progressed
BY DEF Phone!Verdict

\* What beginRecording and recoverTechnicalFailure go on with after an answer.
LEMMA MainStep ==
    ASSUME PhoneShape, main \in Phone!Asks, NEW m,
           Phone!Verdict(m) # "conflict" \/ main \notin {"abort", "finishAbort"}
    PROVE  /\ Phone!After(Phone!Verdict(m)) \in
                  Phone!MainStates \ {"start", "drain", "finish", "finalize"}
           /\ Phone!After(Phone!Verdict(m)) = "take" => main = "uploads"
           /\ Phone!After(Phone!Verdict(m)) = "uploads" => main = "start"
           /\ Phone!After(Phone!Verdict(m)) = "polling" => main = "finalize"
           /\ Phone!After(Phone!Verdict(m)) = "replaced" => main = "retry"
           /\ Phone!After(Phone!Verdict(m)) = "uploaded" => srv.attempt \in Phone!Progressed
BY VerdictType DEF Phone!After, Phone!Asks, Phone!MainStates

\* What they go on with after a failure.
LEMMA FailureStep == Phone!AfterFailure \in {"abort", "recover"}
BY DEF Phone!AfterFailure

\* Steps of the camera and the main thread keep the shape of the state.
LEMMA CameraShape ==
    ASSUME PhoneShape, UNCHANGED Phone!pipeline, blobs' = blobs,
           recorder' \in {"off", "on", "stopping"}, answered' \in 0 .. Questions,
           {timely', aborted', failed', pressed'} \subseteq BOOLEAN,
           main' \in Phone!MainStates,
           \A m \in stray' : m.kind \in Phone!Uploads \cup Phone!Asks
    PROVE  PhoneShape'
BY DEF PhoneShape, Phone!pipeline

\* Every step outside the queue keeps the shape of the state.
LEMMA QuietShape ==
    ASSUME PhoneShape, QuietStep
    PROVE  PhoneShape'
<1> USE QuietSteps
<1>0. Questions \in Nat
  BY PhoneAssumption
<1>1. CASE Phone!Data
  <2>1. PICK s \in Sizes : blobs' = Append(blobs, s) /\ Len(blobs) < MaxBlobs
    BY <1>1 DEF Phone!Data
  <2>2. blobs' \in Seq(Sizes) /\ Len(blobs') = Len(blobs) + 1 /\ Len(blobs) \in Nat
    BY <2>1, AppendProperties, LenProperties DEF PhoneShape
  <2>3. chunks \in Seq(Chunk(Len(blobs')))
    <3>1. Chunk(Len(blobs)) \subseteq Chunk(Len(blobs'))
      BY <2>2 DEF Chunk
    <3> QED
      BY <3>1, SeqMonotonic DEF PhoneShape
  <2>4. UNCHANGED <<Phone!pipeline, Phone!control, stray, recorder, answered, timely>>
    BY <1>1 DEF Phone!Data
  <2>5. next \in 0 .. Len(blobs') /\ Len(blobs') <= MaxBlobs
    BY <2>1, <2>2, PhoneAssumption DEF PhoneShape
  <2> QED
    BY <2>2, <2>3, <2>4, <2>5 DEF PhoneShape, Phone!pipeline, Phone!control
<1>2. CASE Phone!Answer
  <2>1. /\ answered' \in 0 .. Questions /\ recorder' \in {"off", "on", "stopping"}
        /\ timely' \in BOOLEAN
    BY <1>0, <1>2 DEF Phone!Answer, PhoneShape
  <2> QED
    BY <1>2, <2>1, CameraShape DEF Phone!Answer, PhoneShape, Phone!control, QuietStep
<1>3. CASE Phone!Interrupt
  <2>1. aborted' \in BOOLEAN
    BY <1>3 DEF Phone!Interrupt, PhoneShape
  <2> QED
    BY <1>3, <2>1, CameraShape DEF Phone!Interrupt, PhoneShape
<1>4. CASE Phone!RecorderError \/ Phone!Stop
  <2>1. main' \in Phone!MainStates
    BY <1>4 DEF Phone!RecorderError, Phone!Stop, PhoneShape, Phone!MainStates,
        Phone!Asks
  <2> QED
    BY <1>4, <2>1, CameraShape DEF Phone!RecorderError, Phone!Stop, PhoneShape
<1>5. CASE \E m \in stray : Phone!Lands(m)
  BY <1>5, CameraShape DEF Phone!Lands, PhoneShape, Phone!camera, Phone!control
<1>6. CASE Phone!Answered
  <2>1. main' \in Phone!MainStates /\ recorder' \in {"off", "on", "stopping"}
    <3>1. main' = Phone!After(Phone!Verdict(Phone!Ask(main))) \/ main' = Phone!AfterFailure
      BY <1>6 DEF Phone!Answered
    <3>2. main' # Phone!AfterFailure =>
            Phone!Verdict(Phone!Ask(main)) # "conflict" \/ main \notin {"abort", "finishAbort"}
      BY <1>6 DEF Phone!Answered
    <3> QED
      BY <1>6, <3>1, <3>2, MainStep, FailureStep DEF Phone!Answered, PhoneShape,
          Phone!MainStates, Phone!Asks
  <2> QED
    BY <1>6, <2>1, CameraShape DEF Phone!Answered, PhoneShape
<1>7. CASE Phone!Broken
  <2>1. main' \in Phone!MainStates
    BY <1>7, FailureStep DEF Phone!Broken, Phone!MainStates, Phone!Asks
  <2>2. \A m \in stray' : m.kind \in Phone!Uploads \cup Phone!Asks
    <3>1. Phone!Ask(main).kind \in Phone!Asks
      BY <1>7 DEF Phone!Broken, Phone!Ask, Phone!Manifest, Phone!Asks
    <3> QED
      BY <1>7, <3>1 DEF Phone!Broken, PhoneShape
  <2> QED
    BY <1>7, <2>1, <2>2, CameraShape DEF Phone!Broken, PhoneShape, Phone!camera
<1>8. CASE Phone!BuildManifest \/ Phone!PressRecover \/ Phone!Poll
  <2>1. main' \in Phone!MainStates /\ pressed' \in BOOLEAN
    BY <1>8 DEF Phone!BuildManifest, Phone!PressRecover, Phone!Poll, PhoneShape,
        Phone!MainStates, Phone!Asks
  <2> QED
    BY <1>8, <2>1, CameraShape DEF Phone!BuildManifest, Phone!PressRecover,
        Phone!Poll, PhoneShape, Phone!camera
<1>9. CASE Phone!Supersede \/ Phone!ExpireAttempt \/ Phone!Settle
  BY <1>9, CameraShape DEF Phone!Supersede, Phone!ExpireAttempt, Phone!Settle,
      PhoneShape, Phone!camera, Phone!control
<1>10. CASE Phone!StartRead \/ Phone!ReadMore \/ Phone!EndRead
  BY <1>10, CameraShape DEF Phone!StartRead, Phone!ReadMore, Phone!EndRead,
      PhoneShape, Phone!camera, Phone!control
<1> QED
  BY <1>1, <1>2, <1>3, <1>4, <1>5, <1>6, <1>7, <1>8, <1>9, <1>10 DEF QuietStep

\* What an error of the queue changes (dataavailable, catch).
LEMMA BreaksShape ==
    ASSUME PhoneShape, Phone!Breaks
    PROVE  /\ UNCHANGED <<blobs, answered, timely, pressed>>
           /\ recorder' \in {"off", "on", "stopping"} /\ main' \in Phone!MainStates
           /\ {timely', aborted', failed', pressed'} \subseteq BOOLEAN
           /\ main # "finish" => main' = main /\ failed'
           /\ main = "finish" => main' = "abort" /\ failed' = failed
           /\ recorder' = "off" <=> recorder = "off"
BY DEF Phone!Breaks, PhoneShape, Phone!MainStates, Phone!Asks

\* The main thread and the camera while the queue works: an error at most sends
\* them into the abort.
LEMMA ControlShape ==
    ASSUME PhoneShape, UNCHANGED <<Phone!camera, Phone!control>> \/ Phone!Breaks
    PROVE  /\ UNCHANGED <<blobs, answered, timely, pressed>>
           /\ recorder' \in {"off", "on", "stopping"} /\ main' \in Phone!MainStates
           /\ {timely', aborted', failed', pressed'} \subseteq BOOLEAN
           /\ recorder' = "off" <=> recorder = "off"
           /\ main' = main \/ main' = "abort"
BY BreaksShape DEF PhoneShape, Phone!camera, Phone!control

\* The record of the next blob (processBlob).
LEMMA NextRecord ==
    ASSUME PhoneShape, next < Len(blobs)
    PROVE  /\ next + 1 \in 1 .. Len(blobs) /\ index \in Nat
           /\ Phone!Record(next + 1, index) = RecordIn(blobs, next + 1, index)
           /\ Phone!Record(next + 1, index) \in Seq(Cell)
           /\ [index |-> index, blob |-> next + 1] \in Chunk(Len(blobs))
           /\ packer.staged \o Phone!Record(next + 1, index) \in Seq(Cell)
<1>1. next + 1 \in 1 .. Len(blobs) /\ index \in Nat /\ Len(blobs) \in Nat
  BY LenProperties DEF PhoneShape
<1>2. Phone!Record(next + 1, index) = RecordIn(blobs, next + 1, index)
  BY DEF Phone!Record, RecordIn
<1>3. Phone!Record(next + 1, index) \in Seq(Cell)
  BY <1>1, <1>2, RecordType DEF PhoneShape
<1>4. packer.staged \in Seq(Cell)
  BY DEF PhoneShape
<1> QED
  BY <1>1, <1>2, <1>3, <1>4, ConcatProperties DEF Chunk

\* The parts cut off and what is left staged are what was staged
\* (MultipartRecordPacker.#flush).
LEMMA CutStaged ==
    ASSUME NEW X, NEW st \in Seq(X)
    PROVE  LET whole == Len(st) \div Target IN
           /\ whole \in Nat
           /\ Phone!Cut(st, whole) \in Seq(Seq(X)) /\ Len(Phone!Cut(st, whole)) = whole
           /\ \A p \in 1 .. whole : Len(Phone!Cut(st, whole)[p]) = Target
           /\ SubSeq(st, whole * Target + 1, Len(st)) \in Seq(X)
           /\ Phone!FlattenSeq(Phone!Cut(st, whole))
                \o SubSeq(st, whole * Target + 1, Len(st)) = st
<1> DEFINE whole == Len(st) \div Target
           from == whole * Target
<1>1. Len(st) \in Nat /\ Target \in Nat \ {0}
  BY LenProperties, PhoneAssumption
<1>2. whole \in Nat /\ from \in Nat /\ from <= Len(st)
  BY <1>1, DivBounds
<1>3. /\ Phone!Cut(st, whole) \in Seq(Seq(X)) /\ Len(Phone!Cut(st, whole)) = whole
      /\ \A p \in 1 .. whole : Len(Phone!Cut(st, whole)[p]) = Target
      /\ Phone!FlattenSeq(Phone!Cut(st, whole)) = SubSeq(st, 1, from)
  <2> HIDE DEF whole
  <2> QED
    BY <1>1, <1>2, FlattenCut
<1> HIDE DEF whole, from
<1>4. SubSeq(st, from + 1, Len(st)) \in Seq(X)
  <2>1. \A i \in from + 1 .. Len(st) : i \in 1 .. Len(st)
    BY <1>1, <1>2
  <2>2. \A i \in from + 1 .. Len(st) : st[i] \in X
    BY <2>1, ElementOfSeq
  <2> QED
    BY <1>1, <1>2, <2>2, SubSeqProperties
<1>5. SubSeq(st, 1, from) \o SubSeq(st, from + 1, Len(st)) = st
  <2>1. /\ 1 \in 1 .. Len(st) + 1 /\ from \in 1 - 1 .. Len(st)
        /\ Len(st) \in from .. Len(st)
    BY <1>1, <1>2
  <2> QED
    BY <2>1, ConcatAdjacentSubSeq, SubSeqFull
<1> QED
  BY <1>2, <1>3, <1>4, <1>5 DEF whole, from

\* A blob that is processed, or fails at any point, keeps the shape of the state
\* (processBlob).
LEMMA ProcessShape ==
    ASSUME PhoneShape, Phone!ProcessBlob
    PROVE  PhoneShape'
<1> DEFINE blob == next + 1
           record == Phone!Record(blob, index)
           staged == packer.staged \o record
           whole == Len(staged) \div Target
           listed == Append(chunks, [index |-> index, blob |-> blob])
<1>1. /\ blob \in 1 .. Len(blobs) /\ index \in Nat /\ Len(blobs) \in Nat
      /\ staged \in Seq(Cell)
      /\ next' = blob /\ UNCHANGED <<parts, upload, exposed, stray>>
      /\ outbox = <<>> /\ upload = None
      /\ next \in Nat /\ index \in 0 .. next /\ packer.count \in 0 .. next
      /\ packer.staged \in Seq(Cell)
  BY NextRecord, LenProperties DEF Phone!ProcessBlob, PhoneShape
<1>2. UNCHANGED <<Phone!camera, Phone!control>> \/ Phone!Breaks
  BY DEF Phone!ProcessBlob
<1>3. /\ UNCHANGED <<blobs, answered, timely, pressed>>
      /\ recorder' \in {"off", "on", "stopping"} /\ main' \in Phone!MainStates
      /\ {timely', aborted', failed', pressed'} \subseteq BOOLEAN
  BY <1>2, ControlShape
<1>4. listed \in Seq(Chunk(Len(blobs))) /\ Len(listed) = Len(chunks) + 1
  BY NextRecord, AppendProperties DEF PhoneShape, Phone!ProcessBlob
<1>5. chunks' = chunks \/ chunks' = listed
  BY DEF Phone!ProcessBlob
<1>6. chunks' \in Seq(Chunk(Len(blobs'))) /\ Len(chunks') <= next'
  <2>1. Len(chunks) \in Nat /\ Len(chunks) <= next
    BY LenProperties DEF PhoneShape
  <2>2. chunks \in Seq(Chunk(Len(blobs))) /\ Len(blobs') = Len(blobs)
    BY <1>3 DEF PhoneShape
  <2> HIDE DEF listed
  <2>3. chunks' \in Seq(Chunk(Len(blobs)))
    BY <1>4, <1>5, <2>2
  <2>4. Len(chunks') <= next + 1
    BY <1>1, <1>4, <1>5, <2>1
  <2> QED
    BY <1>1, <2>2, <2>3, <2>4
<1>7. index' \in 0 .. next'
  <2>1. index' = index \/ index' = index + 1
    BY DEF Phone!ProcessBlob
  <2> QED
    BY <1>1, <2>1
<1>8. packer' \in [count : 0 .. next', staged : Seq(Cell)]
  <2>1. packer' = packer
        \/ packer' = [count |-> packer.count + 1,
                     staged |-> SubSeq(staged, Target + 1, Len(staged))]
        \/ packer' = [count |-> packer.count + 1,
                     staged |-> SubSeq(staged, whole * Target + 1, Len(staged))]
    BY DEF Phone!ProcessBlob
  <2>2. SubSeq(staged, whole * Target + 1, Len(staged)) \in Seq(Cell)
    <3> HIDE DEF staged
    <3> QED
      BY <1>1, CutStaged
  <2>3. SubSeq(staged, Target + 1, Len(staged)) \in Seq(Cell)
    <3> HIDE DEF staged
    <3>1. Target \in Nat \ {0} /\ Len(staged) \in Nat
      BY <1>1, PhoneAssumption, LenProperties
    <3>2. \A i \in Target + 1 .. Len(staged) : i \in 1 .. Len(staged)
      BY <3>1
    <3>3. \A i \in Target + 1 .. Len(staged) : staged[i] \in Cell
      BY <1>1, <3>2, ElementOfSeq
    <3> QED
      BY <3>1, <3>3, SubSeqProperties
  <2>4. packer.count + 1 \in 0 .. next' /\ packer.count \in 0 .. next'
    BY <1>1
  <2>5. packer = [count |-> packer.count, staged |-> packer.staged]
    BY DEF PhoneShape
  <2>6. \A n \in 0 .. next', s \in Seq(Cell) :
          [count |-> n, staged |-> s] \in [count : 0 .. next', staged : Seq(Cell)]
    OBVIOUS
  <2>7. packer.staged \in Seq(Cell)
    BY <1>1
  <2> HIDE DEF staged, whole, blob
  <2> QED
    BY <2>1, <2>2, <2>3, <2>4, <2>5, <2>6, <2>7
<1>9. outbox' \in Seq(Seq(Cell))
  <2>1. outbox' = outbox \/ outbox' = Phone!Cut(staged, whole)
    BY DEF Phone!ProcessBlob
  <2>2. Phone!Cut(staged, whole) \in Seq(Seq(Cell))
    <3> HIDE DEF staged
    <3> QED
      BY <1>1, CutStaged
  <2> HIDE DEF staged, whole
  <2> QED
    BY <2>1, <2>2 DEF PhoneShape
<1>10. next' \in 0 .. Len(blobs')
  BY <1>1, <1>3
<1> HIDE DEF blob, record, staged, whole, listed
<1> QED
  BY <1>1, <1>3, <1>6, <1>7, <1>8, <1>9, <1>10 DEF PhoneShape

\* The part that is uploaded is a part (uploadPart).
LEMMA OutboxShape ==
    ASSUME PhoneShape, outbox # <<>>
    PROVE  /\ Head(outbox) \in Seq(Cell) /\ Tail(outbox) \in Seq(Seq(Cell))
           /\ Append(parts, Head(outbox)) \in Seq(Seq(Cell))
           /\ CellsOf(Head(outbox)) \subseteq Cell
           /\ CellsOf(Head(outbox)) = {Head(outbox)[k] : k \in 1 .. Len(Head(outbox))}
<1>1. Head(outbox) \in Seq(Cell) /\ Tail(outbox) \in Seq(Seq(Cell))
  BY HeadTailProperties DEF PhoneShape
<1>2. Append(parts, Head(outbox)) \in Seq(Seq(Cell))
  BY <1>1, AppendProperties DEF PhoneShape
<1>3. CellsOf(Head(outbox)) \subseteq Cell
  BY <1>1, ElementOfSeq DEF CellsOf
<1> QED
  BY <1>1, <1>2, <1>3 DEF CellsOf

\* Every step of the queue keeps the shape of the state.
LEMMA QueueShape ==
    ASSUME PhoneShape, QueueStep
    PROVE  PhoneShape'
<1>1. CASE Phone!ProcessBlob
  BY <1>1, ProcessShape
<1>2. CASE Phone!BeginPart
  BY <1>2 DEF Phone!BeginPart, PhoneShape, Phone!camera, Phone!control, Phone!Uploads
<1>3. CASE Phone!PartAnswered
  <2>1. upload # None /\ outbox # <<>> /\ upload \in Phone!Uploads
    BY <1>3 DEF Phone!PartAnswered, PhoneShape
  <2>2. UNCHANGED <<next, index, chunks, packer, stray>>
    BY <1>3 DEF Phone!PartAnswered
  <2>3. UNCHANGED <<Phone!camera, Phone!control>> \/ Phone!Breaks
    BY <1>3 DEF Phone!PartAnswered
  <2>4. exposed' \subseteq Cell
    BY <1>3, <2>1, OutboxShape DEF Phone!PartAnswered, PhoneShape
  <2>5. /\ outbox' \in Seq(Seq(Cell)) /\ parts' \in Seq(Seq(Cell))
        /\ upload' \in Phone!Uploads \cup {None} /\ (upload' # None => outbox' # <<>>)
    BY <1>3, <2>1, OutboxShape, EmptySeq DEF Phone!PartAnswered, PhoneShape,
        Phone!Uploads
  <2> QED
    BY <2>2, <2>3, <2>4, <2>5, ControlShape DEF PhoneShape
<1>4. CASE Phone!PartBroken
  <2>1. upload # None /\ outbox # <<>> /\ upload \in Phone!Uploads
    BY <1>4 DEF Phone!PartBroken, PhoneShape
  <2>2. /\ UNCHANGED <<next, index, chunks, packer, parts>> /\ Phone!Breaks
        /\ outbox' = <<>> /\ upload' = None
    BY <1>4 DEF Phone!PartBroken
  <2>3. exposed' \subseteq Cell
    BY <1>4, <2>1, OutboxShape DEF Phone!PartBroken, PhoneShape
  <2>4. \A m \in stray' : m.kind \in Phone!Uploads \cup Phone!Asks
    <3>1. Phone!Part(upload).kind \in Phone!Uploads
      BY <2>1 DEF Phone!Part
    <3> QED
      BY <1>4, <3>1 DEF Phone!PartBroken, PhoneShape
  <2>5. outbox' \in Seq(Seq(Cell))
    BY <2>2, EmptySeq
  <2> QED
    BY <2>2, <2>3, <2>4, <2>5, ControlShape DEF PhoneShape
<1>5. CASE Phone!FinishTake
  <2>1. UNCHANGED <<Phone!camera, next, index, chunks, parts, upload, exposed,
                    aborted, failed, pressed, stray>>
        /\ upload = None
    BY <1>5 DEF Phone!FinishTake, Phone!Drained
  <2>2. main' \in Phone!MainStates
    BY <1>5 DEF Phone!FinishTake, Phone!MainStates, Phone!Asks
  <2>3. packer.staged \in Seq(Cell) /\ <<>> \in Seq(Cell) /\ <<>> \in Seq(Seq(Cell))
        /\ packer.count \in 0 .. next
    BY EmptySeq DEF PhoneShape
  <2>4. outbox' \in Seq(Seq(Cell))
    <3>1. outbox' = outbox \/ outbox' = <<>> \/ outbox' = <<packer.staged>>
      BY <1>5 DEF Phone!FinishTake
    <3>2. <<packer.staged>> \in Seq(Seq(Cell))
      BY <2>3
    <3> QED
      BY <2>3, <3>1, <3>2 DEF PhoneShape
  <2>5. packer' \in [count : 0 .. next, staged : Seq(Cell)]
    BY <1>5, <2>3 DEF Phone!FinishTake, PhoneShape
  <2> QED
    BY <2>1, <2>2, <2>4, <2>5 DEF PhoneShape, Phone!camera
<1> QED
  BY <1>1, <1>2, <1>3, <1>4, <1>5 DEF QueueStep

-----------------------------------------------------------------------------
(* The phone: no nonce is used twice.                                      *)

\* The cells of two sequences put together are cells of one of them.
LEMMA CellsConcat ==
    ASSUME NEW X, NEW s \in Seq(X), NEW t \in Seq(X)
    PROVE  CellsOf(s \o t) \subseteq CellsOf(s) \cup CellsOf(t)
<1> SUFFICES ASSUME NEW k \in 1 .. Len(s \o t)
             PROVE  (s \o t)[k] \in CellsOf(s) \cup CellsOf(t)
  BY DEF CellsOf
<1>1. /\ Len(s) \in Nat /\ Len(t) \in Nat
      /\ k \in 1 .. Len(s) + Len(t)
      /\ (s \o t)[k] = IF k <= Len(s) THEN s[k] ELSE t[k - Len(s)]
  BY ConcatProperties, LenProperties
<1>2. CASE k <= Len(s)
  <2>1. k \in 1 .. Len(s)
    BY <1>1, <1>2
  <2> QED
    BY <1>1, <1>2, <2>1 DEF CellsOf
<1>3. CASE ~(k <= Len(s))
  <2>1. k - Len(s) \in 1 .. Len(t)
    BY <1>1, <1>3
  <2> QED
    BY <1>1, <1>3, <2>1 DEF CellsOf
<1> QED
  BY <1>2, <1>3

\* The cells of a piece of a sequence are its cells.
LEMMA CellsSub ==
    ASSUME NEW X, NEW s \in Seq(X), NEW a \in Nat \ {0}, NEW b \in Nat, b <= Len(s)
    PROVE  CellsOf(SubSeq(s, a, b)) \subseteq CellsOf(s)
<1>1. Len(s) \in Nat
  BY LenProperties
<1>2. \A i \in a .. b : i \in 1 .. Len(s)
  BY <1>1
<1>3. \A i \in a .. b : s[i] \in X
  BY <1>2, ElementOfSeq
<1>4. /\ Len(SubSeq(s, a, b)) = IF a <= b THEN b - a + 1 ELSE 0
      /\ \A i \in 1 .. b - a + 1 : SubSeq(s, a, b)[i] = s[a + i - 1]
  BY <1>3, SubSeqProperties
<1> SUFFICES ASSUME NEW k \in 1 .. Len(SubSeq(s, a, b))
             PROVE  SubSeq(s, a, b)[k] \in CellsOf(s)
  BY DEF CellsOf
<1>5. k \in 1 .. b - a + 1 /\ a + k - 1 \in 1 .. Len(s)
  BY <1>1, <1>4
<1> QED
  BY <1>4, <1>5 DEF CellsOf

\* What is cut off, and what is left, has the cells that were staged
\* (MultipartRecordPacker.#flush).
LEMMA CutCells ==
    ASSUME NEW X, NEW st \in Seq(X)
    PROVE  LET whole == Len(st) \div Target IN
           /\ \A p \in 1 .. whole : CellsOf(Phone!Cut(st, whole)[p]) \subseteq CellsOf(st)
           /\ CellsOf(SubSeq(st, whole * Target + 1, Len(st))) \subseteq CellsOf(st)
           /\ CellsOf(SubSeq(st, Target + 1, Len(st))) \subseteq CellsOf(st)
<1> DEFINE whole == Len(st) \div Target
<1>1. Len(st) \in Nat /\ Target \in Nat \ {0} /\ Len(st) <= Len(st)
  BY LenProperties, PhoneAssumption
<1>2. whole \in Nat /\ whole * Target \in Nat /\ whole * Target <= Len(st)
  BY <1>1, DivBounds
<1> HIDE DEF whole
<1>3. ASSUME NEW p \in 1 .. whole
      PROVE  CellsOf(Phone!Cut(st, whole)[p]) \subseteq CellsOf(st)
  <2>1. Phone!Cut(st, whole)[p] = SubSeq(st, (p - 1) * Target + 1, p * Target)
    BY DEF Phone!Cut
  <2>2. (p - 1) * Target \in Nat /\ p * Target \in Nat
    BY <1>1, <1>2
  <2>3. p * Target <= whole * Target
    BY <1>1, <1>2, TimesKept
  <2>4. (p - 1) * Target + 1 \in Nat \ {0} /\ p * Target <= Len(st)
    BY <1>1, <1>2, <2>2, <2>3
  <2> QED
    BY <2>1, <2>2, <2>4, CellsSub
<1>4. CellsOf(SubSeq(st, whole * Target + 1, Len(st))) \subseteq CellsOf(st)
  <2>1. whole * Target + 1 \in Nat \ {0}
    BY <1>2
  <2> QED
    BY <1>1, <2>1, CellsSub
<1>5. CellsOf(SubSeq(st, Target + 1, Len(st))) \subseteq CellsOf(st)
  <2>1. Target + 1 \in Nat \ {0}
    BY <1>1
  <2> QED
    BY <1>1, <2>1, CellsSub
<1> QED
  BY <1>3, <1>4, <1>5 DEF whole

\* What is on its way out is cells.
LEMMA HeldAreCells ==
    ASSUME PhoneShape
    PROVE  Held \subseteq Cell
<1>1. CellsOf(packer.staged) \subseteq Cell
  <2>1. packer.staged \in Seq(Cell)
    BY DEF PhoneShape
  <2> QED
    BY <2>1, ElementOfSeq DEF CellsOf
<1>2. \A p \in 1 .. Len(outbox) : CellsOf(outbox[p]) \subseteq Cell
  <2> TAKE p \in 1 .. Len(outbox)
  <2>1. outbox[p] \in Seq(Cell)
    BY ElementOfSeq DEF PhoneShape
  <2> QED
    BY <2>1, ElementOfSeq DEF CellsOf
<1> QED
  BY <1>1, <1>2 DEF Held, PhoneShape

\* Nonces stay fresh when nothing is added to what is on its way.
LEMMA FreshKept ==
    ASSUME PhoneShape, NonceIsFresh, Held' \subseteq Held, packer'.count = packer.count
    PROVE  NonceIsFresh'
BY DEF NonceIsFresh, Phone!Nonce

\* A record that is packed takes the nonce that none had, and the next one is
\* fresh again (buildChunkNonce, MultipartRecordPacker.push).
LEMMA FreshRecord ==
    ASSUME PhoneShape, NonceIsFresh, Phone!ProcessBlob, Phone!InOrder,
           Held' \subseteq Held \cup CellsOf(Phone!Record(next + 1, index)),
           packer'.count = packer.count + 1
    PROVE  NonceIsFresh'
<1> DEFINE new == CellsOf(Phone!Record(next + 1, index))
<1>1. \A c \in new : Phone!Nonce(c) = packer.count /\ c[1] = next + 1
  <2>1. Phone!Record(next + 1, index) = RecordIn(blobs, next + 1, index)
        /\ next + 1 \in 1 .. Len(blobs) /\ index \in Nat
    BY NextRecord DEF Phone!ProcessBlob
  <2>2. Len(Phone!Record(next + 1, index)) = blobs[next + 1]
    BY <2>1, RecordType DEF PhoneShape
  <2>3. \A k \in 1 .. blobs[next + 1] :
          Phone!Record(next + 1, index)[k] = <<next + 1, index, k>>
    BY DEF Phone!Record
  <2> QED
    BY <2>2, <2>3 DEF CellsOf, Phone!Nonce, Phone!InOrder
<1>2. Held \subseteq Cell /\ packer.count \in Nat
  BY HeldAreCells DEF PhoneShape
<1>3. \A c \in Held : Phone!Nonce(c) \in Nat /\ Phone!Nonce(c) < packer.count
  BY <1>2 DEF NonceIsFresh, Phone!Nonce, Cell
<1> HIDE DEF new
<1>4. \A c \in Held' : c \in Held \/ c \in new
  BY DEF new
<1>5. \A c \in Held' : Phone!Nonce(c) < packer'.count
  BY <1>1, <1>2, <1>3, <1>4
<1>6. \A c, d \in Held' : Phone!Nonce(c) = Phone!Nonce(d) => c[1] = d[1]
  <2> TAKE c, d \in Held'
  <2> HAVE Phone!Nonce(c) = Phone!Nonce(d)
  <2>1. CASE c \in Held /\ d \in Held
    BY <2>1 DEF NonceIsFresh
  <2>2. CASE c \in new /\ d \in new
    BY <1>1, <2>2
  <2>3. CASE c \in Held /\ d \in new
    BY <1>1, <1>2, <1>3, <2>3
  <2>4. CASE c \in new /\ d \in Held
    BY <1>1, <1>2, <1>3, <2>4
  <2> QED
    BY <1>4, <2>1, <2>2, <2>3, <2>4
<1> QED
  BY <1>5, <1>6 DEF NonceIsFresh, Phone!Nonce

\* Every step of the queue keeps the next nonce fresh: an error between the
\* encryption and the upload never lets the index be used again.
LEMMA QueueFresh ==
    ASSUME PhoneShape, NonceIsFresh, QueueStep
    PROVE  NonceIsFresh'
<1>1. CASE Phone!ProcessBlob
  <2> DEFINE record == Phone!Record(next + 1, index)
             staged == packer.staged \o record
             whole == Len(staged) \div Target
  <2>1. /\ packer.staged \in Seq(Cell) /\ record \in Seq(Cell) /\ staged \in Seq(Cell)
        /\ outbox = <<>> /\ exposed' = exposed
    BY <1>1, NextRecord DEF Phone!ProcessBlob, PhoneShape
  <2>2. CellsOf(staged) \subseteq Held \cup CellsOf(record)
    <3> HIDE DEF record
    <3>1. CellsOf(staged) \subseteq CellsOf(packer.staged) \cup CellsOf(record)
      BY <2>1, CellsConcat
    <3> QED
      BY <3>1 DEF Held
  <2>3. CASE UNCHANGED <<packer, outbox>>
    BY <2>1, <2>3, FreshKept DEF Held
  <2>4. CASE /\ Phone!InOrder /\ UNCHANGED outbox
             /\ packer' = [count |-> packer.count + 1,
                           staged |-> SubSeq(staged, Target + 1, Len(staged))]
    <3>1. CellsOf(packer'.staged) \subseteq CellsOf(staged)
      <4> HIDE DEF staged
      <4> QED
        BY <2>1, <2>4, CutCells
    <3> HIDE DEF record, staged, whole
    <3>2. Held' \subseteq Held \cup CellsOf(record)
      BY <2>1, <2>2, <2>4, <3>1 DEF Held
    <3>3. packer'.count = packer.count + 1
      BY <2>4
    <3> QED
      BY <1>1, <2>4, <3>2, <3>3, FreshRecord DEF record
  <2>5. CASE /\ Phone!InOrder /\ outbox' = Phone!Cut(staged, whole)
             /\ packer' = [count |-> packer.count + 1,
                           staged |-> SubSeq(staged, whole * Target + 1, Len(staged))]
    <3>1. /\ CellsOf(packer'.staged) \subseteq CellsOf(staged)
          /\ \A p \in 1 .. Len(outbox') : CellsOf(outbox'[p]) \subseteq CellsOf(staged)
      <4> HIDE DEF staged
      <4>1. Len(outbox') = whole
        BY <2>1, <2>5, CutStaged
      <4> QED
        BY <2>1, <2>5, <4>1, CutCells
    <3> HIDE DEF record, staged, whole
    <3>2. Held' \subseteq Held \cup CellsOf(record)
      BY <2>1, <2>2, <3>1 DEF Held
    <3>3. packer'.count = packer.count + 1
      BY <2>5
    <3> QED
      BY <1>1, <2>5, <3>2, <3>3, FreshRecord DEF record
  <2> QED
    BY <1>1, <2>3, <2>4, <2>5 DEF Phone!ProcessBlob
<1>2. CASE Phone!BeginPart
  BY <1>2, FreshKept DEF Phone!BeginPart, Held
<1>3. CASE Phone!PartAnswered \/ Phone!PartBroken
  <2>1. outbox # <<>> /\ packer' = packer
    BY <1>3 DEF Phone!PartAnswered, Phone!PartBroken, PhoneShape
  <2>2. exposed' \subseteq exposed \cup CellsOf(Head(outbox))
    BY <1>3, <2>1, OutboxShape DEF Phone!PartAnswered, Phone!PartBroken
  <2>3. outbox' = outbox \/ outbox' = Tail(outbox) \/ outbox' = <<>>
    BY <1>3 DEF Phone!PartAnswered, Phone!PartBroken
  <2>4. Len(outbox) \in Nat /\ Len(outbox) > 0 /\ Head(outbox) = outbox[1]
    BY <2>1, EmptySeq, LenProperties DEF PhoneShape
  <2>5. \A p \in 1 .. Len(outbox') : \E q \in 1 .. Len(outbox) : outbox'[p] = outbox[q]
    <3>1. CASE outbox' = outbox
      BY <3>1
    <3>2. CASE outbox' = Tail(outbox)
      <4>1. Len(outbox') = Len(outbox) - 1
            /\ \A p \in 1 .. Len(outbox') : outbox'[p] = outbox[p + 1]
        BY <2>1, <3>2, HeadTailProperties DEF PhoneShape
      <4>2. \A p \in 1 .. Len(outbox') : p + 1 \in 1 .. Len(outbox)
        BY <2>4, <4>1
      <4> QED
        BY <4>1, <4>2
    <3>3. CASE outbox' = <<>>
      BY <3>3, EmptySeq
    <3> QED
      BY <2>3, <3>1, <3>2, <3>3
  <2>6. CellsOf(Head(outbox)) \subseteq Held
    <3>1. 1 \in 1 .. Len(outbox)
      BY <2>4
    <3> QED
      BY <2>4, <3>1 DEF Held
  <2>7. Held' \subseteq Held
    <3>1. \A p \in 1 .. Len(outbox') : CellsOf(outbox'[p]) \subseteq Held
      BY <2>5 DEF Held
    <3> QED
      BY <2>1, <2>2, <2>6, <3>1 DEF Held
  <2> QED
    BY <2>1, <2>7, FreshKept
<1>4. CASE Phone!FinishTake
  <2>1. outbox = <<>> /\ exposed' = exposed /\ packer'.count = packer.count
    BY <1>4 DEF Phone!FinishTake, Phone!Drained, PhoneShape
  <2>2. CellsOf(packer'.staged) \subseteq CellsOf(packer.staged)
    <3>1. packer'.staged = packer.staged \/ packer'.staged = <<>>
      BY <1>4 DEF Phone!FinishTake, PhoneShape
    <3>2. CellsOf(<<>>) = {}
      BY DEF CellsOf
    <3> QED
      BY <3>1, <3>2
  <2>3. \A p \in 1 .. Len(outbox') : CellsOf(outbox'[p]) \subseteq CellsOf(packer.staged)
    <3>1. outbox' = <<>> \/ outbox' = <<packer.staged>>
      BY <1>4, <2>1 DEF Phone!FinishTake
    <3> QED
      BY <3>1
  <2>4. Held' \subseteq Held
    BY <2>1, <2>2, <2>3 DEF Held
  <2> QED
    BY <2>1, <2>4, FreshKept
<1> QED
  BY <1>1, <1>2, <1>3, <1>4 DEF QueueStep

\* Other steps do not touch nonces.
LEMMA QuietFresh ==
    ASSUME PhoneShape, NonceIsFresh, QuietStep
    PROVE  NonceIsFresh'
BY QuietSteps, FreshKept DEF Held, Phone!pipeline

-----------------------------------------------------------------------------
(* The phone: what is packed is the take so far.                           *)

\* The object of a manifest is the object of its chunks.
LEMMA ObjectOfIn == \A list : Phone!ObjectOf(list) = ObjectIn(blobs, list)
BY DEF Phone!ObjectOf, ObjectIn, RecordsIn, Phone!Record, RecordIn

\* What was packed, put together and counted.
LEMMA PackedLength ==
    ASSUME PhoneShape
    PROVE  /\ parts \o outbox \in Seq(Seq(Cell))
           /\ Len(parts \o outbox) = Len(parts) + Len(outbox)
           /\ Len(parts) \in Nat /\ Len(outbox) \in Nat
           /\ Phone!FlattenSeq(parts) \in Seq(Cell)
           /\ Phone!FlattenSeq(outbox) \in Seq(Cell)
           /\ Phone!FlattenSeq(parts \o outbox)
                = Phone!FlattenSeq(parts) \o Phone!FlattenSeq(outbox)
           /\ Phone!FlattenSeq(parts \o outbox) \in Seq(Cell)
           /\ Len(Phone!FlattenSeq(parts \o outbox))
                = Len(Phone!FlattenSeq(parts)) + Len(Phone!FlattenSeq(outbox))
           /\ Len(Phone!FlattenSeq(parts)) \in Nat
           /\ Len(Phone!FlattenSeq(outbox)) \in Nat
           /\ packer.staged \in Seq(Cell) /\ Len(packer.staged) \in Nat
           /\ ObjectIn(blobs, chunks) \in Seq(Cell)
           /\ Len(ObjectIn(blobs, chunks)) \in Nat
           /\ Packed \in Seq(Cell)
           /\ Len(Packed) = Len(Phone!FlattenSeq(parts \o outbox)) + Len(packer.staged)
<1>1. /\ parts \in Seq(Seq(Cell)) /\ outbox \in Seq(Seq(Cell))
      /\ packer.staged \in Seq(Cell)
      /\ blobs \in Seq(Sizes) /\ chunks \in Seq(Chunk(Len(blobs)))
  BY DEF PhoneShape
<1>2. /\ parts \o outbox \in Seq(Seq(Cell))
      /\ Len(parts \o outbox) = Len(parts) + Len(outbox)
      /\ Len(parts) \in Nat /\ Len(outbox) \in Nat
  BY <1>1, ConcatProperties, LenProperties
<1>3. Phone!FlattenSeq(parts) \in Seq(Cell) /\ Phone!FlattenSeq(outbox) \in Seq(Cell)
  BY <1>1, FlattenType
<1>4. Phone!FlattenSeq(parts \o outbox)
        = Phone!FlattenSeq(parts) \o Phone!FlattenSeq(outbox)
  BY <1>1, FlattenConcat
<1>5. /\ Phone!FlattenSeq(parts \o outbox) \in Seq(Cell)
      /\ Len(Phone!FlattenSeq(parts \o outbox))
           = Len(Phone!FlattenSeq(parts)) + Len(Phone!FlattenSeq(outbox))
  BY <1>3, <1>4, ConcatProperties
<1>6. /\ Len(Phone!FlattenSeq(parts)) \in Nat /\ Len(Phone!FlattenSeq(outbox)) \in Nat
      /\ Len(packer.staged) \in Nat
  BY <1>1, <1>3, LenProperties
<1>7. ObjectIn(blobs, chunks) \in Seq(Cell) /\ Len(ObjectIn(blobs, chunks)) \in Nat
  BY <1>1, ObjectType, LenProperties
<1>8. /\ Packed \in Seq(Cell)
      /\ Len(Packed) = Len(Phone!FlattenSeq(parts \o outbox)) + Len(packer.staged)
  <2> DEFINE f == Phone!FlattenSeq(parts \o outbox)
             t == packer.staged
  <2>1. f \in Seq(Cell) /\ t \in Seq(Cell)
    BY <1>1, <1>5
  <2> HIDE DEF f, t
  <2>2. f \o t \in Seq(Cell) /\ Len(f \o t) = Len(f) + Len(t)
    BY <2>1, ConcatProperties
  <2> QED
    BY <2>2 DEF Packed, f, t
<1> QED
  BY <1>1, <1>2, <1>3, <1>4, <1>5, <1>6, <1>7, <1>8

\* Between two blobs, no part waits.
LEMMA PackedBetween ==
    ASSUME PhoneShape, outbox = <<>>
    PROVE  parts \o outbox = parts /\ Packed = Phone!FlattenSeq(parts) \o packer.staged
BY ConcatEmptySeq DEF PhoneShape, Packed

\* A blob that is packed without an error extends what was packed by its record.
LEMMA PackedGrows ==
    ASSUME PhoneShape, Phone!ProcessBlob,
           LET staged == packer.staged \o Phone!Record(next + 1, index)
               whole == Len(staged) \div Target IN
           /\ packer' = [count |-> packer.count + 1, staged |->
                         SubSeq(staged, whole * Target + 1, Len(staged))]
           /\ outbox' = Phone!Cut(staged, whole)
    PROVE  Packed' = Packed \o Phone!Record(next + 1, index)
<1> DEFINE record == Phone!Record(next + 1, index)
           staged == packer.staged \o record
           whole == Len(staged) \div Target
           cut == Phone!Cut(staged, whole)
           rest == SubSeq(staged, whole * Target + 1, Len(staged))
<1>1. /\ outbox = <<>> /\ parts' = parts
      /\ parts \in Seq(Seq(Cell)) /\ packer.staged \in Seq(Cell)
      /\ record \in Seq(Cell) /\ staged \in Seq(Cell)
      /\ outbox' = cut /\ packer'.staged = rest
  BY NextRecord DEF Phone!ProcessBlob, PhoneShape
<1>2. /\ cut \in Seq(Seq(Cell)) /\ rest \in Seq(Cell)
      /\ Phone!FlattenSeq(cut) \o rest = staged
  <2> HIDE DEF staged
  <2> QED
    BY <1>1, CutStaged
<1>3. Packed = Phone!FlattenSeq(parts) \o packer.staged
  BY <1>1, PackedBetween
<1> HIDE DEF cut, rest, whole, record
<1>4. Packed' = Phone!FlattenSeq(parts \o cut) \o rest
  BY <1>1 DEF Packed
<1>5. Phone!FlattenSeq(parts \o cut) = Phone!FlattenSeq(parts) \o Phone!FlattenSeq(cut)
  BY <1>1, <1>2, FlattenConcat
<1>6. Phone!FlattenSeq(parts) \in Seq(Cell) /\ Phone!FlattenSeq(cut) \in Seq(Cell)
  BY <1>1, <1>2, FlattenType
<1>7. (Phone!FlattenSeq(parts) \o Phone!FlattenSeq(cut)) \o rest
        = Phone!FlattenSeq(parts) \o staged
  <2> DEFINE f == Phone!FlattenSeq(parts)
             g == Phone!FlattenSeq(cut)
  <2>1. f \in Seq(Cell) /\ g \in Seq(Cell) /\ rest \in Seq(Cell)
    BY <1>2, <1>6
  <2> HIDE DEF f, g
  <2>2. (f \o g) \o rest = f \o (g \o rest)
    BY <2>1, ConcatAssociative
  <2> HIDE DEF staged
  <2> QED
    BY <1>2, <2>2 DEF f, g
<1>8. Phone!FlattenSeq(parts) \o (packer.staged \o record) = Packed \o record
  <2> DEFINE f == Phone!FlattenSeq(parts)
             t == packer.staged
  <2>1. f \in Seq(Cell) /\ t \in Seq(Cell) /\ record \in Seq(Cell)
    BY <1>1, <1>6
  <2> HIDE DEF f, t
  <2>2. (f \o t) \o record = f \o (t \o record)
    BY <2>1, ConcatAssociative
  <2> QED
    BY <1>3, <2>2 DEF f, t
<1> QED
  BY <1>4, <1>5, <1>7, <1>8 DEF record

\* A part that is acknowledged goes from the outbox to the manifest, in its place
\* (uploadPart).
LEMMA Handover ==
    ASSUME PhoneShape, outbox # <<>>,
           parts' = Append(parts, Head(outbox)), outbox' = Tail(outbox)
    PROVE  /\ (parts \o outbox)' = parts \o outbox
           /\ Len(parts') + Len(outbox') = Len(parts) + Len(outbox)
<1>1. parts \in Seq(Seq(Cell)) /\ outbox \in Seq(Seq(Cell))
  BY DEF PhoneShape
<1>2. /\ Head(outbox) \in Seq(Cell) /\ Tail(outbox) \in Seq(Seq(Cell))
      /\ Len(Tail(outbox)) = Len(outbox) - 1
  BY <1>1, HeadTailProperties
<1>3. outbox = <<Head(outbox)>> \o Tail(outbox)
  <2>1. Len(outbox) \in Nat \ {0}
    BY <1>1, EmptySeq
  <2>2. 1 \in 1 .. Len(outbox) /\ Len(outbox) \in 1 .. Len(outbox)
    BY <2>1
  <2>3. SubSeq(outbox, 1, Len(outbox)) = <<outbox[1]>> \o SubSeq(outbox, 1 + 1, Len(outbox))
    BY <1>1, <2>2, SubSeqRecursiveFirst
  <2>4. /\ Tail(outbox) = SubSeq(outbox, 2, Len(outbox))
        /\ SubSeq(outbox, 1, Len(outbox)) = outbox
    BY <1>1, TailIsSubSeq, SubSeqFull
  <2> QED
    BY <2>3, <2>4
<1>4. Append(parts, Head(outbox)) = parts \o <<Head(outbox)>>
  BY <1>1, <1>2, AppendIsConcat
<1>5. <<Head(outbox)>> \in Seq(Seq(Cell))
  BY <1>2
<1>6. (parts \o <<Head(outbox)>>) \o Tail(outbox) = parts \o outbox
  <2> DEFINE first == <<Head(outbox)>>
             rest == Tail(outbox)
  <2> HIDE DEF first, rest
  <2>1. first \in Seq(Seq(Cell)) /\ rest \in Seq(Seq(Cell)) /\ outbox = first \o rest
    BY <1>2, <1>3, <1>5 DEF first, rest
  <2>2. (parts \o first) \o rest = parts \o (first \o rest)
    <3> DEFINE Records == Seq(Cell)
    <3>1. parts \in Seq(Records) /\ first \in Seq(Records) /\ rest \in Seq(Records)
      BY <1>1, <2>1
    <3> HIDE DEF Records
    <3> QED
      BY <3>1, ConcatAssociative
  <2> QED
    BY <2>1, <2>2 DEF first, rest
<1>7. Len(parts') = Len(parts) + 1
  BY <1>1, <1>2, AppendProperties
<1>8. Len(parts) \in Nat /\ Len(outbox) \in Nat
  BY <1>1, LenProperties
<1> QED
  BY <1>2, <1>4, <1>6, <1>7, <1>8

\* Where a step outside the queue leaves the main thread, the camera and the
\* times of the questions.
LEMMA QuietMain ==
    ASSUME PhoneShape, QuietStep
    PROVE  /\ failed' = failed
           /\ main' \in BeforeEnd => main \in BeforeEnd
           /\ main' = "finish" => main = "finish"
           /\ recorder = "off" /\ main \notin BeforeEnd => recorder' = "off"
           /\ recorder = "off" => blobs' = blobs
           /\ main' = "drain" => main = "drain" \/ recorder' = "off"
           /\ main = "finish" => UNCHANGED <<timely, answered>>
<1>1. CASE Phone!Data \/ Phone!Interrupt \/ Phone!RecorderError \/ Phone!Stop
  BY <1>1 DEF Phone!Data, Phone!Interrupt, Phone!RecorderError, Phone!Stop,
      Phone!control, BeforeEnd
<1>2. CASE Phone!Answer
  BY <1>2 DEF Phone!Answer, Phone!control, BeforeEnd
<1>3. CASE \E m \in stray : Phone!Lands(m)
  BY <1>3 DEF Phone!Lands, Phone!camera, Phone!control
<1>4. CASE Phone!Answered
  <2>1. main' = Phone!After(Phone!Verdict(Phone!Ask(main))) \/ main' = Phone!AfterFailure
    BY <1>4 DEF Phone!Answered
  <2>2. main' # Phone!AfterFailure =>
          Phone!Verdict(Phone!Ask(main)) # "conflict" \/ main \notin {"abort", "finishAbort"}
    BY <1>4 DEF Phone!Answered
  <2>3. main \in Phone!Asks /\ UNCHANGED <<blobs, answered, timely, failed>>
        /\ recorder' = IF main' = "take" THEN "on" ELSE recorder
    BY <1>4 DEF Phone!Answered
  <2>4. main' \in BeforeEnd => main \in BeforeEnd
    BY <2>1, <2>2, <2>3, MainStep, FailureStep DEF BeforeEnd, Phone!MainStates,
        Phone!Asks
  <2>5. main' \notin {"drain", "finish"}
    BY <2>1, <2>2, <2>3, MainStep, FailureStep DEF Phone!MainStates, Phone!Asks
  <2>6. main' = "take" => main \in BeforeEnd
    BY <2>4 DEF BeforeEnd
  <2> QED
    BY <2>3, <2>4, <2>5, <2>6 DEF Phone!Asks
<1>5. CASE Phone!Broken
  BY <1>5, FailureStep DEF Phone!Broken, Phone!camera, BeforeEnd, Phone!Asks
<1>6. CASE Phone!BuildManifest \/ Phone!PressRecover \/ Phone!Poll
  BY <1>6 DEF Phone!BuildManifest, Phone!PressRecover, Phone!Poll, Phone!camera,
      BeforeEnd
<1>7. CASE Phone!Supersede \/ Phone!ExpireAttempt \/ Phone!Settle
    \/ Phone!StartRead \/ Phone!ReadMore \/ Phone!EndRead
  BY <1>7 DEF Phone!Supersede, Phone!ExpireAttempt, Phone!Settle, Phone!StartRead,
      Phone!ReadMore, Phone!EndRead, Phone!camera, Phone!control
<1> QED
  BY <1>1, <1>2, <1>3, <1>4, <1>5, <1>6, <1>7 DEF QuietStep

\* Where a step of the queue leaves the main thread, the camera and its error.
LEMMA QueueMain ==
    ASSUME PhoneShape, QueueStep
    PROVE  /\ UNCHANGED <<blobs, answered, timely>>
           /\ recorder' = "off" <=> recorder = "off"
           /\ main' = "finish" => main = "finish" \/ Phone!FinishTake
           /\ main' \in BeforeEnd => main' = main
           /\ main \notin BeforeEnd => main' \notin BeforeEnd
           /\ failed => failed'
<1>1. CASE Phone!ProcessBlob \/ Phone!PartAnswered \/ Phone!PartBroken
  <2>1. UNCHANGED <<Phone!camera, Phone!control>> \/ Phone!Breaks
    BY <1>1 DEF Phone!ProcessBlob, Phone!PartAnswered, Phone!PartBroken
  <2>2. failed => failed'
    BY <2>1 DEF Phone!control, Phone!Breaks
  <2> QED
    BY <2>1, <2>2, ControlShape DEF BeforeEnd
<1>2. CASE Phone!BeginPart
  BY <1>2 DEF Phone!BeginPart, Phone!camera, Phone!control, BeforeEnd
<1>3. CASE Phone!FinishTake
  BY <1>3 DEF Phone!FinishTake, Phone!camera, BeforeEnd
<1> QED
  BY <1>1, <1>2, <1>3 DEF QueueStep

\* Once a take is over, it stays over.
LEMMA OverKept ==
    ASSUME PhoneShape, Over, Phone!Next
    PROVE  Over' /\ blobs' = blobs
<1>1. CASE QuietStep
  BY <1>1, QuietMain, QuietSteps DEF Over, Phone!pipeline
<1>2. CASE QueueStep
  <2>1. next' = next
    <3>1. ~(next < Len(blobs))
      BY LenProperties DEF Over, PhoneShape
    <3> QED
      BY <1>2, <3>1 DEF QueueStep, Phone!ProcessBlob, Phone!BeginPart,
          Phone!PartAnswered, Phone!PartBroken, Phone!FinishTake
  <2> QED
    BY <1>2, <2>1, QueueMain DEF Over
<1> QED
  BY <1>1, <1>2, NextSteps

\* Every step keeps the order in which a take ends (recordEncryptAndUpload after
\* the stop event).
LEMMA EndsStep ==
    ASSUME PhoneShape, EndsInOrder, Phone!Next
    PROVE  EndsInOrder'
<1>1. CASE QuietStep
  <2>1. main' = "drain" => recorder' = "off"
    <3>1. CASE main' = "drain" /\ main = "drain"
      <4>1. recorder = "off"
        BY <3>1 DEF EndsInOrder
      <4>2. ~Phone!Answered
        BY <3>1 DEF Phone!Answered, Phone!Asks
      <4> QED
        BY <1>1, <4>1, <4>2, QuietSteps DEF QuietStep, Phone!Data, Phone!Answer,
            Phone!Interrupt, Phone!RecorderError, Phone!Stop, Phone!Lands,
            Phone!Broken, Phone!BuildManifest, Phone!PressRecover, Phone!Poll,
            Phone!Supersede, Phone!ExpireAttempt, Phone!StartRead, Phone!ReadMore,
            Phone!EndRead, Phone!Settle, Phone!camera
    <3> QED
      BY <1>1, <3>1, QuietMain
  <2>2. main' = "finish" =>
          /\ recorder' = "off" /\ next' = Len(blobs') /\ packer'.staged = <<>>
          /\ ~failed' /\ timely' /\ answered' = Questions
    BY <1>1, QuietMain, QuietSteps DEF EndsInOrder, Phone!pipeline, BeforeEnd
  <2> QED
    BY <2>1, <2>2 DEF EndsInOrder
<1>2. CASE QueueStep
  <2>1. main' = "drain" => recorder' = "off"
    BY <1>2, QueueMain DEF EndsInOrder, BeforeEnd
  <2>2. ASSUME main' = "finish"
        PROVE /\ recorder' = "off" /\ next' = Len(blobs') /\ packer'.staged = <<>>
              /\ ~failed' /\ timely' /\ answered' = Questions
    <3>1. CASE Phone!FinishTake
      BY <2>2, <3>1 DEF Phone!FinishTake, Phone!camera, EndsInOrder, Phone!Drained,
          Phone!IntervalsValid, PhoneShape
    <3>2. CASE ~Phone!FinishTake
      <4>1. main = "finish"
        BY <1>2, <2>2, <3>2, QueueMain
      <4>2. UNCHANGED <<next, packer>>
        BY <1>2, <3>2, <4>1 DEF QueueStep, Phone!ProcessBlob, Phone!BeginPart,
            Phone!PartAnswered, Phone!PartBroken
      <4>3. failed' = failed
        BY <1>2, <3>2, <4>1 DEF QueueStep, Phone!ProcessBlob, Phone!BeginPart,
            Phone!PartAnswered, Phone!PartBroken, Phone!control, Phone!Breaks
      <4> QED
        BY <1>2, <4>1, <4>2, <4>3, QueueMain DEF EndsInOrder
    <3> QED
      BY <3>1, <3>2
  <2> QED
    BY <2>1, <2>2 DEF EndsInOrder
<1> QED
  BY <1>1, <1>2, NextSteps

\* Until something fails, every step keeps what was packed the take so far.
LEMMA WholeStep ==
    ASSUME PhoneShape, StillWhole, EndsInOrder, Phone!Next
    PROVE  StillWhole'
<1> SUFFICES ASSUME ~failed', main' \in BeforeEnd \cup {"finish"}
             PROVE  /\ index' = next' /\ packer'.count = next'
                    /\ chunks' = ListTo(next')
                    /\ Packed' = ObjectIn(blobs', chunks')
  BY DEF StillWhole
<1>1. CASE QuietStep
  <2>1. ~failed /\ main \in BeforeEnd \cup {"finish"}
    BY <1>1, QuietMain
  <2>2. UNCHANGED <<index, next, packer, chunks, Packed>>
    BY <1>1, QuietSteps DEF Phone!pipeline, Packed
  <2>3. ObjectIn(blobs', chunks) = ObjectIn(blobs, chunks)
    <3>1. CASE Phone!Data
      BY <3>1, ObjectKept DEF Phone!Data, PhoneShape
    <3>2. CASE ~Phone!Data
      <4>1. blobs' = blobs
        BY <1>1, <3>2 DEF QuietStep, Phone!Answer, Phone!Interrupt,
            Phone!RecorderError, Phone!Stop, Phone!Lands, Phone!Answered,
            Phone!Broken, Phone!BuildManifest, Phone!PressRecover, Phone!Poll,
            Phone!Supersede, Phone!ExpireAttempt, Phone!StartRead, Phone!ReadMore,
            Phone!EndRead, Phone!Settle, Phone!camera
      <4> QED
        BY <4>1
    <3> QED
      BY <3>1, <3>2
  <2> QED
    BY <2>1, <2>2, <2>3 DEF StillWhole
<1>2. CASE Phone!ProcessBlob
  <2> DEFINE record == Phone!Record(next + 1, index)
             staged == packer.staged \o record
             whole == Len(staged) \div Target
  <2>1. ~Phone!Breaks
    <3>1. main # "finish"
      BY <1>2 DEF Phone!ProcessBlob
    <3> QED
      BY <3>1, BreaksShape
  <2>2. /\ chunks' = Append(chunks, [index |-> index, blob |-> next + 1])
        /\ packer' = [count |-> packer.count + 1,
                      staged |-> SubSeq(staged, whole * Target + 1, Len(staged))]
        /\ outbox' = Phone!Cut(staged, whole) /\ index' = index + 1
        /\ UNCHANGED <<Phone!camera, Phone!control>> /\ next' = next + 1
        /\ next < Len(blobs)
    BY <1>2, <2>1 DEF Phone!ProcessBlob
  <2>3. /\ index = next /\ packer.count = next /\ chunks = ListTo(next)
        /\ Packed = ObjectIn(blobs, chunks)
    BY <2>2 DEF StillWhole, Phone!control
  <2>4. next \in Nat /\ blobs' = blobs
    BY <2>2, LenProperties DEF PhoneShape, Phone!camera
  <2>5. chunks' = ListTo(next')
    BY <2>2, <2>3, <2>4, ListToProperties
  <2>6. Packed' = Packed \o record
    BY <1>2, <2>2, PackedGrows
  <2>7. ObjectIn(blobs, chunks') = ObjectIn(blobs, chunks) \o record
    <3>1. [index |-> index, blob |-> next + 1] \in Chunk(Len(blobs))
          /\ record = RecordIn(blobs, next + 1, index)
      BY <2>2, NextRecord
    <3> QED
      BY <2>2, <3>1, ObjectAppend DEF PhoneShape
  <2> QED
    BY <2>2, <2>3, <2>4, <2>5, <2>6, <2>7
<1>3. CASE Phone!BeginPart
  BY <1>3 DEF Phone!BeginPart, Phone!camera, Phone!control, StillWhole, Packed
<1>4. CASE Phone!PartAnswered \/ Phone!PartBroken
  <2>1. ~Phone!Breaks
    <3>1. ASSUME Phone!Breaks PROVE FALSE
      BY <3>1, BreaksShape DEF BeforeEnd
    <3> QED
      BY <3>1
  <2>2. Phone!PartAnswered /\ UNCHANGED <<Phone!camera, Phone!control>>
    BY <1>4, <2>1 DEF Phone!PartAnswered, Phone!PartBroken
  <2>3. upload # None /\ outbox # <<>> /\ UNCHANGED <<next, index, chunks, packer>>
    BY <2>2 DEF Phone!PartAnswered, PhoneShape
  <2>4. (parts \o outbox)' = parts \o outbox
    <3>1. \/ parts' = Append(parts, Head(outbox)) /\ outbox' = Tail(outbox)
          \/ UNCHANGED <<parts, outbox>>
      BY <2>1, <2>2 DEF Phone!PartAnswered
    <3> QED
      BY <2>3, <3>1, Handover
  <2>5. Packed' = Packed
    BY <2>3, <2>4 DEF Packed
  <2> QED
    BY <2>2, <2>3, <2>5 DEF StillWhole, Phone!camera, Phone!control
<1>5. CASE Phone!FinishTake
  <2>1. /\ main = "drain" /\ outbox = <<>> /\ main' = "finish" /\ ~failed
        /\ outbox' = IF packer.staged = <<>> THEN <<>> ELSE <<packer.staged>>
        /\ packer' = [packer EXCEPT !.staged = <<>>]
        /\ UNCHANGED <<blobs, next, index, chunks, parts>>
    BY <1>5 DEF Phone!FinishTake, Phone!Drained, Phone!camera, BeforeEnd
  <2>2. /\ index = next /\ packer.count = next /\ chunks = ListTo(next)
        /\ Packed = ObjectIn(blobs, chunks)
    BY <2>1 DEF StillWhole, BeforeEnd
  <2>3. packer'.count = packer.count /\ packer'.staged = <<>>
    BY <2>1 DEF PhoneShape
  <2>4. /\ parts \in Seq(Seq(Cell)) /\ packer.staged \in Seq(Cell)
        /\ Phone!FlattenSeq(parts) \in Seq(Cell)
    BY FlattenType DEF PhoneShape
  <2>5. Packed = Phone!FlattenSeq(parts) \o packer.staged
    BY <2>1, PackedBetween
  <2>6. Packed' = Phone!FlattenSeq(parts \o outbox')
    <3>1. Phone!FlattenSeq(parts \o outbox') \in Seq(Cell)
      <4>1. outbox' \in Seq(Seq(Cell))
        BY <1>5, QueueShape DEF QueueStep, PhoneShape
      <4> QED
        BY <2>4, <4>1, ConcatProperties, FlattenType
    <3> DEFINE f == Phone!FlattenSeq(parts \o outbox')
    <3>2. Packed' = f \o <<>>
      BY <2>1, <2>3 DEF Packed
    <3> HIDE DEF f
    <3>3. f \o <<>> = f
      BY <3>1, ConcatEmptySeq DEF f
    <3> QED
      BY <3>2, <3>3 DEF f
  <2>7. Phone!FlattenSeq(parts \o outbox') = Phone!FlattenSeq(parts) \o packer.staged
    <3>1. CASE packer.staged = <<>>
      <4>1. /\ parts \o outbox' = parts
            /\ Phone!FlattenSeq(parts) \o packer.staged = Phone!FlattenSeq(parts)
        BY <2>1, <2>4, <3>1, ConcatEmptySeq
      <4> QED
        BY <4>1
    <3>2. CASE packer.staged # <<>>
      <4>1. parts \o outbox' = Append(parts, packer.staged)
        BY <2>1, <2>4, <3>2, AppendIsConcat
      <4> QED
        BY <2>4, <4>1, FlattenAppend
    <3> QED
      BY <3>1, <3>2
  <2> QED
    BY <2>1, <2>2, <2>3, <2>5, <2>6, <2>7
<1> QED
  BY <1>1, <1>2, <1>3, <1>4, <1>5, NextSteps DEF QueueStep

-----------------------------------------------------------------------------
(* The phone: parts are full, and within the limit.                        *)

\* Every step keeps parts full: only the end of a take hands out what is left
\* (MultipartRecordPacker.finish).
LEMMA PartsFullStep ==
    ASSUME PhoneShape, PartsFull, EndsInOrder, Phone!Next
    PROVE  PartsFull'
<1>0. /\ parts \in Seq(Seq(Cell)) /\ outbox \in Seq(Seq(Cell))
      /\ Len(parts) \in Nat /\ Len(outbox) \in Nat
  BY LenProperties DEF PhoneShape
<1>1. CASE UNCHANGED <<parts, outbox>>
  BY <1>1, OverKept DEF PartsFull
<1>2. CASE Phone!ProcessBlob /\ outbox' # outbox
  <2> DEFINE staged == packer.staged \o Phone!Record(next + 1, index)
             whole == Len(staged) \div Target
             cut == Phone!Cut(staged, whole)
  <2>1. /\ outbox' = cut /\ outbox = <<>> /\ parts' = parts /\ ~Over
        /\ staged \in Seq(Cell)
    <3>1. next < Len(blobs) /\ Len(blobs) \in Nat
      BY <1>2, LenProperties DEF Phone!ProcessBlob, PhoneShape
    <3>2. ~Over
      BY <3>1 DEF Over
    <3> QED
      BY <1>2, <3>1, <3>2, NextRecord DEF Phone!ProcessBlob
  <2>2. /\ cut \in Seq(Seq(Cell)) /\ Len(cut) = whole /\ whole \in Nat
        /\ \A p \in 1 .. whole : Len(cut[p]) = Target
    <3> HIDE DEF staged
    <3> QED
      BY <2>1, CutStaged
  <2> HIDE DEF cut, whole, staged
  <2>3. \A n \in 1 .. Len(parts) + whole :
          (parts \o cut)[n] = IF n <= Len(parts) THEN parts[n] ELSE cut[n - Len(parts)]
    BY <1>0, <2>2, ConcatProperties
  <2>4. \A n \in 1 .. Len(parts) : Len(parts[n]) = Target
    <3>1. parts \o outbox = parts /\ Len(outbox) = 0
      BY <2>1, PackedBetween, EmptySeq
    <3> QED
      BY <1>0, <2>1, <3>1 DEF PartsFull
  <2>5. \A n \in 1 .. Len(parts) + whole : Len((parts \o cut)[n]) = Target
    <3> TAKE n \in 1 .. Len(parts) + whole
    <3>1. CASE n <= Len(parts)
      <4>1. n \in 1 .. Len(parts)
        BY <1>0, <2>2, <3>1
      <4> QED
        BY <2>3, <2>4, <3>1, <4>1
    <3>2. CASE ~(n <= Len(parts))
      <4>1. n - Len(parts) \in 1 .. whole
        BY <1>0, <2>2, <3>2
      <4> QED
        BY <2>2, <2>3, <3>2, <4>1
    <3> QED
      BY <3>1, <3>2
  <2> QED
    BY <2>1, <2>2, <2>5 DEF PartsFull
<1>3. CASE (Phone!PartAnswered \/ Phone!PartBroken) /\ outbox # <<>>
           /\ parts' = parts /\ outbox' = <<>>
  <2>1. Len(outbox) \in Nat \ {0}
    BY <1>3, EmptySeq DEF PhoneShape
  <2>2. \A n \in 1 .. Len(parts) : (parts \o outbox)[n] = parts[n]
    <3> TAKE n \in 1 .. Len(parts)
    <3>1. n \in 1 .. Len(parts) + Len(outbox) /\ n <= Len(parts)
      BY <1>0
    <3> QED
      BY <1>0, <3>1, ConcatProperties
  <2>3. \A n \in 1 .. Len(parts) : Len(parts[n]) = Target
    <3> TAKE n \in 1 .. Len(parts)
    <3>1. n \in 1 .. Len(parts) + Len(outbox) /\ n # Len(parts) + Len(outbox)
      BY <1>0, <2>1
    <3> QED
      BY <2>2, <3>1 DEF PartsFull
  <2>4. parts' \o outbox' = parts /\ Len(outbox') = 0
    BY <1>0, <1>3, ConcatEmptySeq, EmptySeq
  <2> QED
    BY <1>0, <1>3, <2>3, <2>4 DEF PartsFull
<1>4. CASE outbox # <<>> /\ parts' = Append(parts, Head(outbox)) /\ outbox' = Tail(outbox)
  BY <1>4, Handover, OverKept DEF PartsFull
<1>5. CASE Phone!FinishTake /\ outbox' # outbox
  <2>1. /\ outbox = <<>> /\ outbox' = <<packer.staged>> /\ parts' = parts
        /\ packer.staged \in Seq(Cell) /\ ~Over
    BY <1>5 DEF Phone!FinishTake, Phone!Drained, PhoneShape, Over, BeforeEnd
  <2>2. Over'
    BY <1>5 DEF Phone!FinishTake, Phone!Drained, EndsInOrder, Over, Phone!camera,
        BeforeEnd
  <2>3. parts \o outbox = parts /\ Len(outbox) = 0 /\ Len(outbox') = 1
    BY <2>1, PackedBetween, EmptySeq
  <2>4. parts \o outbox' = Append(parts, packer.staged)
    BY <1>0, <2>1, AppendIsConcat
  <2>5. \A n \in 1 .. Len(parts) : (parts \o outbox')[n] = parts[n]
    BY <1>0, <2>1, <2>4, AppendProperties
  <2>6. \A n \in 1 .. Len(parts) : Len(parts[n]) = Target
    BY <1>0, <2>1, <2>3 DEF PartsFull
  <2>7. \A n \in 1 .. Len(parts) + 1 : n \in 1 .. Len(parts) \/ n = Len(parts) + 1
    BY <1>0
  <2> QED
    BY <2>1, <2>2, <2>3, <2>5, <2>6, <2>7 DEF PartsFull
<1>6. QuietStep \/ Phone!BeginPart => UNCHANGED <<parts, outbox>>
  BY QuietSteps DEF Phone!pipeline, Phone!BeginPart
<1>7. Phone!ProcessBlob => parts' = parts
  BY DEF Phone!ProcessBlob
<1>8. Phone!FinishTake => parts' = parts
  BY DEF Phone!FinishTake
<1>9. Phone!PartAnswered \/ Phone!PartBroken =>
        /\ outbox # <<>>
        /\ \/ UNCHANGED <<parts, outbox>>
           \/ parts' = parts /\ outbox' = <<>>
           \/ parts' = Append(parts, Head(outbox)) /\ outbox' = Tail(outbox)
  BY DEF Phone!PartAnswered, Phone!PartBroken, PhoneShape
<1> QED
  BY <1>1, <1>2, <1>3, <1>4, <1>5, <1>6, <1>7, <1>8, <1>9, NextSteps DEF QueueStep

\* A quiet step keeps the object of what is listed.
LEMMA QuietObject ==
    ASSUME PhoneShape, QuietStep
    PROVE  ObjectIn(blobs', chunks) = ObjectIn(blobs, chunks)
<1>1. CASE Phone!Data
  BY <1>1, ObjectKept DEF Phone!Data, PhoneShape
<1>2. CASE ~Phone!Data
  <2>1. blobs' = blobs
    BY <1>2 DEF QuietStep, Phone!Answer, Phone!Interrupt, Phone!RecorderError,
        Phone!Stop, Phone!Lands, Phone!Answered, Phone!Broken, Phone!BuildManifest,
        Phone!PressRecover, Phone!Poll, Phone!Supersede, Phone!ExpireAttempt,
        Phone!StartRead, Phone!ReadMore, Phone!EndRead, Phone!Settle, Phone!camera
  <2> QED
    BY <2>1
<1> QED
  BY <1>1, <1>2

\* The cells of parts, of parts that wait and of what is staged, counted.
LEMMA LengthOf ==
    ASSUME NEW X, NEW p \in Seq(Seq(X)), NEW o \in Seq(Seq(X)), NEW s \in Seq(X)
    PROVE  /\ Len(Phone!FlattenSeq(p \o o) \o s) = Len(Phone!FlattenSeq(p \o o)) + Len(s)
           /\ Len(Phone!FlattenSeq(p \o o))
                = Len(Phone!FlattenSeq(p)) + Len(Phone!FlattenSeq(o))
           /\ {Len(Phone!FlattenSeq(p \o o)), Len(Phone!FlattenSeq(p)),
               Len(Phone!FlattenSeq(o)), Len(s)} \subseteq Nat
<1> DEFINE f == Phone!FlattenSeq(p \o o)
<1>1. p \o o \in Seq(Seq(X))
  <2> DEFINE Y == Seq(X)
  <2> HIDE DEF Y
  <2>1. p \in Seq(Y) /\ o \in Seq(Y)
    BY DEF Y
  <2>2. p \o o \in Seq(Y)
    BY <2>1, ConcatProperties
  <2> QED
    BY <2>2 DEF Y
<1>2. f \in Seq(X) /\ Phone!FlattenSeq(p) \in Seq(X) /\ Phone!FlattenSeq(o) \in Seq(X)
  BY <1>1, FlattenType
<1>3. f = Phone!FlattenSeq(p) \o Phone!FlattenSeq(o)
  BY FlattenConcat
<1>4. Len(Phone!FlattenSeq(p) \o Phone!FlattenSeq(o))
        = Len(Phone!FlattenSeq(p)) + Len(Phone!FlattenSeq(o))
  BY <1>2, ConcatProperties
<1>5. /\ Len(Phone!FlattenSeq(p)) \in Nat /\ Len(Phone!FlattenSeq(o)) \in Nat
      /\ Len(f) \in Nat /\ Len(s) \in Nat
  BY <1>2, LenProperties
<1> HIDE DEF f
<1>6. Len(f \o s) = Len(f) + Len(s)
  BY <1>2, ConcatProperties
<1> QED
  BY <1>3, <1>4, <1>5, <1>6 DEF f

\* Every step keeps the parts within what is listed, and that within
\* maximumUploadBytes.
LEMMA LimitIsKept ==
    ASSUME PhoneShape, WithinLimit, Phone!Next
    PROVE  WithinLimit'
<1>1. CASE QuietStep
  BY <1>1, QuietSteps, QuietObject DEF Phone!pipeline, WithinLimit
<1>2. CASE Phone!ProcessBlob
  <2> DEFINE record == Phone!Record(next + 1, index)
             staged == packer.staged \o record
             whole == Len(staged) \div Target
             listed == Append(chunks, [index |-> index, blob |-> next + 1])
  <2>1. blobs' = blobs /\ parts' = parts /\ outbox = <<>>
    BY <1>2, QueueMain DEF QueueStep, Phone!ProcessBlob
  <2>2. /\ record \in Seq(Cell) /\ Len(record) \in Nat
        /\ staged \in Seq(Cell) /\ Len(staged) = Len(packer.staged) + Len(record)
        /\ ObjectIn(blobs, listed) = ObjectIn(blobs, chunks) \o record
    <3>1. [index |-> index, blob |-> next + 1] \in Chunk(Len(blobs))
          /\ record = RecordIn(blobs, next + 1, index)
          /\ record \in Seq(Cell) /\ staged \in Seq(Cell)
      BY <1>2, NextRecord DEF Phone!ProcessBlob
    <3>2. Len(staged) = Len(packer.staged) + Len(record)
      BY <3>1, ConcatProperties DEF PhoneShape
    <3>3. ObjectIn(blobs, listed) = ObjectIn(blobs, chunks) \o record
      BY <3>1, ObjectAppend DEF PhoneShape
    <3> QED
      BY <3>1, <3>2, <3>3, LenProperties
  <2>3. Len(ObjectIn(blobs, listed)) = Len(ObjectIn(blobs, chunks)) + Len(record)
    <3> DEFINE object == ObjectIn(blobs, chunks)
    <3>1. object \in Seq(Cell)
      BY PackedLength
    <3> HIDE DEF object, record
    <3>2. Len(object \o record) = Len(object) + Len(record)
      BY <2>2, <3>1, ConcatProperties
    <3> HIDE DEF listed
    <3> QED
      BY <2>2, <3>2 DEF object
  <2>4. chunks' # chunks =>
          chunks' = listed /\ Len(ObjectIn(blobs, chunks)) + Len(record) <= Limit
    BY <1>2, ObjectOfIn DEF Phone!ProcessBlob
  <2>5. chunks' = chunks => UNCHANGED <<packer, outbox>>
    <3>1. listed # chunks
      BY NextRecord, <1>2, AppendProperties, LenProperties DEF PhoneShape,
          Phone!ProcessBlob
    <3> QED
      BY <1>2, <3>1 DEF Phone!ProcessBlob
  <2>6. \/ UNCHANGED <<packer, outbox>>
        \/ /\ UNCHANGED outbox
           /\ packer' = [count |-> packer.count + 1,
                         staged |-> SubSeq(staged, Target + 1, Len(staged))]
        \/ /\ packer' = [count |-> packer.count + 1,
                         staged |-> SubSeq(staged, whole * Target + 1, Len(staged))]
           /\ outbox' = Phone!Cut(staged, whole)
    BY <1>2 DEF Phone!ProcessBlob
  <2> HIDE DEF record, staged, whole, listed
  <2> DEFINE used == Len(Phone!FlattenSeq(parts \o outbox)) + Len(packer.staged)
  <2>7. used' <= used + Len(record)
    <3>1. CASE UNCHANGED <<packer, outbox>>
      BY <2>1, <2>2, <3>1, PackedLength
    <3>2. CASE /\ UNCHANGED outbox
               /\ packer' = [count |-> packer.count + 1,
                             staged |-> SubSeq(staged, Target + 1, Len(staged))]
      <4>1. Target \in Nat \ {0} /\ Len(staged) \in Nat
        BY <2>2, PhoneAssumption, LenProperties
      <4>2. \A i \in Target + 1 .. Len(staged) : staged[i] \in Cell
        <5>1. \A i \in Target + 1 .. Len(staged) : i \in 1 .. Len(staged)
          BY <4>1
        <5> QED
          BY <2>2, <5>1, ElementOfSeq
      <4>3. Len(SubSeq(staged, Target + 1, Len(staged))) <= Len(staged)
        BY <4>1, <4>2, SubSeqProperties
      <4>4. packer'.staged = SubSeq(staged, Target + 1, Len(staged))
        BY <3>2
      <4>5. Len(packer'.staged) \in Nat
        BY <4>1, <4>2, <4>4, SubSeqProperties
      <4>6. Len(Phone!FlattenSeq(parts' \o outbox'))
              = Len(Phone!FlattenSeq(parts \o outbox))
        BY <2>1, <3>2
      <4>7. Len(packer'.staged) <= Len(packer.staged) + Len(record)
        BY <2>2, <4>3, <4>4
      <4>8. Len(packer.staged) \in Nat /\ Len(Phone!FlattenSeq(parts \o outbox)) \in Nat
        BY PackedLength
      <4> QED
        BY <2>2, <4>5, <4>6, <4>7, <4>8
    <3>3. CASE /\ packer' = [count |-> packer.count + 1,
                             staged |-> SubSeq(staged, whole * Target + 1, Len(staged))]
               /\ outbox' = Phone!Cut(staged, whole)
      <4>1. Packed' = Packed \o record
        BY <1>2, <3>3, PackedGrows DEF record, staged, whole
      <4>2. Len(Packed \o record) = Len(Packed) + Len(record)
        BY <2>2, PackedLength, ConcatProperties
      <4>3. Len(Packed') = used'
        <5>1. PhoneShape'
          BY <1>2, ProcessShape
        <5>2. /\ parts' \in Seq(Seq(Cell)) /\ outbox' \in Seq(Seq(Cell))
              /\ packer'.staged \in Seq(Cell)
          BY <5>1 DEF PhoneShape
        <5> QED
          BY <5>2, LengthOf DEF Packed
      <4> QED
        BY <4>1, <4>2, <4>3, PackedLength
    <3> QED
      BY <2>6, <3>1, <3>2, <3>3
  <2>8. used \in Nat /\ Len(ObjectIn(blobs, chunks)) \in Nat
    BY PackedLength
  <2>9. chunks' # chunks =>
          Len(ObjectIn(blobs', chunks')) = Len(ObjectIn(blobs, chunks)) + Len(record)
    BY <2>1, <2>3, <2>4
  <2>10. CASE chunks' = chunks
    BY <2>1, <2>5, <2>10 DEF WithinLimit
  <2>11. CASE chunks' # chunks
    <3>1. Len(ObjectIn(blobs', chunks')) <= Limit
      BY <2>4, <2>9, <2>11
    <3>2. used' \in Nat
      <4>1. /\ parts' \in Seq(Seq(Cell)) /\ outbox' \in Seq(Seq(Cell))
            /\ packer'.staged \in Seq(Cell)
        BY <1>2, ProcessShape DEF PhoneShape
      <4> QED
        BY <4>1, LengthOf
    <3>3. used' <= Len(ObjectIn(blobs', chunks'))
      BY <2>2, <2>7, <2>8, <2>9, <2>11, <3>2 DEF WithinLimit
    <3> QED
      BY <3>1, <3>3 DEF WithinLimit
  <2> QED
    BY <2>10, <2>11
<1>3. CASE QueueStep /\ ~Phone!ProcessBlob
  <2>1. blobs' = blobs /\ chunks' = chunks
    BY <1>3, QueueMain DEF QueueStep, Phone!BeginPart, Phone!PartAnswered,
        Phone!PartBroken, Phone!FinishTake
  <2> DEFINE used == Len(Phone!FlattenSeq(parts \o outbox)) + Len(packer.staged)
  <2>2. used' <= used
    <3>1. CASE UNCHANGED <<parts, outbox, packer>>
      BY <3>1, PackedLength
    <3>2. CASE outbox' = <<>> /\ UNCHANGED <<parts, packer>>
      <4>1. parts' \o outbox' = parts
        BY <3>2, ConcatEmptySeq DEF PhoneShape
      <4> QED
        BY <3>2, <4>1, PackedLength
    <3>3. CASE /\ outbox # <<>> /\ packer' = packer
               /\ parts' = Append(parts, Head(outbox)) /\ outbox' = Tail(outbox)
      <4>1. parts' \o outbox' = parts \o outbox
        BY <3>3, Handover
      <4>2. Len(Phone!FlattenSeq(parts' \o outbox'))
              = Len(Phone!FlattenSeq(parts \o outbox))
        BY <4>1
      <4> QED
        BY <3>3, <4>2, PackedLength
    <3>4. CASE Phone!FinishTake /\ outbox' # outbox
      <4>1. /\ outbox = <<>> /\ parts' = parts /\ outbox' = <<packer.staged>>
            /\ packer'.staged = <<>> /\ packer.staged \in Seq(Cell)
        BY <3>4 DEF Phone!FinishTake, Phone!Drained, PhoneShape
      <4>2. parts' \o outbox' = Append(parts, packer.staged)
        BY <4>1, AppendIsConcat DEF PhoneShape
      <4>3. Phone!FlattenSeq(parts' \o outbox') = Phone!FlattenSeq(parts) \o packer.staged
        BY <4>1, <4>2, FlattenAppend DEF PhoneShape
      <4>4. Packed = Phone!FlattenSeq(parts) \o packer.staged
        BY <4>1, PackedBetween
      <4>5. Len(packer'.staged) = 0
        BY <4>1, EmptySeq
      <4> QED
        BY <4>3, <4>4, <4>5, PackedLength
    <3>5. Phone!BeginPart => UNCHANGED <<parts, outbox, packer>>
      BY DEF Phone!BeginPart
    <3>6. Phone!PartAnswered \/ Phone!PartBroken =>
            /\ outbox # <<>> /\ packer' = packer
            /\ \/ UNCHANGED <<parts, outbox>>
               \/ parts' = parts /\ outbox' = <<>>
               \/ parts' = Append(parts, Head(outbox)) /\ outbox' = Tail(outbox)
      BY DEF Phone!PartAnswered, Phone!PartBroken, PhoneShape
    <3>7. Phone!FinishTake =>
            /\ parts' = parts
            /\ \/ outbox' # outbox
               \/ packer'.staged = packer.staged
      <4>1. CASE Phone!FinishTake /\ packer' = [packer EXCEPT !.staged = <<>>]
        <5>1. packer'.staged = <<>> /\ outbox = <<>>
          BY <4>1 DEF Phone!FinishTake, Phone!Drained, PhoneShape
        <5>2. packer.staged # <<>> => outbox' = <<packer.staged>> \/ packer' = packer
          BY <4>1 DEF Phone!FinishTake
        <5>3. <<packer.staged>> # <<>>
          OBVIOUS
        <5> QED
          BY <4>1, <5>1, <5>2, <5>3 DEF Phone!FinishTake
      <4>2. CASE Phone!FinishTake /\ UNCHANGED <<outbox, packer>>
        BY <4>2 DEF Phone!FinishTake
      <4> QED
        BY <4>1, <4>2 DEF Phone!FinishTake
    <3>8. CASE Phone!FinishTake /\ outbox' = outbox
      <4>1. Len(packer'.staged) = Len(packer.staged) /\ parts' = parts
        BY <3>7, <3>8
      <4> QED
        BY <3>8, <4>1, PackedLength
    <3> QED
      BY <1>3, <3>1, <3>2, <3>3, <3>4, <3>5, <3>6, <3>8 DEF QueueStep
  <2>3. used \in Nat /\ Len(ObjectIn(blobs, chunks)) \in Nat
    BY PackedLength
  <2>4. used' \in Nat
    <3>1. /\ parts' \in Seq(Seq(Cell)) /\ outbox' \in Seq(Seq(Cell))
          /\ packer'.staged \in Seq(Cell)
      BY <1>3, QueueShape DEF PhoneShape
    <3> QED
      BY <3>1, LengthOf
  <2> QED
    BY <2>1, <2>2, <2>3, <2>4 DEF WithinLimit
<1> QED
  BY <1>1, <1>2, <1>3, NextSteps

\* The parts of a take have their place in storage.
LEMMA PartsAreFew ==
    ASSUME PhoneShape, PartsFull, WithinLimit
    PROVE  Len(parts) <= Phone!MaxParts
<1> DEFINE all == parts \o outbox
           total == Len(Phone!FlattenSeq(all))
<1>1. /\ all \in Seq(Seq(Cell)) /\ Len(all) = Len(parts) + Len(outbox)
      /\ Len(parts) \in Nat /\ Len(outbox) \in Nat
      /\ total \in Nat /\ total <= Limit
  BY PackedLength, PhoneAssumption DEF WithinLimit
<1>2. \A n \in 1 .. Len(all) - 1 : Len(all[n]) = Target
  <2> TAKE n \in 1 .. Len(all) - 1
  <2>1. n \in 1 .. Len(parts) + Len(outbox) /\ n # Len(parts) + Len(outbox)
    BY <1>1
  <2> QED
    BY <2>1 DEF PartsFull
<1>3. Target \in Nat \ {0} /\ Limit \in Nat
  BY PhoneAssumption
<1>4. Len(all) <= total \div Target + 1
  <2> HIDE DEF all
  <2> QED
    BY <1>1, <1>2, <1>3, FullBound
<1> HIDE DEF all, total
<1>5. /\ total \div Target <= Limit \div Target /\ total \div Target \in Nat
      /\ Limit \div Target \in Nat
  BY <1>1, <1>3, DivKept, DivBounds
<1> QED
  BY <1>1, <1>4, <1>5 DEF Phone!MaxParts

-----------------------------------------------------------------------------
(* The phone and the server: the manifest is of the whole take.            *)

\* The manifest that is finalized is a manifest.
LEMMA ManifestType ==
    ASSUME PhoneShape
    PROVE  /\ Phone!Manifest \in Phone!Manifests /\ Phone!Manifest # None
           /\ Phone!Manifest.kind = "finalize"
<1>1. chunks \in Seq([index : Nat, blob : Nat])
  <2>1. Len(blobs) \in Nat
    BY LenProperties DEF PhoneShape
  <2>2. Chunk(Len(blobs)) \subseteq [index : Nat, blob : Nat]
    BY <2>1 DEF Chunk
  <2> QED
    BY <2>2, SeqMonotonic DEF PhoneShape
<1>2. parts \in Seq(Seq(Nat \X Nat \X Nat)) /\ answered \in Nat
  BY PhoneAssumption DEF PhoneShape, Cell
<1>3. Phone!Manifest \in Phone!Manifests
  <2> DEFINE Chunks == Seq([index : Nat, blob : Nat])
             Parts == Seq(Seq(Nat \X Nat \X Nat))
  <2>1. chunks \in Chunks /\ parts \in Parts
    BY <1>1, <1>2
  <2> HIDE DEF Chunks, Parts
  <2>2. Phone!Manifest \in
          [kind : {"finalize"}, chunks : Chunks, parts : Parts, intervals : Nat]
    BY <1>2, <2>1 DEF Phone!Manifest
  <2> QED
    BY <2>2 DEF Phone!Manifests, Chunks, Parts
<1> QED
  BY <1>3, PhoneAssumption DEF Phone!Manifest

\* What serving a request does to the stored attempt, whichever arrives and when.
LEMMA ServedFits ==
    ASSUME ServerFits(srv), NEW m, m.kind \in Phone!Uploads \cup Phone!Asks,
           m.kind = "finalize" => m # None
    PROVE  /\ ServerFits(Phone!Served(m))
           /\ \/ Phone!Served(m).accepted = srv.accepted
              \/ /\ m.kind = "finalize" /\ srv.accepted = None
                 /\ Phone!Served(m).accepted = m
           /\ m.kind = "finalize" /\ Phone!Grants(m) => Phone!Served(m).accepted = m
           /\ srv.attempt \in Phone!Retryable => Phone!Served(m).attempt \in Phone!Retryable
           /\ Phone!Served(m).refused = srv.refused
<1>1. CASE ~Phone!Grants(m)
  BY <1>1 DEF Phone!Served
<1>2. CASE Phone!Grants(m) /\ m.kind = "start"
  BY <1>2 DEF Phone!Served, Phone!Grants, ServerFits, Phone!Statuses,
      Phone!Abortable, Phone!Progressed, Phone!Retryable
<1>3. CASE Phone!Grants(m) /\ m.kind = "uploads"
  BY <1>3 DEF Phone!Served, Phone!Grants, ServerFits, Phone!Statuses,
      Phone!Abortable, Phone!Progressed, Phone!Retryable
<1>4. CASE Phone!Grants(m) /\ m.kind = "put"
  BY <1>4 DEF Phone!Served, ServerFits
<1>5. CASE Phone!Grants(m) /\ m.kind = "complete"
  BY <1>5 DEF Phone!Served, ServerFits
<1>6. CASE Phone!Grants(m) /\ m.kind = "finalize"
  <2>1. \/ srv.attempt = "uploading" /\ srv.accepted = None
        \/ srv.attempt = "processing" /\ srv.accepted = m
    BY <1>6 DEF Phone!Grants, ServerFits, Phone!Uploadable, Phone!Abortable
  <2>2. Phone!Served(m) =
          [srv EXCEPT !.attempt = "processing", !.session = "pending", !.accepted = m]
    BY <1>6 DEF Phone!Served
  <2> QED
    BY <1>6, <2>1, <2>2 DEF ServerFits, Phone!Statuses, Phone!Abortable,
        Phone!Progressed, Phone!Retryable
<1>7. CASE Phone!Grants(m) /\ m.kind = "abort"
  BY <1>7 DEF Phone!Served, ServerFits
<1>8. CASE Phone!Grants(m) /\ m.kind = "finishAbort"
  <2>1. /\ srv.attempt # "technical_retry"
        /\ ~srv.current \/ srv.attempt \in Phone!Abortable
    BY <1>8 DEF Phone!Grants
  <2>2. Phone!Served(m) = [srv EXCEPT
          !.session = IF @ = None THEN None ELSE "failed",
          !.attempt = IF srv.current THEN "technical_retry"
                      ELSE IF @ \in Phone!Abortable THEN "invalidated" ELSE @]
    BY <1>8 DEF Phone!Served
  <2>3. CASE srv.current
    BY <1>8, <2>1, <2>2, <2>3 DEF ServerFits, Phone!Statuses, Phone!Abortable,
        Phone!Progressed, Phone!Retryable
  <2>4. CASE ~srv.current
    BY <1>8, <2>1, <2>2, <2>4 DEF ServerFits, Phone!Statuses, Phone!Abortable,
        Phone!Progressed, Phone!Retryable
  <2> QED
    BY <2>3, <2>4
<1>9. CASE Phone!Grants(m) /\ m.kind \in {"url", "retry"}
  BY <1>9 DEF Phone!Served
<1> QED
  BY <1>1, <1>2, <1>3, <1>4, <1>5, <1>6, <1>7, <1>8, <1>9 DEF Phone!Uploads, Phone!Asks

\* What supersession, expiry and the job do to the stored attempt.
LEMMA ServerAlone ==
    ASSUME ServerFits(srv), Phone!Supersede \/ Phone!ExpireAttempt \/ Phone!Settle
    PROVE  /\ ServerFits(srv')
           /\ srv'.accepted = srv.accepted
           /\ srv.attempt \in Phone!Retryable => srv'.attempt \in Phone!Retryable
<1>1. CASE Phone!Supersede
  BY <1>1 DEF Phone!Supersede, ServerFits, Phone!Statuses, Phone!Abortable,
      Phone!Progressed, Phone!Retryable
<1>2. CASE Phone!ExpireAttempt
  BY <1>2 DEF Phone!ExpireAttempt, ServerFits, Phone!Statuses, Phone!Abortable,
      Phone!Progressed, Phone!Retryable
<1>3. CASE Phone!Settle
  BY <1>3 DEF Phone!Settle, ServerFits, Phone!Statuses, Phone!Abortable,
      Phone!Progressed, Phone!Retryable
<1> QED
  BY <1>1, <1>2, <1>3

\* A request that may reach the server.
OnItsWay(m) ==
  /\ m.kind \in Phone!Uploads \cup Phone!Asks
  /\ m.kind = "finalize" => Sealed /\ m = Phone!Manifest

LEMMA RequestsOnTheirWay ==
    ASSUME PhoneShape, ManifestIsSealed
    PROVE  /\ \A m \in stray : OnItsWay(m)
           /\ main \in Phone!Asks =>
                OnItsWay(Phone!Ask(main)) /\ Phone!Ask(main).kind = main
           /\ upload # None =>
                OnItsWay(Phone!Part(upload)) /\ Phone!Part(upload).kind \in Phone!Uploads
<1>1. \A m \in stray : OnItsWay(m)
  BY DEF OnItsWay, PhoneShape, ManifestIsSealed
<1>2. main \in Phone!Asks => OnItsWay(Phone!Ask(main)) /\ Phone!Ask(main).kind = main
  BY DEF OnItsWay, Phone!Ask, Phone!Manifest, ManifestIsSealed
<1>3. upload # None =>
        OnItsWay(Phone!Part(upload)) /\ Phone!Part(upload).kind \in Phone!Uploads
  BY DEF OnItsWay, Phone!Part, PhoneShape, Phone!Uploads
<1> QED
  BY <1>1, <1>2, <1>3

\* A step serves a request at most, or the server moves by itself.
LEMMA ServerStep ==
    ASSUME PhoneShape, ManifestIsSealed, Phone!Next
    PROVE  \/ srv' = srv
           \/ \E m : srv' = Phone!Served(m) /\ OnItsWay(m)
           \/ Phone!Supersede \/ Phone!ExpireAttempt \/ Phone!Settle
<1> USE RequestsOnTheirWay
<1>1. CASE \E m \in stray : Phone!Lands(m)
  BY <1>1 DEF Phone!Lands
<1>2. CASE Phone!Answered
  BY <1>2 DEF Phone!Answered
<1>3. CASE Phone!Broken
  BY <1>3 DEF Phone!Broken
<1>4. CASE Phone!PartAnswered
  BY <1>4 DEF Phone!PartAnswered
<1>5. CASE Phone!PartBroken
  BY <1>5 DEF Phone!PartBroken
<1>6. CASE Phone!ProcessBlob \/ Phone!BeginPart \/ Phone!FinishTake
  BY <1>6 DEF Phone!ProcessBlob, Phone!BeginPart, Phone!FinishTake
<1>7. CASE Phone!Data \/ Phone!Answer \/ Phone!Interrupt \/ Phone!RecorderError
    \/ Phone!Stop
  BY <1>7 DEF Phone!Data, Phone!Answer, Phone!Interrupt, Phone!RecorderError, Phone!Stop
<1>8. CASE Phone!BuildManifest \/ Phone!PressRecover \/ Phone!Poll
    \/ Phone!StartRead \/ Phone!ReadMore \/ Phone!EndRead
  BY <1>8 DEF Phone!BuildManifest, Phone!PressRecover, Phone!Poll, Phone!StartRead,
      Phone!ReadMore, Phone!EndRead
<1> QED
  BY <1>1, <1>2, <1>3, <1>4, <1>5, <1>6, <1>7, <1>8 DEF Phone!Next

\* The server accepts a manifest once, and only that of a sealed take (finalize).
LEMMA AcceptedStep ==
    ASSUME PhoneShape, ManifestIsSealed, ServerFits(srv), Phone!Next
    PROVE  /\ ServerFits(srv')
           /\ \/ srv'.accepted = srv.accepted
              \/ srv.accepted = None /\ Sealed /\ srv'.accepted = Phone!Manifest
           /\ srv.accepted # None => srv'.accepted = srv.accepted
           /\ srv.attempt \in Phone!Retryable => srv'.attempt \in Phone!Retryable
<1>1. CASE srv' = srv
  BY <1>1
<1>2. CASE \E m : srv' = Phone!Served(m) /\ OnItsWay(m)
  <2>1. PICK m : srv' = Phone!Served(m) /\ OnItsWay(m)
    BY <1>2
  <2>2. m.kind \in Phone!Uploads \cup Phone!Asks
        /\ (m.kind = "finalize" => m # None /\ Sealed /\ m = Phone!Manifest)
    BY <2>1, ManifestType DEF OnItsWay
  <2> QED
    BY <2>1, <2>2, ServedFits
<1>3. CASE Phone!Supersede \/ Phone!ExpireAttempt \/ Phone!Settle
  BY <1>3, ServerAlone
<1> QED
  BY <1>1, <1>2, <1>3, ServerStep

\* A sealed take and its manifest never change again, whatever the phone, the
\* server or a late request does.
LEMMA SealedKept ==
    ASSUME PhoneShape, Sealed, Phone!Next
    PROVE  Sealed' /\ Phone!Manifest' = Phone!Manifest /\ blobs' = blobs
<1>1. ~QueueStep
  <2>1. ~(next < Len(blobs))
    BY LenProperties DEF Sealed, Over, PhoneShape
  <2> QED
    BY <2>1 DEF QueueStep, Phone!ProcessBlob, Phone!BeginPart, Phone!PartAnswered,
        Phone!PartBroken, Phone!FinishTake, Sealed, Over, BeforeEnd
<1>2. QuietStep
  BY <1>1, NextSteps
<1>3. UNCHANGED Phone!pipeline /\ failed' = failed /\ (main' = "finish" => main = "finish")
  BY <1>2, QuietSteps, QuietMain
<1>4. Over' /\ blobs' = blobs
  BY OverKept DEF Sealed
<1>5. UNCHANGED <<timely, answered>>
  BY <1>2 DEF QuietStep, Phone!Data, Phone!Answer, Phone!Interrupt,
      Phone!RecorderError, Phone!Stop, Phone!Lands, Phone!Answered, Phone!Broken,
      Phone!BuildManifest, Phone!PressRecover, Phone!Poll, Phone!Supersede,
      Phone!ExpireAttempt, Phone!StartRead, Phone!ReadMore, Phone!EndRead,
      Phone!Settle, Phone!camera, Sealed, Over, BeforeEnd
<1> QED
  BY <1>3, <1>4, <1>5 DEF Sealed, Phone!Manifest, Phone!pipeline

\* A manifest is built of a sealed take.
LEMMA SealManifest ==
    ASSUME PhoneShape, StillWhole, EndsInOrder, Phone!BuildManifest, main' = "finalize"
    PROVE  Sealed'
<1>1. /\ main = "finish" /\ outbox = <<>> /\ upload = None
      /\ UNCHANGED <<Phone!camera, Phone!pipeline, failed>>
  BY DEF Phone!BuildManifest
<1>2. /\ recorder = "off" /\ next = Len(blobs) /\ packer.staged = <<>>
      /\ ~failed /\ timely /\ answered = Questions
  BY <1>1 DEF EndsInOrder
<1>3. chunks = ListTo(next) /\ Packed = ObjectIn(blobs, chunks)
  BY <1>1, <1>2 DEF StillWhole
<1>4. Packed = Phone!FlattenSeq(parts)
  <2>1. Phone!FlattenSeq(parts) \in Seq(Cell)
    BY PackedLength
  <2>2. Phone!FlattenSeq(parts) \o <<>> = Phone!FlattenSeq(parts)
    BY <2>1, ConcatEmptySeq
  <2> QED
    BY <1>1, <1>2, <2>2, PackedBetween
<1> QED
  BY <1>1, <1>2, <1>3, <1>4 DEF Sealed, Over, BeforeEnd, Phone!camera, Phone!pipeline

\* Every step keeps whoever has a manifest with that of a sealed take.
LEMMA SealedStep ==
    ASSUME PhoneShape, StillWhole, EndsInOrder, ManifestIsSealed,
           ServerFits(srv), Phone!Next
    PROVE  ManifestIsSealed'
<1>1. main' = "finalize" => Sealed'
  <2> SUFFICES ASSUME main' = "finalize" PROVE Sealed'
    OBVIOUS
  <2>1. CASE main = "finalize"
    BY <2>1, SealedKept DEF ManifestIsSealed
  <2>2. CASE main # "finalize"
    <3>1. ~Phone!Answered
      <4> SUFFICES ASSUME Phone!Answered PROVE FALSE
        OBVIOUS
      <4>1. main' = Phone!After(Phone!Verdict(Phone!Ask(main)))
            \/ main' = Phone!AfterFailure
        BY DEF Phone!Answered
      <4>2. main' # Phone!AfterFailure =>
              Phone!Verdict(Phone!Ask(main)) # "conflict" \/ main \notin {"abort", "finishAbort"}
        BY DEF Phone!Answered
      <4> QED
        BY <4>1, <4>2, MainStep, FailureStep DEF Phone!Answered
    <3>2. ~Phone!Broken
      BY FailureStep DEF Phone!Broken
    <3>3. ~QueueStep
      BY <2>2, ControlShape DEF QueueStep, Phone!ProcessBlob, Phone!BeginPart,
          Phone!PartAnswered, Phone!PartBroken, Phone!FinishTake, Phone!control
    <3>4. Phone!BuildManifest
      BY <2>2, <3>1, <3>2, <3>3, NextSteps DEF QuietStep, Phone!Data, Phone!Answer,
          Phone!Interrupt, Phone!RecorderError, Phone!Stop, Phone!Lands,
          Phone!PressRecover, Phone!Poll, Phone!Supersede, Phone!ExpireAttempt,
          Phone!StartRead, Phone!ReadMore, Phone!EndRead, Phone!Settle,
          Phone!control
    <3> QED
      BY <3>4, SealManifest
  <2> QED
    BY <2>1, <2>2
<1>2. \A m \in stray' : m.kind = "finalize" => Sealed' /\ m = Phone!Manifest'
  <2> SUFFICES ASSUME NEW m \in stray', m.kind = "finalize"
               PROVE Sealed' /\ m = Phone!Manifest'
    OBVIOUS
  <2>1. OnItsWay(m)
    <3>1. CASE m \in stray
      BY <3>1, RequestsOnTheirWay
    <3>2. CASE m \notin stray
      <4>1. (Phone!PartBroken /\ m = Phone!Part(upload))
            \/ (Phone!Broken /\ m = Phone!Ask(main))
        BY <3>2 DEF Phone!Next, Phone!Data, Phone!Answer, Phone!Interrupt,
            Phone!RecorderError, Phone!Stop, Phone!ProcessBlob, Phone!BeginPart,
            Phone!PartAnswered, Phone!PartBroken, Phone!Lands, Phone!Answered,
            Phone!Broken, Phone!FinishTake, Phone!BuildManifest,
            Phone!PressRecover, Phone!Poll, Phone!Supersede, Phone!ExpireAttempt,
            Phone!StartRead, Phone!ReadMore, Phone!EndRead, Phone!Settle
      <4> QED
        BY <4>1, RequestsOnTheirWay DEF Phone!PartBroken, Phone!Broken
    <3> QED
      BY <3>1, <3>2
  <2>2. Sealed /\ m = Phone!Manifest
    BY <2>1 DEF OnItsWay
  <2> QED
    BY <2>2, SealedKept
<1>3. srv'.accepted # None => Sealed' /\ srv'.accepted = Phone!Manifest'
  BY AcceptedStep, SealedKept DEF ManifestIsSealed
<1> QED
  BY <1>1, <1>2, <1>3 DEF ManifestIsSealed

\* Every step keeps the phone's belief about the attempt true (technical-recovery.ts,
\* attempt-status.ts).
LEMMA KnowsStep ==
    ASSUME PhoneShape, ManifestIsSealed, ServerFits(srv), PhoneKnows, Phone!Next
    PROVE  PhoneKnows'
<1>1. CASE UNCHANGED main \/ main' \notin {"polling", "uploaded", "replaced"}
  BY <1>1, AcceptedStep DEF PhoneKnows
<1>2. CASE Phone!Answered /\ main' \in {"polling", "uploaded", "replaced"}
  <2> DEFINE m == Phone!Ask(main)
  <2>1. /\ main \in Phone!Asks /\ srv' = Phone!Served(m)
        /\ main' = Phone!After(Phone!Verdict(m))
        /\ (Phone!Verdict(m) # "conflict" \/ main \notin {"abort", "finishAbort"})
        /\ (main \notin {"abort", "finishAbort"} => Phone!Grants(m))
    BY <1>2, FailureStep DEF Phone!Answered
  <2>2. m.kind = main /\ m.kind \in Phone!Uploads \cup Phone!Asks
        /\ (m.kind = "finalize" => m # None)
    BY <2>1, RequestsOnTheirWay, ManifestType DEF OnItsWay
  <2> HIDE DEF m
  <2>3. CASE main' = "polling"
    <3>1. main = "finalize" /\ Phone!Grants(m)
      BY <2>1, <2>3, MainStep
    <3> QED
      BY <2>1, <2>2, <2>3, <3>1, ServedFits DEF PhoneKnows
  <2>4. CASE main' = "uploaded"
    <3>1. srv.attempt \in Phone!Progressed
      BY <2>1, <2>4, MainStep
    <3>2. srv.accepted # None
      BY <3>1 DEF ServerFits
    <3> QED
      BY <2>4, <3>2, AcceptedStep DEF PhoneKnows
  <2>5. CASE main' = "replaced"
    <3>1. main = "retry" /\ Phone!Grants(m)
      BY <2>1, <2>5, MainStep
    <3>2. srv.attempt \in Phone!Retryable
      BY <2>2, <3>1 DEF Phone!Grants
    <3> QED
      BY <2>5, <3>2, AcceptedStep DEF PhoneKnows
  <2> QED
    BY <1>2, <2>3, <2>4, <2>5
<1>3. Phone!Next =>
        UNCHANGED main \/ main' \notin {"polling", "uploaded", "replaced"} \/ Phone!Answered
  <2>1. QueueStep => UNCHANGED main \/ main' \notin {"polling", "uploaded", "replaced"}
    BY ControlShape DEF QueueStep, Phone!ProcessBlob, Phone!BeginPart,
        Phone!PartAnswered, Phone!PartBroken, Phone!FinishTake, Phone!control
  <2>2. Phone!Broken => main' \notin {"polling", "uploaded", "replaced"}
    BY FailureStep DEF Phone!Broken
  <2> QED
    BY <2>1, <2>2, NextSteps DEF QuietStep, Phone!Data, Phone!Answer,
        Phone!Interrupt, Phone!RecorderError, Phone!Stop, Phone!Lands,
        Phone!BuildManifest, Phone!PressRecover, Phone!Poll, Phone!Supersede,
        Phone!ExpireAttempt, Phone!StartRead, Phone!ReadMore, Phone!EndRead,
        Phone!Settle, Phone!control
<1> QED
  BY <1>1, <1>2, <1>3

-----------------------------------------------------------------------------
(* The worker's reader, and the promises of the phone.                     *)

\* Once a manifest is accepted, it lists the whole take, and its records end one
\* after the other within its object (parseRecordAt).
LEMMA EndsOfRecords ==
    ASSUME PhoneShape, ManifestIsSealed, srv.accepted # None
    PROVE  /\ Phone!Listed = ListTo(Len(blobs)) /\ Len(Phone!Listed) = Len(blobs)
           /\ Phone!Whole = Phone!ObjectOf(Phone!Listed) /\ Phone!Whole \in Seq(Cell)
           /\ \A i \in 0 .. Len(Phone!Listed) :
                Phone!EndOf(i) \in Nat /\ Phone!EndOf(i) <= Len(Phone!Whole)
           /\ \A i \in 1 .. Len(Phone!Listed) : Phone!EndOf(i) > 0
<1>1. Sealed /\ srv.accepted = Phone!Manifest
  BY DEF ManifestIsSealed
<1>2. /\ Phone!Listed = ListTo(Len(blobs)) /\ Len(blobs) \in Nat
      /\ Phone!Listed = chunks /\ Phone!Whole = Phone!FlattenSeq(parts)
      /\ Phone!FlattenSeq(parts) = ObjectIn(blobs, chunks)
      /\ blobs \in Seq(Sizes) /\ Phone!Listed \in Seq(Chunk(Len(blobs)))
  BY <1>1, LenProperties DEF Sealed, Phone!Listed, Phone!Whole, Phone!Manifest,
      PhoneShape
<1>3. Len(Phone!Listed) = Len(blobs) /\ Len(Phone!Listed) \in Nat
  BY <1>2, ListToProperties
<1>4. /\ Phone!Whole = ObjectIn(blobs, Phone!Listed)
      /\ Phone!Whole = Phone!ObjectOf(Phone!Listed)
  BY <1>2, ObjectOfIn
<1>5. Phone!Whole \in Seq(Cell)
  BY <1>2, <1>4, ObjectType
<1>6. \A i \in 0 .. Len(Phone!Listed) : SubSeq(Phone!Listed, 1, i) = ListTo(i)
  <2> TAKE i \in 0 .. Len(Phone!Listed)
  <2>1. i \in Nat /\ i <= Len(blobs)
    BY <1>3
  <2>2. \A j \in 1 .. i : Phone!Listed[j] \in Chunk(Len(blobs))
    <3> TAKE j \in 1 .. i
    <3>1. j \in 1 .. Len(Phone!Listed)
      BY <1>3, <2>1
    <3> QED
      BY <1>2, <3>1, ElementOfSeq
  <2>3. /\ SubSeq(Phone!Listed, 1, i) \in Seq(Chunk(Len(blobs)))
        /\ Len(SubSeq(Phone!Listed, 1, i)) = i
        /\ \A j \in 1 .. i : SubSeq(Phone!Listed, 1, i)[j] = Phone!Listed[j]
    <3>1. 1 \in Int /\ i \in Int /\ i - 1 + 1 = i
      BY <2>1
    <3> QED
      BY <2>1, <2>2, <3>1, SubSeqProperties
  <2>4. ListTo(i) \in Seq(Chunk(Len(blobs))) /\ Len(ListTo(i)) = i
    <3>1. ListTo(i) \in Seq(Chunk(i)) /\ Len(ListTo(i)) = i
      BY <2>1, ListToProperties
    <3>2. Chunk(i) \subseteq Chunk(Len(blobs))
      BY <1>2, <2>1 DEF Chunk
    <3> QED
      BY <3>1, <3>2, SeqMonotonic
  <2>5. \A j \in 1 .. i : ListTo(i)[j] = Phone!Listed[j]
    <3> TAKE j \in 1 .. i
    <3>1. j \in 1 .. Len(blobs)
      BY <1>2, <2>1
    <3> QED
      BY <1>2, <3>1 DEF ListTo
  <2> QED
    BY <2>3, <2>4, <2>5, SeqEqual
<1>7. \A i \in 0 .. Len(Phone!Listed) : Phone!EndOf(i) = Len(ObjectIn(blobs, ListTo(i)))
  BY <1>6, ObjectOfIn DEF Phone!EndOf
<1>8. \A i \in 0 .. Len(Phone!Listed) :
        ListTo(i) \in Seq(Chunk(Len(blobs))) /\ Len(ObjectIn(blobs, ListTo(i))) \in Nat
  <2> TAKE i \in 0 .. Len(Phone!Listed)
  <2>1. i \in Nat /\ i <= Len(blobs)
    BY <1>3
  <2>2. ListTo(i) \in Seq(Chunk(i)) /\ Chunk(i) \subseteq Chunk(Len(blobs))
    <3>1. ListTo(i) \in Seq(Chunk(i))
      BY <2>1, ListToProperties
    <3>2. Chunk(i) \subseteq Chunk(Len(blobs))
      BY <1>2, <2>1 DEF Chunk
    <3> QED
      BY <3>1, <3>2
  <2>3. ListTo(i) \in Seq(Chunk(Len(blobs)))
    BY <2>2, SeqMonotonic
  <2> QED
    BY <1>2, <2>3, ObjectType, LenProperties
\* One record more ends later.
<1>9. \A i \in 0 .. Len(Phone!Listed) - 1 :
        Len(ObjectIn(blobs, ListTo(i))) < Len(ObjectIn(blobs, ListTo(i + 1)))
  <2> TAKE i \in 0 .. Len(Phone!Listed) - 1
  <2>1. i \in Nat /\ i \in 0 .. Len(Phone!Listed) /\ i + 1 \in 1 .. Len(blobs)
    BY <1>3
  <2> DEFINE c == [index |-> i, blob |-> i + 1]
             object == ObjectIn(blobs, ListTo(i))
             record == RecordIn(blobs, i + 1, i)
  <2>2. ListTo(i + 1) = Append(ListTo(i), c)
    BY <2>1, ListToProperties
  <2>3. ListTo(i) \in Seq(Chunk(Len(blobs))) /\ c \in Chunk(Len(blobs))
    BY <1>8, <2>1 DEF Chunk
  <2>4. ObjectIn(blobs, Append(ListTo(i), c)) = object \o RecordIn(blobs, c.blob, c.index)
    BY <1>2, <2>3, ObjectAppend
  <2>5. record \in Seq(Cell) /\ Len(record) > 0 /\ Len(record) \in Nat
    <3>1. /\ record \in Seq(Cell) /\ Len(record) = blobs[i + 1]
          /\ blobs[i + 1] \in Nat \ {0}
      <4> HIDE DEF record
      <4>1. blobs \in Seq(Sizes) /\ i + 1 \in 1 .. Len(blobs) /\ i \in Nat
        BY <1>2, <2>1
      <4> QED
        BY <4>1, RecordType DEF record
    <3>2. \A n \in Nat \ {0} : n > 0 /\ n \in Nat
      OBVIOUS
    <3> HIDE DEF record
    <3> QED
      BY <3>1, <3>2
  <2>6. object \in Seq(Cell) /\ Len(object) \in Nat
    BY <1>2, <1>8, <2>1, <2>3, ObjectType
  <2>7. c.blob = i + 1 /\ c.index = i
    OBVIOUS
  <2> HIDE DEF object, record, c
  <2>8. Len(object \o record) = Len(object) + Len(record)
    BY <2>5, <2>6, ConcatProperties
  <2>9. ObjectIn(blobs, ListTo(i + 1)) = object \o record
    BY <2>2, <2>4, <2>7 DEF record
  <2>10. Len(object) < Len(object) + Len(record)
    BY <2>5, <2>6
  <2> QED
    BY <2>8, <2>9, <2>10 DEF object
<1>10. \A i \in 0 .. Len(Phone!Listed) : Phone!EndOf(i) <= Len(Phone!Whole)
  <2> DEFINE S == {d \in Nat : d <= Len(Phone!Listed) =>
                         Phone!EndOf(Len(Phone!Listed) - d) <= Len(Phone!Whole)}
  <2>1. 0 \in S
    <3>1. /\ Len(Phone!Listed) \in 0 .. Len(Phone!Listed)
          /\ Len(Phone!Listed) - 0 = Len(Phone!Listed)
      BY <1>3
    <3>2. Len(Phone!Whole) = Phone!EndOf(Len(Phone!Listed)) /\ Len(Phone!Whole) \in Nat
      BY <1>2, <1>3, <1>4, <1>5, <1>7, <3>1, LenProperties
    <3> QED
      BY <3>1, <3>2
  <2>2. \A d \in S : d + 1 \in S
    <3> TAKE d \in S
    <3> SUFFICES ASSUME d + 1 <= Len(Phone!Listed)
                 PROVE Phone!EndOf(Len(Phone!Listed) - (d + 1)) <= Len(Phone!Whole)
      OBVIOUS
    <3> DEFINE i == Len(Phone!Listed) - (d + 1)
    <3>1. /\ d \in Nat /\ i \in 0 .. Len(Phone!Listed) - 1
          /\ i \in 0 .. Len(Phone!Listed)
          /\ i + 1 \in 0 .. Len(Phone!Listed) /\ i + 1 = Len(Phone!Listed) - d
          /\ d <= Len(Phone!Listed)
      BY <1>3
    <3>2. Phone!EndOf(i + 1) <= Len(Phone!Whole)
      BY <3>1
    <3>3. /\ Phone!EndOf(i) < Phone!EndOf(i + 1) /\ Phone!EndOf(i) \in Nat
          /\ Phone!EndOf(i + 1) \in Nat
      BY <1>7, <1>8, <1>9, <3>1
    <3>4. Len(Phone!Whole) \in Nat
      BY <1>5, LenProperties
    <3> QED
      BY <3>2, <3>3, <3>4
  <2>3. S = Nat
    <3>1. S \in SUBSET Nat
      OBVIOUS
    <3> HIDE DEF S
    <3> QED
      BY <2>1, <2>2, <3>1, Induction
  <2> TAKE i \in 0 .. Len(Phone!Listed)
  <2>4. /\ Len(Phone!Listed) - i \in Nat /\ Len(Phone!Listed) - i <= Len(Phone!Listed)
        /\ Len(Phone!Listed) - (Len(Phone!Listed) - i) = i
    BY <1>3
  <2>5. Len(Phone!Listed) - i \in S
    <3> HIDE DEF S
    <3> QED
      BY <2>3, <2>4
  <2> QED
    BY <2>4, <2>5
<1>11. \A i \in 1 .. Len(Phone!Listed) : Phone!EndOf(i) > 0
  <2> TAKE i \in 1 .. Len(Phone!Listed)
  <2>1. /\ i - 1 \in 0 .. Len(Phone!Listed) - 1 /\ i - 1 \in 0 .. Len(Phone!Listed)
        /\ i \in 0 .. Len(Phone!Listed) /\ (i - 1) + 1 = i
    BY <1>3
  <2>2. /\ Phone!EndOf(i - 1) < Phone!EndOf(i) /\ Phone!EndOf(i - 1) \in Nat
        /\ Phone!EndOf(i) \in Nat
    BY <1>7, <1>8, <1>9, <2>1
  <2> QED
    BY <2>2
<1> QED
  BY <1>2, <1>3, <1>4, <1>5, <1>7, <1>8, <1>10, <1>11

\* What the reader checks stays what it is once a manifest is accepted.
LEMMA ReaderKept ==
    ASSUME PhoneShape, ManifestIsSealed, ServerFits(srv), ReaderFits,
           Phone!Next, reader' = reader
    PROVE  ReaderFits'
<1>1. CASE reader.pc = "idle"
  BY <1>1 DEF ReaderFits
<1>2. CASE reader.pc # "idle"
  <2>1. srv.accepted # None
    BY <1>2 DEF ReaderFits
  <2>2. srv'.accepted = srv.accepted /\ blobs' = blobs
    BY <2>1, AcceptedStep, SealedKept DEF ManifestIsSealed
  <2>3. /\ Phone!Listed' = Phone!Listed /\ Phone!Whole' = Phone!Whole
        /\ \A i : Phone!EndOf(i)' = Phone!EndOf(i)
        /\ \A b, i : Phone!Record(b, i)' = Phone!Record(b, i)
    BY <2>2 DEF Phone!Listed, Phone!Whole, Phone!EndOf, Phone!ObjectOf, Phone!Record
  <2>4. \A got : /\ Phone!Complete(got)' = Phone!Complete(got)
                 /\ Phone!Genuine(got)' = Phone!Genuine(got)
    BY <2>3 DEF Phone!Complete, Phone!Genuine
  <2> QED
    BY <1>2, <2>2, <2>3, <2>4 DEF ReaderFits, Phone!EndsWhole
<1> QED
  BY <1>1, <1>2

\* Every step of the worker releases what it could check, and no other step
\* changes what that is (streamDecryptedRecording).
LEMMA ReaderStep ==
    ASSUME PhoneShape, ManifestIsSealed, ServerFits(srv), ReaderFits, Phone!Next
    PROVE  ReaderFits'
<1>1. CASE Phone!StartRead
  <2>1. /\ srv.accepted # None /\ reader.got = <<>> /\ reader.released = <<>>
        /\ UNCHANGED <<blobs, srv>> /\ reader' = [reader EXCEPT !.pc = "reading"]
    BY <1>1 DEF Phone!StartRead, ReaderFits, ServerFits, Phone!Progressed, Phone!camera
  <2>2. Phone!Complete(<<>>) = {} /\ Phone!Genuine(<<>>) = {}
    <3>1. Phone!Complete(<<>>) = {}
      <4>1. Len(<<>>) = 0
        BY EmptySeq
      <4>2. \A i \in 1 .. Len(Phone!Listed) : Phone!EndOf(i) \in Nat /\ Phone!EndOf(i) > 0
        <5>1. \A i \in 1 .. Len(Phone!Listed) : i \in 0 .. Len(Phone!Listed)
          OBVIOUS
        <5> QED
          BY <2>1, <5>1, EndsOfRecords
      <4> QED
        BY <4>1, <4>2 DEF Phone!Complete
    <3> QED
      BY <3>1 DEF Phone!Genuine
  <2>3. <<>> = [i \in Phone!Genuine(<<>>) |-> Phone!Listed[i].blob]
    BY <2>2
  <2>4. \A got : /\ Phone!Complete(got)' = Phone!Complete(got)
                 /\ Phone!Genuine(got)' = Phone!Genuine(got)
    BY <2>1 DEF Phone!Complete, Phone!Genuine, Phone!Listed, Phone!Whole,
        Phone!EndOf, Phone!ObjectOf, Phone!Record
  <2>5. /\ reader'.pc = "reading" /\ reader'.got = <<>> /\ reader'.released = <<>>
        /\ reader' = [pc |-> reader'.pc, got |-> reader'.got, released |-> reader'.released]
    BY <2>1 DEF ReaderFits
  <2> QED
    BY <2>1, <2>2, <2>3, <2>4, <2>5 DEF ReaderFits, Phone!Listed
<1>2. CASE Phone!ReadMore
  <2>1. PICK n \in 1 .. MaxRead, good \in BOOLEAN :
          LET from == Len(reader.got)
              read == [k \in 1 .. n |-> IF good /\ from + k <= Len(Phone!Whole)
                                        THEN Phone!Whole[from + k] ELSE None]
              got == reader.got \o read IN
          /\ reader.pc = "reading"
          /\ reader' =
               IF ~Phone!PartsAgree(got) THEN [reader EXCEPT !.pc = "failed"]
               ELSE [pc |-> IF Phone!Genuine(got) = Phone!Complete(got) THEN "reading"
                            ELSE "failed",
                     got |-> got,
                     released |-> [i \in Phone!Genuine(got) |-> Phone!Listed[i].blob]]
    BY <1>2 DEF Phone!ReadMore
  <2> DEFINE got == reader.got \o [k \in 1 .. n |->
                      IF good /\ Len(reader.got) + k <= Len(Phone!Whole)
                      THEN Phone!Whole[Len(reader.got) + k] ELSE None]
  <2>2. UNCHANGED <<blobs, srv>> /\ srv.accepted # None
    BY <1>2, <2>1 DEF Phone!ReadMore, Phone!camera, ReaderFits
  <2>3. /\ \A g : /\ Phone!Complete(g)' = Phone!Complete(g)
                  /\ Phone!Genuine(g)' = Phone!Genuine(g)
        /\ Phone!Listed' = Phone!Listed
    BY <2>2 DEF Phone!Complete, Phone!Genuine, Phone!Listed, Phone!Whole,
        Phone!EndOf, Phone!ObjectOf, Phone!Record
  <2>4. \/ reader' = [reader EXCEPT !.pc = "failed"]
        \/ reader' = [pc |-> IF Phone!Genuine(got) = Phone!Complete(got) THEN "reading"
                               ELSE "failed",
                      got |-> got,
                      released |-> [i \in Phone!Genuine(got) |-> Phone!Listed[i].blob]]
    BY <2>1
  <2> HIDE DEF got
  <2>5. CASE reader' = [reader EXCEPT !.pc = "failed"]
    BY <2>1, <2>2, <2>3, <2>5 DEF ReaderFits
  <2>6. CASE reader' = [pc |-> IF Phone!Genuine(got) = Phone!Complete(got) THEN "reading"
                               ELSE "failed",
                        got |-> got,
                        released |-> [i \in Phone!Genuine(got) |-> Phone!Listed[i].blob]]
    BY <2>2, <2>3, <2>6 DEF ReaderFits
  <2> QED
    BY <2>4, <2>5, <2>6
<1>3. CASE Phone!EndRead
  <2>1. /\ reader.pc = "reading" /\ UNCHANGED <<blobs, srv>> /\ srv.accepted # None
        /\ reader' = [reader EXCEPT !.pc = IF Phone!EndsWhole THEN "ok" ELSE "failed"]
    BY <1>3 DEF Phone!EndRead, Phone!camera, ReaderFits
  <2>2. /\ \A g : /\ Phone!Complete(g)' = Phone!Complete(g)
                  /\ Phone!Genuine(g)' = Phone!Genuine(g)
        /\ Phone!Listed' = Phone!Listed /\ Phone!Whole' = Phone!Whole
    BY <2>1 DEF Phone!Complete, Phone!Genuine, Phone!Listed, Phone!Whole,
        Phone!EndOf, Phone!ObjectOf, Phone!Record
  <2> QED
    BY <2>1, <2>2 DEF ReaderFits, Phone!EndsWhole
<1>4. CASE ~Phone!StartRead /\ ~Phone!ReadMore /\ ~Phone!EndRead
  <2>1. reader' = reader
    BY <1>4 DEF Phone!Next, Phone!Data, Phone!Answer, Phone!Interrupt,
        Phone!RecorderError, Phone!Stop, Phone!ProcessBlob, Phone!BeginPart,
        Phone!PartAnswered, Phone!PartBroken, Phone!Lands, Phone!Answered,
        Phone!Broken, Phone!FinishTake, Phone!BuildManifest, Phone!PressRecover,
        Phone!Poll, Phone!Supersede, Phone!ExpireAttempt, Phone!Settle
  <2> QED
    BY <2>1, ReaderKept
<1> QED
  BY <1>1, <1>2, <1>3, <1>4

\* The reader's part of the inductive invariant implies that what is released is
\* the take, in order and to its end.
LEMMA ReleasedLemma ==
    ASSUME PhoneShape, ManifestIsSealed, ReaderFits
    PROVE  Phone!ReleasedIsRecorded
<1>1. CASE reader.pc = "idle"
  <2>1. reader.released = <<>> /\ reader.pc # "ok"
    BY <1>1 DEF ReaderFits
  <2> QED
    BY <2>1 DEF Phone!ReleasedIsRecorded
<1>2. CASE reader.pc # "idle"
  <2>1. srv.accepted # None
        /\ reader.released = [i \in Phone!Genuine(reader.got) |-> Phone!Listed[i].blob]
    BY <1>2 DEF ReaderFits
  <2>2. /\ Phone!Listed = ListTo(Len(blobs)) /\ Len(Phone!Listed) = Len(blobs)
        /\ Phone!Whole = Phone!ObjectOf(Phone!Listed) /\ Phone!Whole \in Seq(Cell)
        /\ \A i \in 0 .. Len(Phone!Listed) :
             Phone!EndOf(i) \in Nat /\ Phone!EndOf(i) <= Len(Phone!Whole)
    BY <2>1, EndsOfRecords
  <2>3. Len(blobs) \in Nat
    BY LenProperties DEF PhoneShape
  <2>4. Phone!Genuine(reader.got) \subseteq 1 .. Len(blobs)
    BY <2>2 DEF Phone!Genuine, Phone!Complete
  <2>5. \A i \in 1 .. Len(blobs) : Phone!Listed[i].blob = i
    BY <2>2 DEF ListTo
  <2>6. \A i \in DOMAIN reader.released : reader.released[i] = i
    BY <2>1, <2>4, <2>5
  <2>7. ASSUME reader.pc = "ok" PROVE Len(reader.released) = Len(blobs)
    <3>1. /\ Phone!Genuine(reader.got) = Phone!Complete(reader.got)
          /\ Len(reader.got) = Len(Phone!Whole)
      BY <2>7 DEF ReaderFits, Phone!EndsWhole
    <3>2. Phone!Complete(reader.got) = 1 .. Len(blobs)
      <4>1. \A i \in 1 .. Len(blobs) : i \in 0 .. Len(Phone!Listed)
        BY <2>2, <2>3
      <4> QED
        BY <2>2, <3>1, <4>1 DEF Phone!Complete
    <3>3. reader.released = [i \in 1 .. Len(blobs) |-> Phone!Listed[i].blob]
      BY <2>1, <3>1, <3>2
    <3> QED
      BY <2>3, <3>3
  <2> QED
    BY <2>6, <2>7 DEF Phone!ReleasedIsRecorded
<1> QED
  BY <1>1, <1>2

\* The inductive invariant implies the promises of PhoneRecording.
LEMMA PhoneLemma ==
    ASSUME PhoneIInv
    PROVE  Phone!PhoneInv
<1> USE DEF PhoneIInv
<1>1. Phone!TypeOK
  <2>1. /\ \A i \in 1 .. Len(blobs) : blobs[i] \in Sizes
    BY ElementOfSeq DEF PhoneShape
  <2>2. packer.count \in 0 .. next /\ index \in 0 .. next
    BY DEF PhoneShape
  <2>3. Len(parts) <= Phone!MaxParts
    BY PartsAreFew
  <2> QED
    BY <2>1, <2>2, <2>3 DEF Phone!TypeOK, PhoneShape, ServerFits, ReaderFits
<1>2. Phone!NonceIsUsedOnce
  BY DEF Phone!NonceIsUsedOnce, NonceIsFresh, Held
<1>3. Phone!AcceptedIsTheTake
  <2> SUFFICES ASSUME srv.accepted # None
               PROVE  /\ Phone!FlattenSeq(srv.accepted.parts) =
                           Phone!FlattenSeq([i \in 1 .. Len(blobs) |-> Phone!Record(i, i - 1)])
                      /\ srv.accepted.intervals = Questions /\ ~failed /\ timely
    BY DEF Phone!AcceptedIsTheTake
  <2>1. Sealed /\ srv.accepted = Phone!Manifest
    BY DEF ManifestIsSealed
  <2>2. /\ srv.accepted.intervals = Questions /\ ~failed /\ timely
        /\ Phone!FlattenSeq(srv.accepted.parts) = ObjectIn(blobs, ListTo(Len(blobs)))
    BY <2>1 DEF Sealed, Phone!Manifest
  <2>3. RecordsIn(blobs, ListTo(Len(blobs)))
          = [i \in 1 .. Len(blobs) |-> Phone!Record(i, i - 1)]
    <3>1. Len(blobs) \in Nat
      BY LenProperties DEF PhoneShape
    <3>2. Len(ListTo(Len(blobs))) = Len(blobs)
      BY <3>1, ListToProperties
    <3>3. \A i \in 1 .. Len(blobs) :
            ListTo(Len(blobs))[i].blob = i /\ ListTo(Len(blobs))[i].index = i - 1
      BY DEF ListTo
    <3> QED
      BY <3>2, <3>3 DEF RecordsIn, Phone!Record, RecordIn
  <2> QED
    BY <2>2, <2>3 DEF ObjectIn
<1>4. Phone!PhoneTellsTheTruth
  BY DEF Phone!PhoneTellsTheTruth, PhoneKnows, ServerFits
<1> QED
  BY <1>1, <1>2, <1>3, <1>4 DEF Phone!PhoneInv

\* The inductive invariant holds before the take.
LEMMA PhoneInitial == Phone!Init => PhoneIInv
<1> SUFFICES ASSUME Phone!Init PROVE PhoneIInv
  OBVIOUS
<1>0. /\ <<>> \in Seq(Sizes) /\ <<>> \in Seq(Chunk(0)) /\ <<>> \in Seq(Cell)
      /\ <<>> \in Seq(Seq(Cell))
      /\ Len(<<>>) = 0
  BY EmptySeq
<1>1. PhoneShape
  <2>1. /\ Len(blobs) = 0 /\ blobs \in Seq(Sizes) /\ outbox \in Seq(Seq(Cell))
        /\ parts \in Seq(Seq(Cell)) /\ Len(chunks) = 0
    BY <1>0 DEF Phone!Init
  <2>2. Len(blobs) <= MaxBlobs /\ answered \in 0 .. Questions
    BY <2>1, PhoneAssumption DEF Phone!Init
  <2>3. next \in 0 .. Len(blobs) /\ index \in 0 .. next /\ Len(chunks) <= next
    BY <2>1 DEF Phone!Init
  <2>4. chunks \in Seq(Chunk(Len(blobs)))
    <3>1. chunks \in Seq(Chunk(0))
      BY <1>0 DEF Phone!Init
    <3> QED
      BY <2>1, <3>1
  <2>5. packer \in [count : 0 .. next, staged : Seq(Cell)]
    <3>1. packer = [count |-> 0, staged |-> <<>>] /\ 0 \in 0 .. next
      BY DEF Phone!Init
    <3>2. <<>> \in Seq(Cell)
      BY <1>0
    <3> QED
      BY <3>1, <3>2
  <2>6. /\ recorder \in {"off", "on", "stopping"}
        /\ upload \in Phone!Uploads \cup {None}
        /\ {timely, aborted, failed, pressed} \subseteq BOOLEAN
        /\ exposed \subseteq Cell /\ main \in Phone!MainStates
        /\ (upload # None => outbox # <<>>)
        /\ \A m \in stray : m.kind \in Phone!Uploads \cup Phone!Asks
    BY DEF Phone!Init, Phone!MainStates, Phone!Asks
  <2> QED
    BY <2>1, <2>2, <2>3, <2>4, <2>5, <2>6 DEF PhoneShape
<1>2. Held = {}
  BY <1>0 DEF Phone!Init, Held, CellsOf
<1>3. NonceIsFresh
  BY <1>2 DEF NonceIsFresh
<1>4. ListTo(0) = <<>> /\ RecordsIn(<<>>, <<>>) = <<>>
  BY <1>0 DEF ListTo, RecordsIn
<1>5. ObjectIn(blobs, chunks) = <<>>
  BY <1>4, FlattenEmpty DEF Phone!Init, ObjectIn
<1>6. parts \o outbox = <<>> /\ Phone!FlattenSeq(parts \o outbox) = <<>>
  <2>1. <<>> \o <<>> = <<>>
    BY <1>0, ConcatEmptySeq
  <2> QED
    BY <2>1, FlattenEmpty DEF Phone!Init
<1>7. Packed = <<>>
  <2>1. <<>> \o <<>> = <<>>
    BY <1>0, ConcatEmptySeq
  <2> QED
    BY <1>6, <2>1 DEF Packed, Phone!Init
<1>8. StillWhole
  BY <1>4, <1>5, <1>7 DEF Phone!Init, StillWhole
<1>9. EndsInOrder
  BY DEF Phone!Init, EndsInOrder
<1>10. PartsFull
  BY <1>0 DEF Phone!Init, PartsFull
<1>11. WithinLimit
  BY <1>0, <1>5, <1>6, PhoneAssumption DEF Phone!Init, WithinLimit
<1>12. ManifestIsSealed
  BY DEF Phone!Init, ManifestIsSealed
<1>13. ServerFits(srv)
  BY DEF Phone!Init, ServerFits, Phone!Statuses, Phone!Abortable, Phone!Progressed,
      Phone!Retryable
<1>14. PhoneKnows
  BY DEF Phone!Init, PhoneKnows
<1>15. ReaderFits
  BY DEF Phone!Init, ReaderFits
<1> QED
  BY <1>1, <1>3, <1>8, <1>9, <1>10, <1>11, <1>12, <1>13, <1>14, <1>15 DEF PhoneIInv

\* Every step of the phone, the server and the worker keeps the inductive
\* invariant.
LEMMA PhoneStep ==
    ASSUME PhoneIInv, Phone!Next
    PROVE  PhoneIInv'
<1> USE DEF PhoneIInv
<1>1. QuietStep \/ QueueStep
  BY NextSteps
<1>2. PhoneShape'
  BY <1>1, QuietShape, QueueShape
<1>3. NonceIsFresh'
  BY <1>1, QuietFresh, QueueFresh
<1>4. StillWhole' /\ EndsInOrder'
  BY WholeStep, EndsStep
<1>5. PartsFull' /\ WithinLimit'
  BY PartsFullStep, LimitIsKept
<1>6. ManifestIsSealed'
  BY SealedStep
<1>7. ServerFits(srv)' /\ PhoneKnows'
  BY AcceptedStep, KnowsStep
<1>8. ReaderFits'
  BY ReaderStep
<1> QED
  BY <1>2, <1>3, <1>4, <1>5, <1>6, <1>7, <1>8

-----------------------------------------------------------------------------
(* The theorems.                                                           *)

\* A step of the composition is a step of the provider call or leaves it alone.
LEMMA PartIsProvider == [Next]_vars => [Provider!Next]_(Provider!vars)
  BY DEF Next, vars, providerVars, Provider!vars

\* The promises of a provider call hold for every deadline, number of attempts,
\* backoff, reserve and lateness: requests are bounded, the call ends in time,
\* what is reported was sent, credit goes to the writer, and a recommendation
\* is earned (hetzner-semantic.ts, hetzner-multimodal.ts, semantic-generation.ts).
THEOREM ProviderInvariant == Spec => []ProviderInv
<1>1. Init => ProviderIInv
  BY ProviderInit DEF Init
<1>2. ProviderIInv /\ [Next]_vars => ProviderIInv'
  BY PartIsProvider, ProviderStep
<1>3. ProviderIInv => ProviderInv
  BY ProviderMeans DEF ProviderInv
<1> QED
  BY <1>1, <1>2, <1>3, PTL DEF Spec

\* A provider call implements DeadlineCall, for every deadline, number of
\* attempts, backoff, reserve and lateness: no request is sent or open after the
\* deadline, the second provider finds its reserve, and the one answer comes in
\* time from the provider asked last (reserveTransportFallbackDeadline,
\* attachAnsweredBy, invokeWithOneRepair).
THEOREM CallImplementsDeadlineCall == Spec => CallSpec
<1>1. Init => ProviderIInv /\ Call!Init
  BY ProviderInit, CallInit DEF Init
<1>2. ProviderIInv /\ [Next]_vars => ProviderIInv'
  BY PartIsProvider, ProviderStep
<1>3. ProviderIInv /\ [Next]_vars => [Call!Next]_(Call!vars)
  BY PartIsProvider, CallStep
<1> QED
  BY <1>1, <1>2, <1>3, PTL DEF Spec, CallSpec, Call!Spec

\* A step of the composition is a step of the GitHub adapters or leaves them
\* alone.
LEMMA PartIsGithub == [Next]_vars => [Github!Next]_(Github!vars)
  BY DEF Next, vars, githubVars, Github!vars

\* Tokens served are current, a retry carries another token, a snapshot is of
\* one edition and the App has one comment, for any concurrent calls, tokens,
\* pages and moves of the pull request (app-auth.ts, pull-request.ts,
\* pull-request-comment.ts).
THEOREM GithubInvariant == Spec => []GithubInv
<1>1. Init => GithubIInv
  BY GithubInit DEF Init
<1>2. GithubIInv /\ [Next]_vars => GithubIInv'
  BY PartIsGithub, GithubStep
<1>3. GithubIInv => GithubInv
  BY GithubMeans DEF GithubInv
<1> QED
  BY <1>1, <1>2, <1>3, PTL DEF Spec

\* A step of the composition is a step of the phone, the server or the worker,
\* or leaves them alone.
LEMMA PartIsPhone == [Next]_vars => Phone!Next \/ UNCHANGED phoneVars
  BY DEF Next, vars, phoneVars

\* What the phone leaves alone, the inductive invariant does not notice.
LEMMA PhoneStutter == PhoneIInv /\ UNCHANGED phoneVars => PhoneIInv'
<1> SUFFICES ASSUME PhoneIInv, UNCHANGED phoneVars PROVE PhoneIInv'
  OBVIOUS
<1> USE DEF phoneVars, PhoneIInv
<1>1. PhoneShape' /\ EndsInOrder' /\ ServerFits(srv)' /\ PhoneKnows'
  BY DEF PhoneShape, EndsInOrder, PhoneKnows
<1>2. NonceIsFresh'
  BY DEF NonceIsFresh, Held
<1>3. StillWhole' /\ PartsFull' /\ WithinLimit'
  BY DEF StillWhole, Packed, PartsFull, Over, WithinLimit
<1>4. ManifestIsSealed'
  BY DEF ManifestIsSealed, Sealed, Over, Phone!Manifest
<1>5. ReaderFits'
  <2>1. /\ Phone!Listed' = Phone!Listed /\ Phone!Whole' = Phone!Whole
        /\ Phone!EndsWhole' = Phone!EndsWhole
        /\ \A i : Phone!EndOf(i)' = Phone!EndOf(i)
        /\ \A b, i : Phone!Record(b, i)' = Phone!Record(b, i)
    BY DEF Phone!Listed, Phone!Whole, Phone!EndsWhole, Phone!EndOf, Phone!ObjectOf,
        Phone!Record
  <2>2. \A got : /\ Phone!Complete(got)' = Phone!Complete(got)
                 /\ Phone!Genuine(got)' = Phone!Genuine(got)
    BY <2>1 DEF Phone!Complete, Phone!Genuine
  <2> QED
    BY <2>1, <2>2 DEF ReaderFits
<1> QED
  BY <1>1, <1>2, <1>3, <1>4, <1>5

\* Every step of the composition keeps the inductive invariant of the phone.
LEMMA PhoneKept == PhoneIInv /\ [Next]_vars => PhoneIInv'
  BY PartIsPhone, PhoneStutter, PhoneStep

\* A nonce is never used for two records, an accepted recording is the whole
\* take with every question in time, and what the phone tells its user is true,
\* for any blobs, sizes, limit and lost, late or repeated requests (proof.tsx,
\* multipart.ts, technical-recovery.ts).
THEOREM PhoneInvariant == Spec => []PhoneInv
<1>1. Init => PhoneIInv
  BY PhoneInitial DEF Init
<1>2. PhoneIInv /\ [Next]_vars => PhoneIInv'
  BY PhoneKept
<1>3. PhoneIInv => PhoneInv
  BY PhoneLemma DEF PhoneInv
<1> QED
  BY <1>1, <1>2, <1>3, PTL DEF Spec

\* The worker releases the records of the take in order, without a gap, and
\* reports success only when it released all of them, however storage answers
\* (streamDecryptedRecording).
THEOREM ReleaseInvariant == Spec => []ReleasedIsRecorded
<1>1. Init => PhoneIInv
  BY PhoneInitial DEF Init
<1>2. PhoneIInv /\ [Next]_vars => PhoneIInv'
  BY PhoneKept
<1>3. PhoneIInv => ReleasedIsRecorded
  BY ReleasedLemma DEF ReleasedIsRecorded, PhoneIInv
<1> QED
  BY <1>1, <1>2, <1>3, PTL DEF Spec
=============================================================================
