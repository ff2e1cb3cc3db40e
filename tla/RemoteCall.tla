------------------------------ MODULE RemoteCall ------------------------------
(***************************************************************************)
(* One call to a remote service under a deadline: GitHub's API, the        *)
(* transcription service, the language model that writes learning and      *)
(* proof material, the model that judges an answer.  A request is retried  *)
(* after transport failures; content that fails validation is repaired     *)
(* once; a second provider takes over when the first cannot be reached;    *)
(* what no provider delivers is replaced by deterministic content or by a  *)
(* maintainer.  What the caller relies on of all this is DeadlineCall.      *)
(***************************************************************************)
EXTENDS Integers

CONSTANTS Deadline,     \* deadlineAt, in units of time
          MaxAttempts,  \* requests of one invocation
          IdleLimit,    \* attemptTimeoutMs, streamIdleTimeoutMs
          Backoff,      \* the largest jittered backoff
          RetryAfters,  \* what a Retry-After header may ask for
          Reserve, MinPrimary,  \* the reserve of the second provider
          MaxLate,      \* how late a sleeper wakes up
          None

VARIABLES
  setup,     \* what is called and how it is configured
  now, pc,
  phase,     \* semantic: the initial call or its repair
  side,      \* the provider asked
  invocation,  \* judge: the provider's own first or second invocation
  begun,     \* when the provider side was chosen
  limit,     \* the deadline of the provider asked
  attempt, last,  \* the request and how it ended
  code,      \* the error of a failed invocation
  sent,      \* all requests
  reported,  \* transportAttemptCount of the failure that is stored
  answeredBy, producer,  \* who is credited, and who wrote the content
  candidate, outcome

vars == <<setup, now, pc, phase, side, invocation, begun, limit, attempt,
          last, code, sent, reported, answeredBy, producer, candidate, outcome>>

\* A judge may know a vision model beside its text model, and ask it first
\* or only after the text model refuses the frames.
Setups ==
  [kind: {"github", "transcription"}, hop: {FALSE}, vision: {"none"}]
    \cup [kind: {"semantic"}, hop: BOOLEAN, vision: {"none"}]
    \cup [kind: {"judge"}, hop: BOOLEAN,
          vision: {"none", "first", "second"}]

Streams == setup.kind \in {"semantic", "judge"}

Lesser(a, b) == IF a < b THEN a ELSE b
Greater(a, b) == IF a > b THEN a ELSE b

Answers == {"content", "truncated", "protocol", "rejected", "refused",
            "missing", "rate", "unavailable", "network", "idle", "deadline"}
Results == {"valid", "invalid", "vision", "transport", "terminal", "review"}
Recommendations == {"pass", "retry", "review_required"}
Reasons == {"all", "not_fully", "unavailable"}

\* What a judge says, as far as its validation reads it: the bindings to
\* questions, criteria and anchors hold; some criterion is not met, some is
\* not evaluable; contradictions or uncertainty remain.
Candidates == [rec: Recommendations, reason: Reasons, bound: BOOLEAN,
               notMet: BOOLEAN, notEvaluable: BOOLEAN, unresolved: BOOLEAN]

TypeOK ==
  /\ setup \in Setups
  /\ now \in 0..(Deadline + MaxLate)
  /\ pc \in {"service", "request", "failed", "result", "done"}
  /\ phase \in {"initial", "repair"}
  /\ side \in {"primary", "fallback"} /\ invocation \in 1..2
  /\ begun \in 0..Deadline /\ limit \in 0..Deadline
  /\ attempt \in 1..MaxAttempts
  /\ last \in Answers \cup Results \cup {None}
  /\ code \in {None, "deadline", "other"}
  /\ sent \in Nat /\ reported \in 0..6
  /\ answeredBy \in {"primary", "fallback"}
  /\ producer \in {None, "primary", "fallback"}
  /\ candidate \in Candidates \cup {None}
  /\ outcome \in {None, "generated", "repaired", "fallback", "failed"}

\* A job may start late, when its deadline is near or has passed.
Init ==
  /\ setup \in Setups /\ now \in 0..Deadline
  /\ pc = "service" /\ phase = "initial" /\ side = "primary"
  /\ invocation = 1 /\ begun = now /\ limit = Deadline /\ attempt = 1
  /\ last = None /\ code = None /\ sent = 0 /\ reported = 0
  /\ answeredBy = "primary" /\ producer = None
  /\ candidate = None /\ outcome = None

----------------------------------------------------------------------------
(* Starting an invocation. *)

\* Faulty variant: the first provider may use all the time.
ReservedNothing == Deadline

\* reserveTransportFallbackDeadline: the first provider ends early enough for
\* the second to be asked at all.
Reserved ==
  LET remaining == Deadline - now IN
  IF ~setup.hop \/ remaining <= MinPrimary THEN Deadline
  ELSE Deadline - Lesser(Reserve, remaining - MinPrimary)

Invoke ==
  /\ pc = "service" /\ now < Deadline
  /\ pc' = "request" /\ side' = "primary" /\ invocation' = 1 /\ attempt' = 1
  /\ begun' = now /\ limit' = Reserved /\ last' = None /\ code' = None
  /\ UNCHANGED <<setup, now, phase, sent, reported, answeredBy, producer,
                 candidate, outcome>>

----------------------------------------------------------------------------
(* The requests of an invocation. *)

\* Faulty variant: a stream's idle timer is not cut to the
\* deadline.
DurationsUncut(answer) ==
  CASE answer = "deadline" -> {} [] answer = "idle" -> IdleLimit..Deadline
    [] OTHER -> 0..(limit - now)

\* How long a request may take before it ends so.  A stream's idle timer
\* starts again with every event that makes progress, and is cut to what is
\* left until the deadline.
StreamDurations(answer) ==
  LET left == limit - now IN
  CASE answer = "deadline" -> {left}
    [] answer = "idle" -> IdleLimit..(left - 1)
    [] OTHER -> 0..(left - 1)

\* The other services cut one timer per request.
TimedDurations(answer) ==
  LET left == limit - now IN
  CASE answer = "deadline" -> {}
    [] answer = "idle" -> {Lesser(IdleLimit, left)}
    [] OTHER -> 0..Lesser(IdleLimit, left)

Durations(answer) ==
  IF Streams THEN StreamDurations(answer) ELSE TimedDurations(answer)

\* A refused request shape (400, 415, 422) and a missing model (404) may mean
\* that the model takes no frames; otherwise 404 is as transient as a 5xx.
\* A 4xx that the service does not expect is final.
MayTryVision(answer) ==
  /\ setup.kind = "judge" /\ invocation = 1
  /\ \/ setup.vision = "second" /\ answer \in {"refused", "missing"}
     \/ setup.vision = "first" /\ answer = "refused"

\* 429 and secondary limits, 5xx, no connection, no answer in time.
Transient == {"rate", "unavailable", "network", "idle"}

Retried(answer) ==
  \/ answer \in Transient
  \/ answer = "missing" /\ Streams /\ ~MayTryVision(answer)

Classified(answer) ==
  CASE MayTryVision(answer) -> "vision"
    [] answer = "deadline" -> "transport"
    [] answer = "protocol" -> "review"
    [] answer = "truncated" -> IF setup.kind = "semantic" THEN "invalid"
                               ELSE "review"
    [] OTHER -> "terminal"

AddReported(n) == Lesser(6, reported + n)

End(result, error, count) ==
  /\ pc' = "result" /\ last' = result /\ code' = error
  /\ reported' = IF setup.kind = "semantic"
                   /\ ~(result = "transport" /\ setup.hop /\ side = "primary")
                 THEN AddReported(count) ELSE reported

\* validateMultimodalJudgeCandidateV1: a candidate whose only fault is that
\* its recommendation or reason does not follow from its findings is
\* normalized, every other fault is invalid.
Coherent(c) ==
  /\ c.rec = "pass" => ~c.notMet /\ ~c.notEvaluable /\ ~c.unresolved
  /\ c.rec = "retry" => ~c.notEvaluable /\ ~c.unresolved
  /\ c.reason = IF c.rec = "pass" THEN "all" ELSE "not_fully"

Recommended(c) ==
  IF c.notEvaluable \/ c.unresolved THEN "review_required"
  ELSE IF c.notMet THEN "retry" ELSE c.rec

Normalized(c) ==
  IF Coherent(c) THEN c
  ELSE [c EXCEPT !.rec = Recommended(c),
                 !.reason = IF Recommended(c) = "pass" THEN "all"
                            ELSE "not_fully"]

\* attachAnsweredBy: a response names the provider that gave it.
Credited == side

\* Content that answers the request: a judge's is validated by its own
\* provider, the semantic provider's by the service.
Content(result) ==
  /\ IF setup.kind # "judge" THEN candidate' = candidate
     ELSE \E c \in Candidates :
            /\ c.bound = (result = "valid")
            /\ candidate' = IF c.bound THEN Normalized(c) ELSE candidate
  /\ setup.kind = "github" => result = "valid"
  /\ End(result, None, attempt)
  /\ producer' = side
  /\ answeredBy' = Credited

\* The requests of this invocation that were sent before it failed.
SentSoFar == IF pc = "request" THEN attempt - 1 ELSE attempt

Request ==
  /\ pc = "request" /\ now < limit
  /\ sent' = sent + 1
  /\ \E answer \in Answers : \E spent \in Durations(answer) :
       /\ now' = now + spent
       /\ \/ /\ answer = "content"
             /\ \E result \in {"valid", "invalid"} : Content(result)
          \/ /\ answer # "content" /\ Retried(answer)
             /\ pc' = "failed" /\ last' = answer
             /\ UNCHANGED <<code, reported, candidate, producer, answeredBy>>
          \/ /\ answer # "content" /\ ~Retried(answer)
             /\ answer = "truncated" => Streams
             /\ answer \in {"protocol", "refused"} => setup.kind # "github"
             /\ End(Classified(answer),
                    IF answer = "deadline" THEN "deadline" ELSE "other",
                    attempt)
             /\ UNCHANGED <<candidate, producer>>
             /\ answeredBy' = IF Classified(answer) = "invalid" THEN Credited
                              ELSE answeredBy
  /\ UNCHANGED <<setup, phase, side, invocation, begun, limit, attempt,
                 outcome>>

\* The deadline passed before the request could be sent.
Expire ==
  /\ pc = "request" /\ now >= limit
  /\ End("transport", "deadline", SentSoFar)
  /\ UNCHANGED <<setup, now, phase, side, invocation, begun, limit, attempt,
                 sent, answeredBy, producer, candidate, outcome>>

Exhausted ==
  /\ pc = "failed" /\ attempt = MaxAttempts
  /\ End("transport", "other", SentSoFar)
  /\ UNCHANGED <<setup, now, phase, side, invocation, begun, limit, attempt,
                 sent, answeredBy, producer, candidate, outcome>>

\* The larger of the backoff and what the service asked for; whoever cannot
\* wait that long does not wait at all.
Asked == IF last = "rate" THEN RetryAfters ELSE {0}
Delays == {Greater(Backoff, r) : r \in Asked}

Retry ==
  /\ pc = "failed" /\ attempt < MaxAttempts
  /\ \E delay \in Delays :
       IF limit - now <= delay
       THEN /\ End("transport",
                   IF setup.kind = "github" THEN "other" ELSE "deadline",
                   SentSoFar)
            /\ UNCHANGED <<now, attempt>>
       ELSE /\ \E late \in 0..MaxLate : now' = now + delay + late
            /\ attempt' = attempt + 1 /\ pc' = "request" /\ last' = None
            /\ UNCHANGED <<code, reported>>
  /\ UNCHANGED <<setup, phase, side, invocation, begun, limit, sent,
                 answeredBy, producer, candidate, outcome>>

----------------------------------------------------------------------------
(* What follows from the result of an invocation. *)

\* maximumAdditionalAttempts, shared by repair and fallback model.
MayAskAgain == invocation = 1

\* HetznerMultimodalJudgeProvider.evaluate: a second invocation, of the other
\* model or with the validation's findings, and no third.
AskJudgeAgain ==
  /\ pc = "result" /\ setup.kind = "judge" /\ MayAskAgain
  /\ last \in {"vision", "invalid"}
  /\ pc' = "request" /\ invocation' = 2 /\ attempt' = 1 /\ last' = None
  /\ code' = None
  /\ UNCHANGED <<setup, now, phase, side, begun, limit, sent, reported,
                 answeredBy, producer, candidate, outcome>>

Hopping == last = "transport" /\ setup.hop /\ side = "primary"

\* TransportFallback...Provider: only when the first provider could not be
\* reached, with the caller's own deadline.
Hop ==
  /\ pc = "result" /\ Hopping
  /\ pc' = "request" /\ side' = "fallback" /\ limit' = Deadline
  /\ invocation' = 1 /\ attempt' = 1 /\ last' = None /\ code' = None
  /\ UNCHANGED <<setup, now, phase, begun, sent, reported, answeredBy,
                 producer, candidate, outcome>>

\* invokeWithOneRepair.
RepairSemantic ==
  /\ pc = "result" /\ setup.kind = "semantic" /\ last = "invalid"
  /\ phase = "initial" /\ now < Deadline
  /\ phase' = "repair" /\ pc' = "service"
  /\ UNCHANGED <<setup, now, side, invocation, begun, limit, attempt, last,
                 code, sent, reported, answeredBy, producer, candidate,
                 outcome>>

\* A judge's late answer is an answer no more.
Accept ==
  /\ pc = "result" /\ last = "valid"
  /\ setup.kind = "judge" => now < Deadline
  /\ pc' = "done"
  /\ outcome' = IF phase = "repair" \/ invocation = 2 THEN "repaired"
                ELSE "generated"
  /\ UNCHANGED <<setup, now, phase, side, invocation, begun, limit, attempt,
                 last, code, sent, reported, answeredBy, producer, candidate>>

\* Otherwise semantic content is the deterministic fallback, a judgement is
\* left to a maintainer unless the deadline is what ended it, and the other
\* callers get the error.
Settled ==
  \/ pc = "service" /\ now >= Deadline
  \/ /\ pc = "result" /\ ~Hopping
     /\ \/ last \in {"transport", "terminal", "review"}
        \/ last = "vision" /\ invocation = 2
        \/ last = "valid" /\ setup.kind = "judge" /\ now >= Deadline
        \/ /\ last = "invalid"
           /\ CASE setup.kind = "semantic" -> phase = "repair" \/ now >= Deadline
                [] setup.kind = "judge" -> invocation = 2
                [] OTHER -> TRUE

GiveUp ==
  /\ Settled
  /\ pc' = "done"
  /\ outcome' = IF \/ setup.kind = "semantic"
                   \/ /\ setup.kind = "judge" /\ now < Deadline
                      /\ code # "deadline"
                THEN "fallback" ELSE "failed"
  /\ answeredBy' = "primary" /\ producer' = None /\ candidate' = None
  /\ UNCHANGED <<setup, now, phase, side, invocation, begun, limit, attempt,
                 last, code, sent, reported>>

\* runMultimodalJudgeEvaluation: without a transcript of every question no
\* provider is asked.
SkipJudge ==
  /\ pc = "service" /\ setup.kind = "judge" /\ now < Deadline
  /\ pc' = "done" /\ outcome' = "fallback"
  /\ UNCHANGED <<setup, now, phase, side, invocation, begun, limit, attempt,
                 last, code, sent, reported, answeredBy, producer, candidate>>

Next == \/ Invoke \/ Request \/ Expire \/ Exhausted \/ Retry
        \/ AskJudgeAgain \/ Hop \/ RepairSemantic \/ Accept \/ GiveUp
        \/ SkipJudge

Spec == Init /\ [][Next]_vars

----------------------------------------------------------------------------
(* Properties. *)

\* A call is over when its deadline is, give or take a late timer, however
\* many requests, repairs and providers it goes through
\* (registerActivity, the delay checks of the retry loops).
EndsInTime == now <= Deadline + MaxLate

\* Whose answer the caller gets: a provider's, or nobody's.
AnswerOf ==
  IF pc # "done" THEN None
  ELSE IF outcome \in {"generated", "repaired"} THEN answeredBy ELSE "nobody"

\* Content a provider wrote is credited to that provider, over every mixture
\* of hops and repairs (attachAnsweredBy, invokeWithOneRepair).
AttributionIsHonest ==
  outcome \in {"generated", "repaired"} => answeredBy = producer

\* The failure stored for diagnosis never counts requests nobody sent.
ReportedWereSent == reported <= sent

\* Two providers, two invocations of each and no more
\* (maximumAdditionalAttempts).
RequestsAreBounded == sent <= 4 * MaxAttempts

\* However incoherent the judge's answer, what is kept of it recommends a
\* pass only when every criterion is met and nothing is unresolved, and a
\* retry only when every criterion could be judged.
RecommendationIsEarned ==
  candidate # None =>
    /\ candidate.rec = "pass" =>
         ~candidate.notMet /\ ~candidate.notEvaluable /\ ~candidate.unresolved
    /\ candidate.rec = "retry" =>
         ~candidate.notEvaluable /\ ~candidate.unresolved

\* A provider call keeps its deadline and its number of requests over all
\* retries, repairs and hops, and says truly who answered, how often it asked
\* and what the answer recommends (transport-fallback.ts, hetzner-semantic.ts,
\* hetzner-multimodal.ts, semantic-generation.ts).
ProviderInv ==
  /\ TypeOK
  /\ EndsInTime
  /\ RequestsAreBounded
  /\ AttributionIsHonest
  /\ ReportedWereSent
  /\ RecommendationIsEarned
=============================================================================
