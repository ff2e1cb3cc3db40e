-------------------------- MODULE CheckSync_proofs --------------------------
(***************************************************************************)
(* Proofs about CheckSync for any number of handlers, any kinds and number *)
(* of faults, and any bound on changes, intents and retries.               *)
(***************************************************************************)
EXTENDS CheckSync, SequenceTheorems, WellFoundedInduction, TLAPS

USE NoWorkerAssumption, BoundsAssumption

RunGates == Gates \cup {"neutral"}
JobRecords == [reason : Reasons \cup {"none"}, tries : Nat]

-----------------------------------------------------------------------------
(* Facts about the operators.                                              *)

\* A non-empty set of run ids has a newest one, which Max returns.
LEMMA MaxInSet ==
  ASSUME NEW n \in Nat, NEW S \in SUBSET (1..n), S # {}
  PROVE  Max(S) \in S
<1> DEFINE T == {n - i : i \in S}
<1>1. T \subseteq Nat /\ T # {}
  <2>1. \A i \in S : n - i \in Nat
    OBVIOUS
  <2> QED
    BY <2>1
<1>2. PICK x \in T : \A y \in T : ~ (<<y, x>> \in OpToRel(<, Nat))
  <2> HIDE DEF T
  <2> QED
    BY <1>1, NatLessThanWellFounded, WFMin
<1>3. PICK m \in S : x = n - m
  OBVIOUS
<1>4. \A i \in S : ~ (n - i < n - m)
  BY <1>1, <1>2, <1>3 DEF OpToRel
<1>5. \A i \in S : m >= i
  BY <1>4
<1> QED
  BY <1>5 DEF Max

\* selectReusableRemote returns nothing or a listed run.
LEMMA SelectReusableType ==
  ASSUME GithubType, NEW gate
  PROVE  SelectReusable(gate) \in 0..Len(runs)
<1> DEFINE opened == {i \in DOMAIN runs : ~Completed(runs[i])}
           pool == IF Completed(gate) /\ opened = {} THEN DOMAIN runs ELSE opened
<1>1. Len(runs) \in Nat /\ DOMAIN runs = 1..Len(runs)
  BY DEF GithubType
<1>2. pool \in SUBSET (1..Len(runs))
  BY <1>1
<1>3. SelectReusable(gate) = IF pool = {} THEN 0 ELSE Max(pool)
  BY DEF SelectReusable
<1> HIDE DEF pool
<1>4. pool # {} => Max(pool) \in 1..Len(runs)
  BY <1>1, <1>2, MaxInSet
<1> QED
  BY <1>1, <1>3, <1>4

\* Publishing keeps the queue well formed and within two jobs.
LEMMA ExpediteJobs ==
  ASSUME JobsType, NoBacklog, NEW reason \in Reasons \cup {"none"}, Expedite(reason)
  PROVE  JobsType' /\ NoBacklog'
<1> DEFINE job(n) == [reason |-> reason, tries |-> n]
           a == IF active = NoJob THEN 0 ELSE 1
<1>1. queue \in Seq(JobRecords) /\ Len(queue) \in Nat
  BY DEF JobsType, JobRecords
<1>2. \A n \in Nat : job(n) \in JobRecords
  BY DEF JobRecords
<1>3. active' = active /\ blocked' = FALSE
  BY DEF Expedite
<1>4. a \in {0, 1} /\ Len(queue) + a + (IF blocked THEN 1 ELSE 0) <= 2
  BY <1>1 DEF NoBacklog, JobCount
<1> HIDE DEF job
<1>5. queue' \in Seq(JobRecords) /\ Len(queue') \in Nat /\ Len(queue') + a <= 2
  <2>1. CASE blocked
    <3> DEFINE j == <<job(RetryLimit)>>
    <3>1. queue' = j \o queue
      BY <2>1 DEF Expedite, job
    <3>2. j \in Seq(JobRecords) /\ Len(j) = 1
      BY <1>2
    <3> HIDE DEF j
    <3>3. queue' \in Seq(JobRecords) /\ Len(queue') = 1 + Len(queue)
      BY <1>1, <3>1, <3>2, ConcatProperties
    <3> HIDE DEF a
    <3> QED
      BY <1>1, <1>4, <2>1, <3>3
  <2>2. CASE ~blocked /\ queue = <<>>
    <3>1. queue' = <<job(0)>>
      BY <2>2 DEF Expedite, job
    <3>2. queue' \in Seq(JobRecords) /\ Len(queue') = 1
      BY <1>2, <3>1
    <3> HIDE DEF a
    <3> QED
      BY <1>4, <3>2
  <2>3. CASE ~blocked /\ queue # <<>>
    <3> DEFINE e == job(queue[1].tries)
    <3>1. 1 \in 1..Len(queue) /\ queue[1] \in JobRecords
      BY <1>1, <2>3
    <3>2. e \in JobRecords
      BY <1>2, <3>1 DEF JobRecords
    <3>3. queue' = [queue EXCEPT ![1] = e]
      BY <2>3 DEF Expedite, job
    <3> HIDE DEF e
    <3>4. queue' \in Seq(JobRecords) /\ Len(queue') = Len(queue)
      BY <1>1, <3>1, <3>2, <3>3, ExceptSeq
    <3> HIDE DEF a
    <3> QED
      BY <1>1, <1>4, <2>3, <3>4
  <2> QED
    BY <2>1, <2>2, <2>3 DEF JobsType
<1>6. JobsType'
  BY <1>3, <1>5 DEF JobsType, JobRecords
<1>7. NoBacklog'
  BY <1>3, <1>5 DEF NoBacklog, JobCount, NoJob
<1> QED
  BY <1>6, <1>7

\* A job the queue takes back is retried or has failed; none is added.
LEMMA ExpireJobs ==
  ASSUME JobsType, NoBacklog, NEW w \in Workers, active.worker = w, ExpireJob
  PROVE  JobsType' /\ NoBacklog'
<1> DEFINE job == [reason |-> active.reason, tries |-> active.tries + 1]
           b == IF blocked THEN 1 ELSE 0
           b1 == IF blocked' THEN 1 ELSE 0
<1>1. queue \in Seq(JobRecords) /\ Len(queue) \in Nat /\ blocked \in BOOLEAN
  BY DEF JobsType, JobRecords
<1>2. job \in JobRecords
  BY DEF JobRecords, JobsType
<1>3. active' = NoJob /\ active # NoJob
  BY DEF ExpireJob, NoJob
<1>4. b \in {0, 1} /\ Len(queue) + 1 + b <= 2
  BY <1>1, <1>3 DEF NoBacklog, JobCount
<1> HIDE DEF job
<1>5. /\ queue' \in Seq(JobRecords) /\ Len(queue') \in Nat
      /\ blocked' \in BOOLEAN /\ Len(queue') + b1 <= 2
  <2>1. CASE active.tries < RetryLimit
    <3> DEFINE j == <<job>>
    <3>1. queue' = j \o queue /\ blocked' = blocked
      BY <2>1 DEF ExpireJob, job
    <3>2. j \in Seq(JobRecords) /\ Len(j) = 1
      BY <1>2
    <3> HIDE DEF j
    <3>3. queue' \in Seq(JobRecords) /\ Len(queue') = 1 + Len(queue)
      BY <1>1, <3>1, <3>2, ConcatProperties
    <3> QED
      BY <1>1, <1>4, <3>1, <3>3
  <2>2. CASE ~(active.tries < RetryLimit)
    BY <1>1, <1>4, <2>2 DEF ExpireJob
  <2> QED
    BY <2>1, <2>2
<1>6. JobsType'
  BY <1>3, <1>5 DEF JobsType, JobRecords, NoJob
<1>7. NoBacklog'
  BY <1>3, <1>5 DEF NoBacklog, JobCount
<1> QED
  BY <1>6, <1>7

\* A handler that returns leaves the other handlers alone and at most frees
\* its job.
LEMMA ReturnParts ==
  ASSUME JobsType, NoBacklog, HandlerType, NEW w \in Workers, Return(w),
         Len(runs) \in Nat, Len(runs)' \in Nat, Len(runs) <= Len(runs)'
  PROVE  /\ JobsType' /\ NoBacklog' /\ HandlerType'
         /\ wk'[w] = Idle
         /\ \A v \in Workers : v # w => wk'[v] = wk[v]
<1>1. queue' = queue /\ blocked' = blocked /\ active' \in {active, NoJob}
  BY DEF Return
<1>2. JobsType'
  BY <1>1 DEF JobsType, NoJob
<1>3. NoBacklog'
  <2>1. Len(queue) \in Nat /\ blocked \in BOOLEAN
    BY DEF JobsType
  <2>2. CASE active' = active
    BY <1>1, <2>2 DEF NoBacklog, JobCount
  <2>3. CASE active' = NoJob
    <3> DEFINE a == IF active = NoJob THEN 0 ELSE 1
               b == IF blocked THEN 1 ELSE 0
    <3>1. a \in {0, 1} /\ b \in {0, 1}
      BY <2>1
    <3>2. JobCount' = Len(queue) + 0 + b
      BY <1>1, <2>3 DEF JobCount
    <3>3. Len(queue) + a + b <= 2
      BY DEF NoBacklog, JobCount
    <3> HIDE DEF a, b
    <3> QED
      BY <2>1, <3>1, <3>2, <3>3 DEF NoBacklog
  <2> QED
    BY <1>1, <2>2, <2>3
<1>4. wk' = [wk EXCEPT ![w] = Idle]
  BY DEF Return
<1>5. wk'[w] = Idle /\ \A v \in Workers : v # w => wk'[v] = wk[v]
  BY <1>4 DEF HandlerType
<1>6. HandlerType'
  <2>1. \A v \in Workers : Claimed(v)' => v # w /\ Claimed(v)
    BY <1>5 DEF Claimed, At, Idle
  <2>2. \A v \in Workers : Claimed(v)' => wk'[v].gate \in Gates
    BY <1>5, <2>1 DEF HandlerType
  <2> QED
    BY <1>4, <2>2 DEF HandlerType, Idle, Pcs
<1> QED
  BY <1>2, <1>3, <1>5, <1>6

\* A step that neither writes an intent nor claims keeps the lease invariant.
LEMMA LeaseKept ==
  ASSUME LeaseHoldsIntent, intent' = intent, lastClaim' = lastClaim,
         sync' = "syncing" => sync = "syncing",
         \A v \in Workers :
            Claimed(v)' => /\ Claimed(v)
                           /\ wk'[v].gate = wk[v].gate
                           /\ wk'[v].reason = wk[v].reason
  PROVE  LeaseHoldsIntent'
  BY DEF LeaseHoldsIntent

\* The fenced UPDATE of failGithubCheckSync, whatever else the step does to
\* GitHub, the product state and the counters.
LEMMA FailSyncInv ==
  ASSUME SyncInv, NEW w \in Workers, NEW retryable \in BOOLEAN,
         FailSync(w, retryable),
         GithubType', ProductType', Len(runs) <= Len(runs)',
         faults' \in Nat, moves' \in Nat, sent' \in Nat
  PROVE  SyncInv'
<1>1. TypeOK /\ LeaseHoldsIntent /\ NoBacklog
  BY DEF SyncInv
<1>2. JobsType /\ HandlerType /\ RowType /\ GithubType
  BY <1>1 DEF TypeOK
<1>3. Len(runs) \in Nat /\ Len(runs)' \in Nat /\ Return(w)
  BY <1>2 DEF GithubType, FailSync
<1>4. JobsType' /\ NoBacklog' /\ HandlerType' /\ wk'[w] = Idle
      /\ \A v \in Workers : v # w => wk'[v] = wk[v]
  BY <1>1, <1>2, <1>3, ReturnParts
<1>5. RowType' /\ intent' = intent /\ lastClaim' = lastClaim
      /\ (sync' = "syncing" => sync = "syncing")
  <2>1. runId' \in 0..Len(runs)'
    BY <1>2, <1>3 DEF RowType, FailSync
  <2>2. intent' = intent /\ lastClaim' = lastClaim
    BY DEF FailSync
  <2>3. CASE Lease(w)
    BY <1>2, <2>1, <2>2, <2>3 DEF RowType, FailSync, Lease
  <2>4. CASE ~Lease(w)
    BY <1>2, <2>1, <2>2, <2>4 DEF RowType, FailSync, Lease
  <2> QED
    BY <2>3, <2>4
<1>6. LeaseHoldsIntent'
  BY <1>1, <1>4, <1>5, LeaseKept DEF Claimed, At, Idle
<1> QED
  BY <1>4, <1>5, <1>6 DEF SyncInv, TypeOK

\* The fenced UPDATE of the completions.
LEMMA SynchronizedInv ==
  ASSUME SyncInv, NEW w \in Workers, NEW id \in 0..Len(runs), Synchronized(w, id),
         UNCHANGED <<github, product, counters>>
  PROVE  SyncInv'
<1>1. TypeOK /\ LeaseHoldsIntent /\ NoBacklog
  BY DEF SyncInv
<1>2. JobsType /\ HandlerType /\ RowType /\ GithubType
  BY <1>1 DEF TypeOK
<1>3. Len(runs) \in Nat /\ Len(runs)' = Len(runs) /\ Return(w)
  BY <1>2 DEF GithubType, Synchronized, github
<1>4. JobsType' /\ NoBacklog' /\ HandlerType' /\ wk'[w] = Idle
      /\ \A v \in Workers : v # w => wk'[v] = wk[v]
  BY <1>1, <1>2, <1>3, ReturnParts
<1>5. RowType' /\ intent' = intent /\ lastClaim' = lastClaim
      /\ (sync' = "syncing" => sync = "syncing")
  <2>1. runId' \in 0..Len(runs)'
    BY <1>2, <1>3 DEF RowType, Synchronized
  <2>2. intent' = intent /\ lastClaim' = lastClaim
    BY DEF Synchronized
  <2>3. CASE Lease(w)
    BY <1>2, <2>1, <2>2, <2>3 DEF RowType, Synchronized, Lease
  <2>4. CASE ~Lease(w)
    BY <1>2, <2>1, <2>2, <2>4 DEF RowType, Synchronized, Lease
  <2> QED
    BY <2>3, <2>4
<1>6. LeaseHoldsIntent'
  BY <1>1, <1>4, <1>5, LeaseKept DEF Claimed, At, Idle
<1>7. GithubType' /\ ProductType'
  BY <1>1 DEF TypeOK, GithubType, ProductType, github, product
<1> QED
  BY <1>1, <1>4, <1>5, <1>6, <1>7 DEF SyncInv, TypeOK, counters

\* A handler moves on to its next await: row and queue are left alone.
LEMMA MoveOnInv ==
  ASSUME SyncInv, NEW w \in Workers, Claimed(w),
         NEW pc \in Pcs, NEW run \in 0..Len(runs)',
         wk' = [wk EXCEPT ![w].pc = pc, ![w].run = run],
         UNCHANGED <<row, jobs>>,
         GithubType', ProductType', Len(runs) <= Len(runs)',
         faults' \in Nat, moves' \in Nat, sent' \in Nat
  PROVE  SyncInv'
<1>1. TypeOK /\ LeaseHoldsIntent /\ NoBacklog
  BY DEF SyncInv
<1>2. JobsType /\ HandlerType /\ RowType /\ GithubType
  BY <1>1 DEF TypeOK
<1>3. Len(runs) \in Nat /\ Len(runs)' \in Nat
  BY <1>2 DEF GithubType
<1>4. \A v \in Workers : /\ wk'[v].gate = wk[v].gate
                         /\ wk'[v].reason = wk[v].reason
                         /\ v # w => wk'[v] = wk[v]
  BY <1>2 DEF HandlerType
<1>5. HandlerType'
  <2>1. 0..Len(runs) \subseteq 0..Len(runs)'
    BY <1>3
  <2>2. wk \in [Workers -> [pc : Pcs, reason : Reasons \cup {"none"},
                            gate : Gates \cup {"none"}, id : 0..Len(runs)',
                            run : 0..Len(runs)']]
    BY <1>2, <2>1 DEF HandlerType
  <2>3. \A v \in Workers : Claimed(v)' => wk'[v].gate \in Gates
    BY <1>2, <1>4 DEF HandlerType, Claimed, At
  <2>4. wk' \in [Workers -> [pc : Pcs, reason : Reasons \cup {"none"},
                             gate : Gates \cup {"none"}, id : 0..Len(runs)',
                             run : 0..Len(runs)']]
    BY <2>2
  <2> QED
    BY <2>3, <2>4 DEF HandlerType
<1>6. RowType' /\ JobsType' /\ NoBacklog'
  <2>1. RowType'
    BY <1>2, <1>3 DEF RowType, row
  <2>2. JobsType' /\ NoBacklog'
    BY <1>1, <1>2 DEF JobsType, NoBacklog, JobCount, jobs
  <2> QED
    BY <2>1, <2>2
<1>7. LeaseHoldsIntent'
  <2>1. \A v \in Workers : Claimed(v)' => Claimed(v)
    BY <1>4 DEF Claimed, At
  <2> QED
    BY <1>1, <1>4, <2>1, LeaseKept DEF row
<1> QED
  BY <1>5, <1>6, <1>7 DEF SyncInv, TypeOK

\* A step that no handler takes and that neither claims nor writes an intent.
LEMMA QuietInv ==
  ASSUME SyncInv, UNCHANGED <<wk, runs, intent, lastClaim, runId>>,
         sync' \in {"pending", "retry_required", sync},
         sync = "none" => sync' = "none",
         aged' \in BOOLEAN, waiting' \in BOOLEAN, JobsType', NoBacklog',
         GithubType', ProductType',
         faults' \in Nat, moves' \in Nat, sent' \in Nat
  PROVE  SyncInv'
<1>1. TypeOK /\ LeaseHoldsIntent
  BY DEF SyncInv
<1>2. RowType /\ HandlerType
  BY <1>1 DEF TypeOK
<1>3. RowType'
  BY <1>2 DEF RowType
<1>4. HandlerType'
  BY <1>2 DEF HandlerType, Claimed, At
<1>5. LeaseHoldsIntent'
  <2>1. \A v \in Workers : Claimed(v)' => Claimed(v)
    BY DEF Claimed, At
  <2> QED
    BY <1>1, <2>1, LeaseKept
<1> QED
  BY <1>3, <1>4, <1>5 DEF SyncInv, TypeOK

\* A new intent breaks any lease on the row.
LEMMA WriteIntentInv ==
  ASSUME SyncInv, NEW gate \in Gates, NEW reason \in Reasons,
         WriteIntent(gate, reason), UNCHANGED <<github, wk>>, ProductType',
         faults' \in Nat, moves' \in Nat, sent' \in Nat
  PROVE  SyncInv'
<1>1. TypeOK /\ NoBacklog
  BY DEF SyncInv
<1>2. GithubType /\ RowType /\ HandlerType /\ JobsType
  BY <1>1 DEF TypeOK
<1>3. GithubType' /\ HandlerType'
  BY <1>2 DEF GithubType, HandlerType, Claimed, At, github
<1>4. RowType'
  BY <1>2 DEF RowType, WriteIntent, github
<1>5. LeaseHoldsIntent'
  BY DEF LeaseHoldsIntent, WriteIntent
<1>6. JobsType' /\ NoBacklog'
  BY <1>1, <1>2, ExpediteJobs DEF WriteIntent
<1> QED
  BY <1>3, <1>4, <1>5, <1>6 DEF SyncInv, TypeOK

\* Publishing the unchanged intent again.
LEMMA ReplayIntentInv ==
  ASSUME SyncInv, ReplayIntent, UNCHANGED <<github, wk>>, ProductType',
         faults' \in Nat, moves' \in Nat, sent' \in Nat
  PROVE  SyncInv'
<1>1. TypeOK /\ NoBacklog
  BY DEF SyncInv
<1>2. GithubType /\ RowType /\ JobsType
  BY <1>1 DEF TypeOK
<1>3. intent.reason \in Reasons \cup {"none"}
  BY <1>2 DEF RowType
<1>4. JobsType' /\ NoBacklog'
  BY <1>1, <1>2, <1>3, ExpediteJobs DEF ReplayIntent
<1>5. GithubType' /\ runs' = runs
  BY <1>2 DEF GithubType, github
<1>6. /\ UNCHANGED <<intent, lastClaim, runId>>
      /\ sync' \in {"pending", "retry_required", sync}
      /\ sync = "none" => sync' = "none"
      /\ aged' \in BOOLEAN /\ waiting' \in BOOLEAN
  BY <1>2 DEF ReplayIntent, RowType
<1> QED
  BY <1>4, <1>5, <1>6, QuietInv

\* A step that leaves the row, the queue and the handlers alone.
LEMMA OutsideInv ==
  ASSUME SyncInv, UNCHANGED <<runs, row, jobs, wk>>, GithubType', ProductType',
         faults' \in Nat, moves' \in Nat, sent' \in Nat
  PROVE  SyncInv'
<1>1. RowType /\ JobsType /\ NoBacklog
  BY DEF SyncInv, TypeOK
<1>2. JobsType' /\ NoBacklog'
  BY <1>1 DEF JobsType, NoBacklog, JobCount, jobs
<1>3. /\ UNCHANGED <<intent, lastClaim, runId>>
      /\ sync' \in {"pending", "retry_required", sync}
      /\ sync = "none" => sync' = "none"
      /\ aged' \in BOOLEAN /\ waiting' \in BOOLEAN
  BY <1>1 DEF row, RowType
<1> QED
  BY <1>2, <1>3, QuietInv

\* Ingestion applies a snapshot of the pull request.
LEMMA ApplySnapshotInv ==
  ASSUME SyncInv, ApplySnapshot, UNCHANGED <<github, wk>>,
         refresh' \in BOOLEAN, bound' \in BOOLEAN, passed' \in BOOLEAN,
         faults' \in Nat, moves' \in Nat, sent' \in Nat
  PROVE  SyncInv'
<1>1. GithubType /\ ProductType
  BY DEF SyncInv, TypeOK
<1>2. GithubType' /\ ProductType' /\ runs' = runs
  BY <1>1 DEF GithubType, ProductType, ApplySnapshot, github
<1>3. WebhookGate \in Gates
  BY DEF WebhookGate, Gates
<1>4. CASE WriteIntent("cancelled", "revision_invalidated")
  BY <1>2, <1>4, WriteIntentInv DEF Gates, Reasons
<1>5. CASE WriteIntent(WebhookGate, "webhook_ingested")
  BY <1>2, <1>3, <1>5, WriteIntentInv DEF Reasons
<1>6. CASE ReplayIntent
  BY <1>2, <1>6, ReplayIntentInv
<1>7. CASE UNCHANGED <<row, jobs>>
  BY <1>2, <1>7, OutsideInv
<1> QED
  BY <1>4, <1>5, <1>6, <1>7 DEF ApplySnapshot

\* What a handler writes is a gate, and GitHub keeps the runs it has.
LEMMA WrittenType ==
  ASSUME GithubType, HandlerType, NEW w \in Workers, Claimed(w)
  PROVE  /\ Written(w) \in Seq(RunGates)
         /\ Len(runs) \in Nat /\ Len(Written(w)) \in Nat
         /\ Len(runs) <= Len(Written(w))
         /\ WrittenRun(w) \in 0..Len(Written(w))
<1> DEFINE g == wk[w].gate
           r == wk[w].run
<1>1. runs \in Seq(RunGates) /\ Len(runs) \in Nat
  BY DEF GithubType, RunGates
<1>2. g \in RunGates /\ r \in 0..Len(runs)
  BY DEF HandlerType, RunGates
<1>3. Written(w) = (IF r = 0 THEN Append(runs, g) ELSE Updated(r, g))
      /\ WrittenRun(w) = (IF r = 0 THEN Len(runs) + 1 ELSE r)
  BY DEF Written, WrittenRun
<1> HIDE DEF g, r
<1>4. CASE r = 0
  BY <1>1, <1>2, <1>3, <1>4, AppendProperties
<1>5. CASE r # 0
  <2>1. r \in 1..Len(runs)
    BY <1>1, <1>2, <1>5
  <2>2. Updated(r, g) \in {runs, [runs EXCEPT ![r] = g]}
    BY DEF Updated
  <2>3. Updated(r, g) \in Seq(RunGates) /\ Len(Updated(r, g)) = Len(runs)
    BY <1>1, <1>2, <2>1, <2>2, ExceptSeq
  <2> QED
    BY <1>1, <1>2, <1>3, <1>5, <2>3
<1> QED
  BY <1>4, <1>5

\* The product state and the counters of a step that leaves them alone.
LEMMA Unconcerned ==
  ASSUME SyncInv
  PROVE  /\ UNCHANGED github => GithubType' /\ runs' = runs
         /\ UNCHANGED product => ProductType'
         /\ UNCHANGED <<bound, current, passed>> /\ refresh' \in {refresh, TRUE} => ProductType'
         /\ UNCHANGED counters => faults' \in Nat /\ moves' \in Nat /\ sent' \in Nat
         /\ Len(runs) \in Nat
<1>1. GithubType /\ ProductType /\ faults \in Nat /\ moves \in Nat /\ sent \in Nat
  BY DEF SyncInv, TypeOK
<1>2. Len(runs) \in Nat /\ (UNCHANGED github => GithubType' /\ runs' = runs)
  BY <1>1 DEF GithubType, github
<1>3. /\ UNCHANGED product => ProductType'
      /\ UNCHANGED <<bound, current, passed>> /\ refresh' \in {refresh, TRUE} => ProductType'
  BY <1>1 DEF ProductType, product
<1> QED
  BY <1>1, <1>2, <1>3 DEF counters

\* Goto is a move that keeps the handler's run.
LEMMA GotoKeepsRun ==
  ASSUME HandlerType, NEW w \in Workers, NEW pc \in Pcs, Goto(w, pc)
  PROVE  wk' = [wk EXCEPT ![w].pc = pc, ![w].run = wk[w].run]
  BY DEF HandlerType, Goto

\* A handler goes to its next await without touching GitHub.
LEMMA GotoInv ==
  ASSUME SyncInv, NEW w \in Workers, Claimed(w), NEW pc \in Pcs, Goto(w, pc),
         UNCHANGED <<row, jobs, github, counters>>, ProductType'
  PROVE  SyncInv'
<1>1. HandlerType /\ wk[w].run \in 0..Len(runs)
  BY DEF SyncInv, TypeOK, HandlerType
<1>2. GithubType' /\ runs' = runs /\ Len(runs) \in Nat
      /\ faults' \in Nat /\ moves' \in Nat /\ sent' \in Nat
  BY Unconcerned
<1>3. wk' = [wk EXCEPT ![w].pc = pc, ![w].run = wk[w].run]
  BY <1>1, GotoKeepsRun
<1>4. wk[w].run \in 0..Len(runs)' /\ Len(runs) <= Len(runs)'
  BY <1>1, <1>2
<1> QED
  BY <1>2, <1>3, <1>4, MoveOnInv

\* The queue hands a job to a handler.
LEMMA TakeJobInv ==
  ASSUME SyncInv, NEW w \in Workers, TakeJob(w)
  PROVE  SyncInv'
<1>1. TypeOK /\ LeaseHoldsIntent /\ NoBacklog
  BY DEF SyncInv
<1>2. GithubType /\ RowType /\ HandlerType /\ JobsType
  BY <1>1 DEF TypeOK
<1>3. GithubType' /\ runs' = runs /\ ProductType' /\ Len(runs) \in Nat
      /\ faults' \in Nat /\ moves' \in Nat /\ sent' \in Nat
  BY Unconcerned DEF TakeJob
<1> DEFINE j == Head(queue)
<1>4. queue \in Seq(JobRecords) /\ queue # <<>> /\ Len(queue) \in Nat
  BY <1>2 DEF JobsType, JobRecords, TakeJob
<1>5. j \in JobRecords /\ Tail(queue) \in Seq(JobRecords)
      /\ Len(Tail(queue)) = Len(queue) - 1
  BY <1>4, HeadTailProperties
<1>6. JobsType'
  BY <1>2, <1>5 DEF JobsType, JobRecords, TakeJob
<1>7. NoBacklog'
  <2>1. active = NoJob /\ blocked = FALSE /\ blocked' = blocked /\ queue' = Tail(queue)
    BY <1>2 DEF TakeJob, JobsType
  <2>2. Len(queue) <= 2
    BY <1>1, <1>4, <2>1 DEF NoBacklog, JobCount
  <2> DEFINE a1 == IF active' = NoJob THEN 0 ELSE 1
  <2>3. a1 \in {0, 1}
    OBVIOUS
  <2>4. JobCount' = Len(queue') + a1 + 0
    BY <2>1 DEF JobCount
  <2> HIDE DEF a1
  <2> QED
    BY <1>4, <1>5, <2>1, <2>2, <2>3, <2>4 DEF NoBacklog
<1> DEFINE t == [pc |-> "claim", reason |-> j.reason, gate |-> "none", id |-> 0, run |-> 0]
<1>8. wk' = [wk EXCEPT ![w] = t]
  BY DEF TakeJob
<1>9. /\ t.pc = "claim"
       /\ t \in [pc : Pcs, reason : Reasons \cup {"none"}, gate : Gates \cup {"none"},
                 id : 0..Len(runs), run : 0..Len(runs)]
  BY <1>3, <1>5 DEF Pcs, JobRecords
<1> HIDE DEF j, t
<1>10. \A v \in Workers : Claimed(v)' => v # w /\ wk'[v] = wk[v] /\ Claimed(v)
  BY <1>2, <1>8, <1>9 DEF HandlerType, Claimed, At
<1>11. HandlerType'
  <2>1. \A v \in Workers : Claimed(v)' => wk'[v].gate \in Gates
    BY <1>2, <1>10 DEF HandlerType
  <2>2. wk' \in [Workers -> [pc : Pcs, reason : Reasons \cup {"none"},
                             gate : Gates \cup {"none"},
                             id : 0..Len(runs), run : 0..Len(runs)]]
    BY <1>2, <1>8, <1>9 DEF HandlerType
  <2> QED
    BY <1>3, <2>1, <2>2 DEF HandlerType
<1>12. RowType'
  BY <1>2, <1>3 DEF RowType, TakeJob, row
<1>13. LeaseHoldsIntent'
  BY <1>1, <1>10, LeaseKept DEF TakeJob, row
<1> QED
  BY <1>3, <1>6, <1>7, <1>11, <1>12, <1>13 DEF SyncInv, TypeOK

\* A claim binds the row's intent to the handler that makes it.
LEMMA ClaimInv ==
  ASSUME SyncInv, NEW w \in Workers, Claim(w)
  PROVE  SyncInv'
<1>1. TypeOK /\ LeaseHoldsIntent /\ NoBacklog
  BY DEF SyncInv
<1>2. GithubType /\ RowType /\ HandlerType /\ JobsType
  BY <1>1 DEF TypeOK
<1>3. GithubType' /\ runs' = runs /\ ProductType' /\ Len(runs) \in Nat
      /\ faults' \in Nat /\ moves' \in Nat /\ sent' \in Nat
  BY Unconcerned DEF Claim
<1>4. CASE Claimable(wk[w].reason)
  <2>1. /\ sync' = "syncing" /\ lastClaim' = w /\ aged' = FALSE /\ waiting' = FALSE
        /\ intent' = intent /\ runId' = runId /\ UNCHANGED jobs
        /\ wk' = [wk EXCEPT ![w] = [pc |-> "load", reason |-> wk[w].reason,
                                    gate |-> intent.gate, id |-> runId, run |-> 0]]
    BY <1>4 DEF Claim
  <2>2. intent.gate \in Gates /\ intent.reason = wk[w].reason
    BY <1>2, <1>4 DEF Claimable, RowType
  <2>3. wk'[w].gate = intent.gate /\ wk'[w].reason = intent.reason
    BY <1>2, <2>1, <2>2 DEF HandlerType
  <2>4. \A v \in Workers : v # w => wk'[v] = wk[v]
    BY <1>2, <2>1 DEF HandlerType
  <2>5. HandlerType'
    <3>1. \A v \in Workers : Claimed(v)' => wk'[v].gate \in Gates
      BY <1>2, <2>2, <2>3, <2>4 DEF HandlerType, Claimed, At
    <3>2. wk' \in [Workers -> [pc : Pcs, reason : Reasons \cup {"none"},
                               gate : Gates \cup {"none"},
                               id : 0..Len(runs), run : 0..Len(runs)]]
      <4>1. runId \in 0..Len(runs) /\ 0 \in 0..Len(runs) /\ "load" \in Pcs
        BY <1>2, <1>3 DEF RowType, Pcs
      <4> QED
        BY <1>2, <2>1, <2>2, <4>1 DEF HandlerType
    <3> QED
      BY <1>3, <3>1, <3>2 DEF HandlerType
  <2>6. RowType'
    BY <1>2, <1>3, <2>1, <2>2 DEF RowType
  <2>7. intent = [gate |-> intent.gate, reason |-> intent.reason]
    BY <1>2 DEF RowType
  <2>8. LeaseHoldsIntent'
    BY <2>1, <2>3, <2>7 DEF LeaseHoldsIntent
  <2>9. JobsType' /\ NoBacklog'
    BY <1>1, <1>2, <2>1 DEF JobsType, NoBacklog, JobCount, jobs
  <2> QED
    BY <1>3, <2>5, <2>6, <2>8, <2>9 DEF SyncInv, TypeOK
<1>5. CASE ~Claimable(wk[w].reason)
  <2>1. Return(w) /\ UNCHANGED row
    BY <1>5 DEF Claim
  <2>2. JobsType' /\ NoBacklog' /\ HandlerType' /\ wk'[w] = Idle
        /\ \A v \in Workers : v # w => wk'[v] = wk[v]
    BY <1>1, <1>2, <1>3, <2>1, ReturnParts
  <2>3. RowType'
    BY <1>2, <1>3, <2>1 DEF RowType, row
  <2>4. LeaseHoldsIntent'
    BY <1>1, <2>1, <2>2, LeaseKept DEF Claimed, At, Idle, row
  <2> QED
    BY <1>3, <2>2, <2>3, <2>4 DEF SyncInv, TypeOK
<1> QED
  BY <1>4, <1>5

\* A failure whose only other effect is the refresh it may schedule.
LEMMA FailInv ==
  ASSUME SyncInv, NEW w \in Workers, NEW retryable \in BOOLEAN, FailSync(w, retryable),
         UNCHANGED <<github, bound, current, passed, counters>>,
         refresh' \in {refresh, TRUE}
  PROVE  SyncInv'
<1>1. GithubType' /\ runs' = runs /\ ProductType' /\ Len(runs) \in Nat
      /\ faults' \in Nat /\ moves' \in Nat /\ sent' \in Nat
  BY Unconcerned
<1>2. Len(runs) <= Len(runs)'
  BY <1>1
<1> QED
  BY <1>1, <1>2, FailSyncInv

\* Every step of a handler past its claim keeps the invariant.
LEMMA AwaitInv ==
  ASSUME SyncInv, NEW w \in Workers, Handler(w), ~Claim(w)
  PROVE  SyncInv'
<1> USE DEF At
<1>1. GithubType /\ RowType /\ HandlerType /\ ProductType
  BY DEF SyncInv, TypeOK
<1>2. Len(runs) \in Nat /\ wk[w].id \in 0..Len(runs) /\ wk[w].run \in 0..Len(runs)
  BY <1>1 DEF GithubType, HandlerType
<1>3. CASE Load(w)
  <2>1. Claimed(w) /\ UNCHANGED <<github, product, counters>> /\ ProductType'
    BY <1>1, <1>3 DEF Load, Claimed, ProductType, product
  <2>2. CASE FailSync(w, TRUE)
    BY <2>1, <2>2, FailInv DEF product
  <2>3. CASE ~FailSync(w, TRUE)
    <3>1. \E pc \in Pcs : Goto(w, pc) /\ UNCHANGED <<row, jobs>>
      BY <1>3, <2>3 DEF Load, Pcs
    <3> QED
      BY <2>1, <3>1, GotoInv
  <2> QED
    BY <2>2, <2>3
<1>4. CASE GiveUpInactive(w)
  <2>1. UNCHANGED <<github, product, counters>>
    BY <1>4 DEF GiveUpInactive
  <2>2. CASE FailSync(w, TRUE)
    BY <2>1, <2>2, FailInv DEF product
  <2>3. CASE ~FailSync(w, TRUE)
    <3>1. TypeOK /\ LeaseHoldsIntent /\ NoBacklog /\ JobsType
      BY DEF SyncInv, TypeOK
    <3>2. GithubType' /\ runs' = runs /\ ProductType'
          /\ faults' \in Nat /\ moves' \in Nat /\ sent' \in Nat
      BY <2>1, Unconcerned
    <3>3. JobsType' /\ NoBacklog' /\ HandlerType' /\ wk'[w] = Idle
          /\ \A v \in Workers : v # w => wk'[v] = wk[v]
      <4>1. Return(w)
        BY <1>4, <2>3 DEF GiveUpInactive
      <4>2. Len(runs)' \in Nat /\ Len(runs) <= Len(runs)'
        BY <1>2, <3>2
      <4> QED
        BY <1>1, <1>2, <3>1, <4>1, <4>2, ReturnParts
    <3>4. RowType' /\ intent' = intent /\ lastClaim' = lastClaim
          /\ (sync' = "syncing" => sync = "syncing")
      BY <1>1, <1>4, <2>3, <3>2 DEF RowType, GiveUpInactive, Lease
    <3>5. LeaseHoldsIntent'
      BY <3>1, <3>3, <3>4, LeaseKept DEF Claimed, Idle
    <3> QED
      BY <3>2, <3>3, <3>4, <3>5 DEF SyncInv, TypeOK
  <2> QED
    BY <2>2, <2>3
<1>5. CASE Reconcile(w) \/ Comment(w)
  <2>1. Claimed(w) /\ UNCHANGED <<github, bound, current, passed, counters>>
    BY <1>5 DEF Reconcile, Comment, Claimed
  <2>2. CASE FailStale(w)
    BY <2>1, <2>2, FailInv DEF FailStale
  <2>3. CASE ~FailStale(w)
    <3>1. \E pc \in Pcs : Goto(w, pc) /\ UNCHANGED <<row, jobs, refresh>>
      BY <1>5, <2>3 DEF Reconcile, Comment, Pcs
    <3>2. ProductType'
      BY <1>1, <2>1, <3>1 DEF ProductType
    <3> QED
      BY <2>1, <3>1, <3>2, GotoInv
  <2> QED
    BY <2>2, <2>3
<1>6. CASE Fetch(w)
  <2> DEFINE id == IF wk[w].id = 0 THEN SelectReusable(wk[w].gate) ELSE wk[w].id
             run == IF CanReuse(id, wk[w].gate) THEN id ELSE 0
  <2>1. Claimed(w) /\ UNCHANGED <<github, bound, current, passed, counters>>
    BY <1>6 DEF Fetch, Claimed
  <2>2. CASE FailStale(w)
    BY <2>1, <2>2, FailInv DEF FailStale
  <2>3. CASE ~FailStale(w)
    <3>1. wk' = [wk EXCEPT ![w].pc = "write", ![w].run = run]
          /\ UNCHANGED <<row, jobs, refresh>>
      BY <1>6, <2>3 DEF Fetch
    <3>2. run \in 0..Len(runs)
      BY <1>1, <1>2, SelectReusableType
    <3>3. GithubType' /\ runs' = runs /\ faults' \in Nat /\ moves' \in Nat /\ sent' \in Nat
      BY <2>1, Unconcerned
    <3>4. ProductType' /\ "write" \in Pcs
      BY <1>1, <2>1, <3>1 DEF ProductType, Pcs
    <3> HIDE DEF run
    <3>5. run \in 0..Len(runs)' /\ Len(runs) <= Len(runs)'
      BY <1>2, <3>2, <3>3
    <3> QED
      BY <2>1, <3>1, <3>3, <3>4, <3>5, MoveOnInv
  <2> QED
    BY <2>2, <2>3
<1>7. CASE Write(w) \/ Invalidate(w)
  <2>1. Claimed(w) /\ UNCHANGED <<here, open, row, jobs, product, counters>>
        /\ runs' = Written(w)
    BY <1>7 DEF Write, Invalidate, Claimed
  <2>2. runs' \in Seq(RunGates) /\ Len(runs') \in Nat /\ Len(runs) <= Len(runs')
        /\ WrittenRun(w) \in 0..Len(runs')
    BY <1>1, <2>1, WrittenType
  <2>3. GithubType' /\ ProductType' /\ faults' \in Nat /\ moves' \in Nat /\ sent' \in Nat
    BY <1>1, <2>1, <2>2, Unconcerned DEF GithubType, RunGates
  <2>4. \E pc \in Pcs, run \in 0..Len(runs') : wk' = [wk EXCEPT ![w].pc = pc, ![w].run = run]
    <3>1. CASE Invalidate(w)
      <4>1. Goto(w, "complete") /\ "complete" \in Pcs
        BY <3>1 DEF Invalidate, Pcs
      <4>2. wk' = [wk EXCEPT ![w].pc = "complete", ![w].run = wk[w].run]
        BY <1>1, <4>1, GotoKeepsRun
      <4>3. wk[w].run \in 0..Len(runs')
        BY <1>2, <2>2
      <4> QED
        BY <4>1, <4>2, <4>3
    <3>2. CASE Write(w)
      <4>1. CASE runs'[WrittenRun(w)] = wk[w].gate
        <5> DEFINE pc == IF wk[w].gate = "cancelled" THEN "complete" ELSE "comment"
        <5>1. wk' = [wk EXCEPT ![w].run = WrittenRun(w), ![w].pc = pc]
          BY <3>2, <4>1 DEF Write
        <5>2. pc \in Pcs
          BY DEF Pcs
        <5> HIDE DEF pc
        <5>3. wk' = [wk EXCEPT ![w].pc = pc, ![w].run = WrittenRun(w)]
          BY <1>1, <5>1 DEF HandlerType
        <5> QED
          BY <2>2, <5>2, <5>3
      <4>2. CASE runs'[WrittenRun(w)] # wk[w].gate
        <5>1. wk' = [wk EXCEPT ![w].run = 0] /\ wk[w].pc = "write"
          BY <3>2, <4>2 DEF Write
        <5>2. wk' = [wk EXCEPT ![w].pc = "write", ![w].run = 0]
          BY <1>1, <5>1 DEF HandlerType
        <5>3. "write" \in Pcs /\ 0 \in 0..Len(runs')
          BY <2>2 DEF Pcs
        <5> QED
          BY <5>2, <5>3
      <4> QED
        BY <4>1, <4>2
    <3> QED
      BY <1>7, <3>1, <3>2
  <2>5. PICK pc \in Pcs, run \in 0..Len(runs') : wk' = [wk EXCEPT ![w].pc = pc, ![w].run = run]
    BY <2>4
  <2> QED
    BY <2>1, <2>2, <2>3, <2>5, MoveOnInv
<1>8. CASE Complete(w) \/ Skip(w)
  <2>1. UNCHANGED <<github, product, counters>>
        /\ \E id \in {wk[w].run, runId} : Synchronized(w, id)
    BY <1>8 DEF Complete, Skip
  <2>2. runId \in 0..Len(runs)
    BY <1>1 DEF RowType
  <2> QED
    BY <1>2, <2>1, <2>2, SynchronizedInv
<1>9. CASE Find(w)
  <2> DEFINE id == IF wk[w].id = 0 THEN SelectReusable("cancelled") ELSE wk[w].id
             pc == IF id = 0 THEN "skip" ELSE "invalidate"
  <2>1. Claimed(w) /\ UNCHANGED <<github, product, counters>>
    BY <1>9 DEF Find, Claimed
  <2>2. CASE FailSync(w, TRUE)
    BY <2>1, <2>2, FailInv DEF product
  <2>3. CASE ~FailSync(w, TRUE)
    <3>1. wk' = [wk EXCEPT ![w].pc = pc, ![w].run = id] /\ UNCHANGED <<row, jobs>>
      BY <1>9, <2>3 DEF Find
    <3>2. id \in 0..Len(runs) /\ pc \in Pcs
      BY <1>1, <1>2, SelectReusableType DEF Pcs
    <3>3. GithubType' /\ runs' = runs /\ ProductType'
          /\ faults' \in Nat /\ moves' \in Nat /\ sent' \in Nat
      BY <2>1, Unconcerned
    <3> HIDE DEF id, pc
    <3>4. id \in 0..Len(runs)' /\ Len(runs) <= Len(runs)'
      BY <1>2, <3>2, <3>3
    <3> QED
      BY <2>1, <3>1, <3>2, <3>3, <3>4, MoveOnInv
  <2> QED
    BY <2>2, <2>3
<1> QED
  BY <1>3, <1>4, <1>5, <1>6, <1>7, <1>8, <1>9 DEF Handler

-----------------------------------------------------------------------------
(* Faults, the world outside, and the whole next-state relation.           *)

\* Failed requests and answers that are lost.
LEMMA RequestFaultInv ==
  ASSUME SyncInv, NEW w \in Workers, RequestFails(w) \/ AmbiguousWrite(w)
  PROVE  SyncInv'
<1>1. GithubType /\ HandlerType /\ ProductType /\ faults \in Nat /\ moves \in Nat
      /\ sent \in Nat /\ Len(runs) \in Nat
  BY Unconcerned DEF SyncInv, TypeOK
<1>2. ProductType' /\ faults' \in Nat /\ moves' \in Nat /\ sent' \in Nat
  <2>1. UNCHANGED <<product, moves, sent>> /\ faults' = faults + 1
    BY DEF RequestFails, AmbiguousWrite, Fault
  <2> QED
    BY <1>1, <2>1, Unconcerned
<1>3. \E retryable \in BOOLEAN : FailSync(w, retryable)
  BY DEF RequestFails, AmbiguousWrite
<1>4. GithubType' /\ Len(runs) <= Len(runs)'
  <2>1. CASE RequestFails(w)
    <3>1. GithubType' /\ runs' = runs
      BY <2>1, Unconcerned DEF RequestFails
    <3> QED
      BY <1>1, <3>1
  <2>2. CASE AmbiguousWrite(w)
    <3>1. Claimed(w) /\ runs' = Written(w) /\ UNCHANGED <<here, open>>
      BY <2>2 DEF AmbiguousWrite, Writing, Claimed, At
    <3>2. runs' \in Seq(RunGates) /\ Len(runs) <= Len(runs')
      BY <1>1, <3>1, WrittenType
    <3> QED
      BY <1>1, <3>1, <3>2 DEF GithubType, RunGates
  <2> QED
    BY <2>1, <2>2
<1> QED
  BY <1>2, <1>3, <1>4, FailSyncInv

\* GitHub completes a run that was meant to stay pending.
LEMMA NeutralWriteInv ==
  ASSUME SyncInv, NEW w \in Workers, NeutralWrite(w)
  PROVE  SyncInv'
<1>1. GithubType /\ HandlerType /\ ProductType /\ faults \in Nat /\ moves \in Nat
      /\ sent \in Nat /\ Len(runs) \in Nat
  BY Unconcerned DEF SyncInv, TypeOK
<1>2. ProductType' /\ faults' \in Nat /\ moves' \in Nat /\ sent' \in Nat
      /\ UNCHANGED <<here, open>> /\ Claimed(w) /\ wk[w].pc = "write"
  BY <1>1, Unconcerned DEF NeutralWrite, Fault, Claimed, At
<1>3. runs \in Seq(RunGates) /\ "neutral" \in RunGates
  BY <1>1 DEF GithubType, RunGates
<1>4. CASE wk[w].run = 0
  <2>1. runs' = Append(runs, "neutral") /\ FailSync(w, FALSE)
    BY <1>4 DEF NeutralWrite
  <2>2. runs' \in Seq(RunGates) /\ Len(runs') = Len(runs) + 1
    BY <1>3, <2>1, AppendProperties
  <2>3. GithubType' /\ Len(runs) <= Len(runs)'
    BY <1>1, <1>2, <2>2 DEF GithubType, RunGates
  <2> QED
    BY <1>2, <2>1, <2>3, FailSyncInv
<1>5. CASE wk[w].run # 0
  <2>1. runs' = [runs EXCEPT ![wk[w].run] = "neutral"]
        /\ wk' = [wk EXCEPT ![w].run = 0] /\ UNCHANGED <<row, jobs>>
    BY <1>5 DEF NeutralWrite
  <2>2. wk[w].run \in 1..Len(runs)
    BY <1>1, <1>5 DEF HandlerType
  <2>3. runs' \in Seq(RunGates) /\ Len(runs') = Len(runs)
    BY <1>3, <2>1, <2>2, ExceptSeq
  <2>4. GithubType' /\ Len(runs) <= Len(runs)' /\ 0 \in 0..Len(runs)' /\ "write" \in Pcs
    BY <1>1, <1>2, <2>3 DEF GithubType, RunGates, Pcs
  <2>5. wk' = [wk EXCEPT ![w].pc = "write", ![w].run = 0]
    BY <1>1, <1>2, <2>1 DEF HandlerType
  <2> QED
    BY <1>2, <2>1, <2>4, <2>5, MoveOnInv
<1> QED
  BY <1>4, <1>5

\* A handler dies, or stalls until the queue takes its job back.
LEMMA LostHandlerInv ==
  ASSUME SyncInv, NEW w \in Workers, Crash(w) \/ Stall(w)
  PROVE  SyncInv'
<1>1. TypeOK /\ LeaseHoldsIntent /\ NoBacklog
  BY DEF SyncInv
<1>2. RowType /\ HandlerType /\ JobsType /\ faults \in Nat /\ moves \in Nat /\ sent \in Nat
  BY <1>1 DEF TypeOK
<1>3. GithubType' /\ runs' = runs /\ ProductType' /\ Len(runs) \in Nat
      /\ faults' \in Nat /\ moves' \in Nat /\ sent' \in Nat
  BY <1>2, Unconcerned DEF Crash, Stall, Fault
<1>4. JobsType' /\ NoBacklog'
  <2>1. CASE UNCHANGED jobs
    BY <1>1, <1>2, <2>1 DEF JobsType, NoBacklog, JobCount, jobs
  <2>2. CASE active.worker = w /\ ExpireJob
    BY <1>1, <1>2, <2>2, ExpireJobs
  <2> QED
    BY <2>1, <2>2 DEF Crash, Stall
<1>5. UNCHANGED row
  BY DEF Crash, Stall
<1>6. CASE UNCHANGED wk
  BY <1>2, <1>3, <1>4, <1>5, <1>6, QuietInv DEF row, RowType
<1>7. CASE wk' = [wk EXCEPT ![w] = Idle]
  <2>1. \A v \in Workers : Claimed(v)' => wk'[v] = wk[v] /\ Claimed(v)
    BY <1>2, <1>7 DEF HandlerType, Claimed, At, Idle
  <2>2. HandlerType'
    <3>1. \A v \in Workers : Claimed(v)' => wk'[v].gate \in Gates
      BY <1>2, <2>1 DEF HandlerType
    <3>2. Idle \in [pc : Pcs, reason : Reasons \cup {"none"}, gate : Gates \cup {"none"},
                    id : 0..Len(runs), run : 0..Len(runs)]
      BY <1>3 DEF Idle, Pcs
    <3> QED
      BY <1>2, <1>3, <1>7, <3>1, <3>2 DEF HandlerType
  <2>3. RowType'
    BY <1>2, <1>3, <1>5 DEF RowType, row
  <2>4. LeaseHoldsIntent'
    BY <1>1, <1>5, <2>1, LeaseKept DEF row
  <2> QED
    BY <1>3, <1>4, <2>2, <2>3, <2>4 DEF SyncInv, TypeOK
<1> QED
  BY <1>6, <1>7 DEF Crash, Stall

\* Time passes and the sweep queues due retries.
LEMMA TimeInv ==
  ASSUME SyncInv, \/ LeaseAges \/ DelayPasses \/ Sweep
                  \/ \E w \in Workers : SlowHandler(w)
  PROVE  SyncInv'
<1>1. TypeOK /\ NoBacklog
  BY DEF SyncInv
<1>2. RowType /\ JobsType /\ faults \in Nat /\ moves \in Nat /\ sent \in Nat
  BY <1>1 DEF TypeOK
<1>3. GithubType' /\ runs' = runs /\ ProductType'
  BY Unconcerned DEF LeaseAges, DelayPasses, Sweep, SlowHandler, Age
<1>4. faults' \in Nat /\ moves' \in Nat /\ sent' \in Nat
  BY <1>2, Unconcerned DEF LeaseAges, DelayPasses, Sweep, SlowHandler, Fault
<1>5. CASE Sweep
  <2>1. intent.reason \in Reasons \cup {"none"} /\ Expedite(intent.reason)
    BY <1>2, <1>5 DEF RowType, Sweep
  <2>2. JobsType' /\ NoBacklog'
    BY <1>1, <1>2, <2>1, ExpediteJobs
  <2>3. /\ UNCHANGED <<wk, intent, lastClaim, runId, waiting>>
        /\ sync' = "retry_required" /\ sync # "none" /\ aged' = FALSE
    BY <1>5 DEF Sweep
  <2> QED
    BY <1>2, <1>3, <1>4, <2>2, <2>3, QuietInv DEF RowType
<1>6. CASE ~Sweep
  <2>1. /\ UNCHANGED <<wk, intent, sync, lastClaim, runId, jobs>>
        /\ aged' \in {aged, TRUE} /\ waiting' \in {waiting, FALSE}
    BY <1>6 DEF LeaseAges, DelayPasses, SlowHandler, Age
  <2>2. JobsType' /\ NoBacklog'
    BY <1>1, <1>2, <2>1 DEF JobsType, NoBacklog, JobCount, jobs
  <2>3. aged' \in BOOLEAN /\ waiting' \in BOOLEAN
    BY <1>2, <2>1 DEF RowType
  <2> QED
    BY <1>3, <1>4, <2>1, <2>2, <2>3, QuietInv
<1> QED
  BY <1>5, <1>6

\* Ingestion, the proof, GitHub and the operator.
LEMMA EnvironmentInv ==
  ASSUME SyncInv, \/ Ingest \/ Reactivate \/ Push \/ CloseOrReopen \/ Suspend
                  \/ \E gate \in Gates, reason \in Reasons : ProofIntent(gate, reason)
  PROVE  SyncInv'
<1>1. GithubType /\ ProductType /\ faults \in Nat /\ moves \in Nat /\ sent \in Nat
  BY DEF SyncInv, TypeOK
<1>2. CASE Ingest \/ Reactivate
  <2>1. /\ ApplySnapshot /\ UNCHANGED <<github, wk>>
        /\ refresh' = FALSE /\ bound' \in {bound, TRUE} /\ passed' = passed
        /\ faults' = faults /\ moves' \in {moves, moves + 1} /\ sent' = sent
    BY <1>2 DEF Ingest, Reactivate, counters
  <2>2. refresh' \in BOOLEAN /\ bound' \in BOOLEAN /\ passed' \in BOOLEAN
    BY <1>1, <2>1 DEF ProductType
  <2>3. faults' \in Nat /\ moves' \in Nat /\ sent' \in Nat
    BY <1>1, <2>1
  <2> QED
    BY <2>1, <2>2, <2>3, ApplySnapshotInv
<1>3. CASE Push \/ CloseOrReopen \/ Suspend
  <2>1. GithubType' /\ ProductType'
    BY <1>1, <1>3 DEF Push, CloseOrReopen, Suspend, GithubType, ProductType, github
  <2>2. UNCHANGED <<runs, row, jobs, wk>>
        /\ faults' \in Nat /\ moves' \in Nat /\ sent' \in Nat
    BY <1>1, <1>3 DEF Push, CloseOrReopen, Suspend, github
  <2> QED
    BY <2>1, <2>2, OutsideInv
<1>4. ASSUME NEW gate \in Gates, NEW reason \in Reasons, ProofIntent(gate, reason)
      PROVE  SyncInv'
  <2>1. ProductType'
    BY <1>1, <1>4 DEF ProofIntent, ProductType
  <2>2. WriteIntent(gate, reason) /\ UNCHANGED <<github, wk>>
        /\ faults' \in Nat /\ moves' \in Nat /\ sent' \in Nat
    BY <1>1, <1>4 DEF ProofIntent
  <2> QED
    BY <2>1, <2>2, WriteIntentInv
<1> QED
  BY <1>2, <1>3, <1>4

\* The invariant holds before the first intent and in every step.
LEMMA SyncInvInductive ==
  /\ Init => SyncInv
  /\ SyncInv /\ [Next]_vars => SyncInv'
<1>1. ASSUME Init PROVE SyncInv
  <2>1. GithubType /\ ProductType /\ RowType /\ JobsType
    <3>1. GithubType /\ ProductType
      <4>1. <<>> \in Seq(RunGates)
        OBVIOUS
      <4> QED
        BY <1>1, <4>1 DEF Init, GithubType, ProductType, RunGates
    <3>2. runId \in 0..Len(runs)
      BY <1>1 DEF Init
    <3>3. RowType
      BY <1>1, <3>2 DEF Init, RowType
    <3>4. JobsType
      <4>1. <<>> \in Seq(JobRecords)
        OBVIOUS
      <4> QED
        BY <1>1, <4>1 DEF Init, JobsType, NoJob, JobRecords
    <3> QED
      BY <3>1, <3>3, <3>4
  <2>2. \A w \in Workers : ~Claimed(w)
    BY <1>1 DEF Init, Claimed, At, Idle
  <2>3. HandlerType
    BY <1>1, <2>2 DEF Init, HandlerType, Idle, Pcs
  <2>4. LeaseHoldsIntent /\ NoBacklog
    BY <1>1 DEF Init, LeaseHoldsIntent, NoBacklog, JobCount
  <2> QED
    BY <1>1, <2>1, <2>3, <2>4 DEF Init, SyncInv, TypeOK
<1>2. ASSUME SyncInv, [Next]_vars PROVE SyncInv'
  <2>1. CASE UNCHANGED vars
    <3>1. GithubType' /\ ProductType' /\ faults' \in Nat /\ moves' \in Nat /\ sent' \in Nat
      BY <1>2, <2>1, Unconcerned DEF vars
    <3> QED
      BY <1>2, <2>1, <3>1, OutsideInv DEF vars, github
  <2>2. CASE \/ Ingest \/ Reactivate \/ Push \/ CloseOrReopen \/ Suspend
             \/ \E gate \in Gates, reason \in Reasons : ProofIntent(gate, reason)
    BY <1>2, <2>2, EnvironmentInv
  <2>3. CASE \/ LeaseAges \/ DelayPasses \/ Sweep
             \/ \E w \in Workers : SlowHandler(w)
    BY <1>2, <2>3, TimeInv
  <2>4. ASSUME NEW w \in Workers,
               \/ TakeJob(w) \/ Handler(w) \/ RequestFails(w) \/ AmbiguousWrite(w)
               \/ NeutralWrite(w) \/ Crash(w) \/ Stall(w)
        PROVE  SyncInv'
    <3>1. CASE TakeJob(w)
      BY <1>2, <3>1, TakeJobInv
    <3>2. CASE Claim(w)
      BY <1>2, <3>2, ClaimInv
    <3>3. CASE Handler(w) /\ ~Claim(w)
      BY <1>2, <3>3, AwaitInv
    <3>4. CASE RequestFails(w) \/ AmbiguousWrite(w)
      BY <1>2, <3>4, RequestFaultInv
    <3>5. CASE NeutralWrite(w)
      BY <1>2, <3>5, NeutralWriteInv
    <3>6. CASE Crash(w) \/ Stall(w)
      BY <1>2, <3>6, LostHandlerInv
    <3> QED
      BY <2>4, <3>1, <3>2, <3>3, <3>4, <3>5, <3>6
  <2> QED
    BY <1>2, <2>1, <2>2, <2>3, <2>4 DEF Next
<1> QED
  BY <1>1, <1>2

-----------------------------------------------------------------------------
(* Results.                                                                *)

\* Types, lease and backlog together are an invariant of the specification.
THEOREM SyncInvariant == Spec => []SyncInv
  BY SyncInvInductive, PTL DEF Spec

\* The handler whose claim still fences the check_runs row works on the
\* intent the row holds, for any number of handlers, takeovers and faults.
THEOREM LeaseIntegrity == Spec => []LeaseHoldsIntent
<1>1. SyncInv => LeaseHoldsIntent
  BY DEF SyncInv
<1> QED
  BY <1>1, SyncInvariant, PTL

\* A revision never has more than two github.reconcile-check jobs, whatever
\* is published, retried, replayed by the sweep or failed.
THEOREM BoundedBacklog == Spec => []NoBacklog
<1>1. SyncInv => NoBacklog
  BY DEF SyncInv
<1> QED
  BY <1>1, SyncInvariant, PTL

\* A step of handler v leaves the other handlers where they are.
LEMMA OwnStep ==
  ASSUME HandlerType, NEW v \in Workers, NEW w \in Workers, w # v,
         \/ TakeJob(v) \/ Handler(v) \/ RequestFails(v) \/ AmbiguousWrite(v)
         \/ NeutralWrite(v) \/ Crash(v) \/ Stall(v)
  PROVE  wk'[w] = wk[w]
<1>1. \/ wk' = wk
      \/ \E x : wk' = [wk EXCEPT ![v] = x]
      \/ \E pc : wk' = [wk EXCEPT ![v].pc = pc]
      \/ \E run : wk' = [wk EXCEPT ![v].run = run]
      \/ \E pc, run : wk' = [wk EXCEPT ![v].pc = pc, ![v].run = run]
      \/ \E pc, run : wk' = [wk EXCEPT ![v].run = run, ![v].pc = pc]
  <2>1. CASE TakeJob(v) \/ Claim(v) \/ Crash(v) \/ Stall(v)
    BY <2>1 DEF TakeJob, Claim, Crash, Stall, Return
  <2>2. CASE RequestFails(v) \/ AmbiguousWrite(v) \/ NeutralWrite(v)
    BY <2>2 DEF RequestFails, AmbiguousWrite, NeutralWrite, FailSync, Return
  <2>3. CASE Load(v) \/ GiveUpInactive(v) \/ Reconcile(v) \/ Comment(v)
    BY <2>3 DEF Load, GiveUpInactive, Reconcile, Comment, FailStale, FailSync, Return, Goto
  <2>4. CASE Fetch(v) \/ Find(v)
    BY <2>4 DEF Fetch, Find, FailStale, FailSync, Return
  <2>5. CASE Write(v) \/ Complete(v) \/ Invalidate(v) \/ Skip(v)
    BY <2>5 DEF Write, Complete, Invalidate, Skip, Synchronized, Return, Goto
  <2> QED
    BY <2>1, <2>2, <2>3, <2>4, <2>5 DEF Handler
<1> QED
  BY <1>1 DEF HandlerType

\* A handler past its claim that returns and changes sync_status has passed
\* the fence.
LEMMA OwnOutcome ==
  ASSUME HandlerType, NEW w \in Workers, Claimed(w), wk'[w].pc = "idle", sync' # sync,
         \/ TakeJob(w) \/ Handler(w) \/ RequestFails(w) \/ AmbiguousWrite(w)
         \/ NeutralWrite(w) \/ Crash(w) \/ Stall(w)
  PROVE  Lease(w)
<1>1. wk[w].pc # "idle" /\ wk[w].pc # "claim"
  BY DEF Claimed, At
<1>2. CASE TakeJob(w) \/ Claim(w) \/ Crash(w) \/ Stall(w)
  BY <1>1, <1>2 DEF TakeJob, Claim, Crash, Stall, At, row
<1>3. ASSUME NEW retryable, FailSync(w, retryable)
      PROVE  Lease(w)
  BY <1>3 DEF FailSync
<1>4. CASE UNCHANGED row
  BY <1>4 DEF row
<1>5. CASE RequestFails(w) \/ AmbiguousWrite(w) \/ NeutralWrite(w)
  BY <1>3, <1>4, <1>5 DEF RequestFails, AmbiguousWrite, NeutralWrite
<1>6. CASE Load(w) \/ Reconcile(w) \/ Comment(w)
  BY <1>3, <1>4, <1>6 DEF Load, Reconcile, Comment, FailStale
<1>7. CASE GiveUpInactive(w)
  BY <1>3, <1>7 DEF GiveUpInactive
<1>8. CASE Fetch(w) \/ Find(w)
  BY <1>3, <1>4, <1>8 DEF Fetch, Find, FailStale
<1>9. CASE Write(w) \/ Invalidate(w)
  BY <1>4, <1>9 DEF Write, Invalidate
<1>10. CASE Complete(w) \/ Skip(w)
  BY <1>10 DEF Complete, Skip, Synchronized
<1> QED
  BY <1>2, <1>5, <1>6, <1>7, <1>8, <1>9, <1>10 DEF Handler

\* completeGithubCheckSync, failGithubCheckSync and
\* completeInactiveGithubCheckSync book an outcome only on the intent their
\* handler read and wrote, also when the handler was taken over meanwhile.
THEOREM OutcomeIntegrity == Spec => OutcomeBelongsToIntent
<1> DEFINE Outcome == \A w \in Workers :
              Claimed(w) /\ wk'[w].pc = "idle" /\ sync' # sync =>
                  intent = [gate |-> wk[w].gate, reason |-> wk[w].reason]
<1>1. SyncInv /\ [Next]_vars => [Outcome]_vars
  <2> SUFFICES ASSUME SyncInv, Next, NEW w \in Workers,
                      Claimed(w), wk'[w].pc = "idle", sync' # sync
               PROVE  intent = [gate |-> wk[w].gate, reason |-> wk[w].reason]
    OBVIOUS
  <2>1. HandlerType /\ LeaseHoldsIntent
    BY DEF SyncInv, TypeOK
  <2>2. wk[w].pc # "idle"
    BY DEF Claimed, At
  <2>3. wk' # wk
    BY <2>2
  <2>4. PICK v \in Workers : \/ TakeJob(v) \/ Handler(v) \/ RequestFails(v)
                             \/ AmbiguousWrite(v) \/ NeutralWrite(v) \/ Crash(v) \/ Stall(v)
    BY <2>3 DEF Next, Ingest, Reactivate, Push, CloseOrReopen, Suspend, ProofIntent,
                LeaseAges, DelayPasses, Sweep, SlowHandler, Age
  <2>5. v = w
    BY <2>1, <2>2, <2>4, OwnStep
  <2>6. Lease(w)
    BY <2>1, <2>4, <2>5, OwnOutcome
  <2> QED
    BY <2>1, <2>6 DEF LeaseHoldsIntent, Lease
<1> QED
  BY <1>1, SyncInvariant, PTL DEF Spec, OutcomeBelongsToIntent

-----------------------------------------------------------------------------
(* The remote run of a synchronized row.  While no job is taken from a      *)
(* handler that goes on, one handler at a time talks to GitHub.             *)

\* A handler that is under way runs the active job.
OneHandler == \A w \in Workers : wk[w].pc # "idle" => active.worker = w

\* Nobody works on a synchronized row.
SynchronizedIsOver == sync = "synchronized" => \A w \in Workers : ~Claimed(w)

\* After its write a handler's run shows its gate, except that an invalidation
\* need not have found one.
WrittenIsShown ==
  \A w \in Workers :
    /\ wk[w].pc \in {"comment", "complete"} =>
         \/ Invalidating(w)
         \/ wk[w].run # 0 /\ runs[wk[w].run] = wk[w].gate
    /\ wk[w].pc \in {"find", "invalidate", "skip"} => Invalidating(w)

\* The inductive invariant.
ShownInv ==
  /\ SyncInv /\ OneHandler /\ SynchronizedIsOver /\ WrittenIsShown
  /\ SynchronizedRunShowsIntent

\* Webhooks, proofs, timers and the sweep take a row out of "synchronized" or
\* leave it as it is.
LEMMA OutsideShown ==
  ASSUME ShownInv,
         UNCHANGED <<wk, runs>>, active' = active,
         sync' = "synchronized" => UNCHANGED <<sync, intent, runId>>
  PROVE  OneHandler' /\ SynchronizedIsOver' /\ WrittenIsShown'
         /\ SynchronizedRunShowsIntent'
BY DEF ShownInv, OneHandler, SynchronizedIsOver, WrittenIsShown, Invalidating,
       SynchronizedRunShowsIntent, Claimed, At

\* One handler's step: the others are idle.
LEMMA OwnShown ==
  ASSUME ShownInv, NEW v \in Workers,
         wk[v].pc # "idle" \/ active.worker = NoWorker,
         \A w \in Workers : w # v => wk'[w] = wk[w],
         wk'[v].pc # "idle" => active'.worker = v,
         sync' = "synchronized" => wk'[v].pc \in {"idle", "claim"},
         wk'[v].pc \in {"comment", "complete"} =>
           \/ wk'[v].reason = "revision_invalidated"
           \/ wk'[v].run # 0 /\ runs'[wk'[v].run] = wk'[v].gate,
         wk'[v].pc \in {"find", "invalidate", "skip"} =>
           wk'[v].reason = "revision_invalidated"
  PROVE  OneHandler' /\ SynchronizedIsOver' /\ WrittenIsShown'
<1>1. ASSUME NEW w \in Workers, w # v PROVE wk'[w] = wk[w] /\ wk[w].pc = "idle"
  BY <1>1 DEF ShownInv, OneHandler
<1> QED
  BY <1>1 DEF OneHandler, SynchronizedIsOver, WrittenIsShown, Invalidating,
      Claimed, At

\* A handler that shows its gate on GitHub and completes under its lease.
LEMMA HandlerShown ==
  ASSUME ShownInv, "stall" \notin Faults, NEW v \in Workers,
         \/ TakeJob(v) \/ Handler(v) \/ RequestFails(v) \/ AmbiguousWrite(v)
         \/ NeutralWrite(v) \/ Crash(v) \/ Stall(v)
  PROVE  OneHandler' /\ SynchronizedIsOver' /\ WrittenIsShown'
         /\ SynchronizedRunShowsIntent'
<1>1. GithubType /\ RowType /\ HandlerType /\ JobsType /\ LeaseHoldsIntent
      /\ OneHandler /\ SynchronizedIsOver /\ WrittenIsShown /\ SynchronizedRunShowsIntent
  BY DEF ShownInv, SyncInv, TypeOK
<1>2. ~Stall(v)
  BY DEF Stall, Fault
<1>3. \A w \in Workers : w # v => wk'[w] = wk[w]
  BY <1>1, OwnStep
<1>4. wk[v].pc # "idle" => active.worker = v
  BY <1>1 DEF OneHandler
\* A step of a handler past its claim that leaves the row unsynchronized.
<1> DEFINE Quiet ==
             /\ sync' # "synchronized"
             /\ wk'[v].pc # "idle" => active'.worker = v
             /\ wk'[v].pc \in {"comment", "complete"} =>
                  \/ wk'[v].reason = "revision_invalidated"
                  \/ wk'[v].run # 0 /\ runs'[wk'[v].run] = wk'[v].gate
             /\ wk'[v].pc \in {"find", "invalidate", "skip"} =>
                  wk'[v].reason = "revision_invalidated"
<1>5. ASSUME Claimed(v) PROVE sync # "synchronized" /\ wk[v].pc # "idle"
  BY <1>1, <1>5 DEF SynchronizedIsOver, Claimed, At
<1>6. ASSUME Quiet, wk[v].pc # "idle" PROVE OneHandler' /\ SynchronizedIsOver' /\ WrittenIsShown'
         /\ SynchronizedRunShowsIntent'
  BY <1>3, <1>6, OwnShown DEF SynchronizedRunShowsIntent
<1>7. ASSUME NEW retryable, FailSync(v, retryable), Claimed(v)
      PROVE  Quiet
  BY <1>1, <1>5, <1>7 DEF FailSync, Return, HandlerType, Idle
<1> HIDE DEF Quiet
<1>8. CASE TakeJob(v)
  <2>1. /\ active.worker = NoWorker /\ active'.worker = v
        /\ wk' = [wk EXCEPT ![v] = [pc |-> "claim", reason |-> Head(queue).reason,
                                    gate |-> "none", id |-> 0, run |-> 0]]
        /\ UNCHANGED <<sync, intent, runId, runs>>
    BY <1>8 DEF TakeJob, NoJob, row, github
  <2>2. wk'[v].pc = "claim"
    BY <1>1, <2>1 DEF HandlerType
  <2>3. OneHandler' /\ SynchronizedIsOver' /\ WrittenIsShown'
    BY <1>3, <2>1, <2>2, OwnShown
  <2> QED
    BY <1>1, <2>1, <2>3 DEF SynchronizedRunShowsIntent
<1>9. CASE Claim(v)
  <2>1. wk[v].pc = "claim"
    BY <1>9 DEF Claim, At
  <2>2. CASE Claimable(wk[v].reason)
    <3>1. Quiet
      BY <1>1, <1>4, <1>9, <2>1, <2>2 DEF Claim, HandlerType, jobs, Quiet
    <3> QED
      BY <1>6, <2>1, <3>1
  <2>3. CASE ~Claimable(wk[v].reason)
    <3>1. wk'[v].pc = "idle" /\ UNCHANGED <<sync, intent, runId, runs>>
      BY <1>1, <1>9, <2>3 DEF Claim, HandlerType, Return, Idle, row, github
    <3>2. OneHandler' /\ SynchronizedIsOver' /\ WrittenIsShown'
      BY <1>3, <2>1, <3>1, OwnShown
    <3> QED
      BY <1>1, <3>1, <3>2 DEF SynchronizedRunShowsIntent
  <2> QED
    BY <2>2, <2>3
<1>10. CASE Crash(v)
  <2>1. wk[v].pc # "idle" /\ wk'[v].pc = "idle" /\ UNCHANGED <<sync, intent, runId, runs>>
    BY <1>1, <1>10 DEF Crash, HandlerType, Idle, row, github, At
  <2>2. OneHandler' /\ SynchronizedIsOver' /\ WrittenIsShown'
    BY <1>3, <2>1, OwnShown
  <2> QED
    BY <1>1, <2>1, <2>2 DEF SynchronizedRunShowsIntent
<1>11. CASE RequestFails(v)
  <2>1. Claimed(v) /\ \E retryable \in BOOLEAN : FailSync(v, retryable)
    BY <1>11 DEF RequestFails, Calling, Claimed, At
  <2> QED
    BY <1>5, <1>6, <1>7, <2>1
<1>12. CASE AmbiguousWrite(v)
  <2>1. Claimed(v) /\ FailSync(v, TRUE)
    BY <1>12 DEF AmbiguousWrite, Writing, Claimed, At
  <2> QED
    BY <1>5, <1>6, <1>7, <2>1
<1>13. CASE NeutralWrite(v)
  <2>1. Claimed(v) /\ wk[v].pc = "write"
    BY <1>13 DEF NeutralWrite, Claimed, At
  <2>2. \/ FailSync(v, FALSE)
        \/ wk' = [wk EXCEPT ![v].run = 0] /\ UNCHANGED <<row, jobs>>
    BY <1>13 DEF NeutralWrite
  <2>3. Quiet
    <3>1. CASE FailSync(v, FALSE)
      BY <1>7, <2>1, <3>1
    <3>2. CASE wk' = [wk EXCEPT ![v].run = 0] /\ UNCHANGED <<row, jobs>>
      BY <1>1, <1>4, <1>5, <2>1, <3>2 DEF Quiet, HandlerType, row, jobs
    <3> QED
      BY <2>2, <3>1, <3>2
  <2> QED
    BY <1>5, <1>6, <2>1, <2>3
<1>14. CASE Load(v) \/ GiveUpInactive(v) \/ Reconcile(v) \/ Fetch(v)
  <2>1. Claimed(v) /\ wk[v].pc \in {"load", "inactive", "reconcile", "fetch"}
    BY <1>14 DEF Load, GiveUpInactive, Reconcile, Fetch, Claimed, At
  <2>2. \/ FailSync(v, TRUE)
        \/ /\ wk'[v].pc \in {"find", "skip"} => Invalidating(v)
           /\ wk'[v].pc \in {"find", "skip", "reconcile", "inactive", "fetch", "write"}
           /\ wk'[v].reason = wk[v].reason
           /\ UNCHANGED <<row, jobs>>
        \/ Return(v) /\ sync' \in {"inactive", sync}
    <3>1. CASE Load(v)
      <4>1. CASE FailSync(v, TRUE)
        BY <4>1
      <4>2. CASE ~FailSync(v, TRUE)
        <5>1. UNCHANGED <<row, jobs>>
          BY <3>1, <4>2 DEF Load
        <5> DEFINE pc == IF bound THEN IF Invalidating(v) THEN "find" ELSE "reconcile"
                         ELSE IF Invalidating(v) THEN "skip" ELSE "inactive"
        <5>2. /\ Goto(v, pc) /\ pc \in {"find", "reconcile", "skip", "inactive"}
              /\ pc \in {"find", "skip"} => Invalidating(v)
          BY <3>1, <4>2 DEF Load
        <5> HIDE DEF pc
        <5>3. wk'[v].pc = pc /\ wk'[v].reason = wk[v].reason
          BY <1>1, <5>2 DEF Goto, HandlerType
        <5> QED
          BY <5>1, <5>2, <5>3
      <4> QED
        BY <4>1, <4>2
    <3>2. CASE GiveUpInactive(v)
      BY <3>2 DEF GiveUpInactive
    <3>3. CASE Reconcile(v)
      <4>1. FailSync(v, TRUE) \/ (Goto(v, "fetch") /\ UNCHANGED <<row, jobs>>)
        BY <3>3 DEF Reconcile, FailStale
      <4>2. Goto(v, "fetch") => wk'[v].pc = "fetch" /\ wk'[v].reason = wk[v].reason
        BY <1>1 DEF Goto, HandlerType
      <4> QED
        BY <4>1, <4>2
    <3>4. CASE Fetch(v)
      <4>1. \/ FailSync(v, TRUE)
            \/ /\ \E run : wk' = [wk EXCEPT ![v].pc = "write", ![v].run = run]
               /\ UNCHANGED <<row, jobs>>
        BY <3>4 DEF Fetch, FailStale
      <4>2. ASSUME NEW run, wk' = [wk EXCEPT ![v].pc = "write", ![v].run = run]
            PROVE  wk'[v].pc = "write" /\ wk'[v].reason = wk[v].reason
        BY <1>1, <4>2 DEF HandlerType
      <4> QED
        BY <4>1, <4>2
    <3> QED
      BY <1>14, <3>1, <3>2, <3>3, <3>4
  <2>3. Quiet
    <3>1. CASE FailSync(v, TRUE)
      BY <1>7, <2>1, <3>1
    <3>2. CASE Return(v) /\ sync' \in {"inactive", sync}
      BY <1>1, <1>5, <2>1, <3>2 DEF Quiet, Return, HandlerType, Idle
    <3>3. CASE /\ wk'[v].pc \in {"find", "skip"} => Invalidating(v)
               /\ wk'[v].pc \in {"find", "skip", "reconcile", "inactive", "fetch", "write"}
               /\ wk'[v].reason = wk[v].reason
               /\ UNCHANGED <<row, jobs>>
      BY <1>4, <1>5, <2>1, <3>3 DEF Quiet, Invalidating, row, jobs
    <3> QED
      BY <2>2, <3>1, <3>2, <3>3
  <2> QED
    BY <1>5, <1>6, <2>1, <2>3
<1>15. CASE Write(v)
  <2>1. Claimed(v) /\ wk[v].pc = "write"
    BY <1>15 DEF Write, Claimed, At
  <2>2. WrittenRun(v) # 0
    BY <1>1 DEF WrittenRun, HandlerType, GithubType
  <2>3. Quiet
    <3>1. CASE runs'[WrittenRun(v)] = wk[v].gate
      BY <1>1, <1>4, <1>5, <1>15, <2>1, <2>2, <3>1
         DEF Quiet, Write, HandlerType, row, jobs
    <3>2. CASE runs'[WrittenRun(v)] # wk[v].gate
      BY <1>1, <1>4, <1>5, <1>15, <2>1, <2>2, <3>2
         DEF Quiet, Write, HandlerType, row, jobs
    <3> QED
      BY <3>1, <3>2
  <2> QED
    BY <1>5, <1>6, <2>1, <2>3
<1>16. CASE Comment(v)
  <2>1. Claimed(v) /\ wk[v].pc = "comment" /\ runs' = runs
    BY <1>16 DEF Comment, Claimed, At, github
  <2>2. \/ FailSync(v, TRUE)
        \/ Goto(v, "complete") /\ UNCHANGED <<row, jobs>>
    BY <1>16 DEF Comment, FailStale
  <2>3. Quiet
    <3>1. CASE FailSync(v, TRUE)
      BY <1>7, <2>1, <3>1
    <3>2. CASE Goto(v, "complete") /\ UNCHANGED <<row, jobs>>
      BY <1>1, <1>4, <1>5, <2>1, <3>2
         DEF Quiet, Goto, HandlerType, WrittenIsShown, Invalidating, row, jobs
    <3> QED
      BY <2>2, <3>1, <3>2
  <2> QED
    BY <1>5, <1>6, <2>1, <2>3
<1>17. CASE Find(v) \/ Invalidate(v)
  <2>1. Claimed(v) /\ wk[v].pc \in {"find", "invalidate"} /\ Invalidating(v)
    BY <1>1, <1>17 DEF Find, Invalidate, Claimed, At, WrittenIsShown
  <2>2. \/ FailSync(v, TRUE)
        \/ wk'[v].reason = wk[v].reason /\ UNCHANGED <<row, jobs>>
    <3>1. CASE Find(v)
      <4>1. \/ FailSync(v, TRUE)
            \/ /\ \E pc, run : wk' = [wk EXCEPT ![v].pc = pc, ![v].run = run]
               /\ UNCHANGED <<row, jobs>>
        BY <3>1 DEF Find
      <4>2. ASSUME NEW pc, NEW run, wk' = [wk EXCEPT ![v].pc = pc, ![v].run = run]
            PROVE  wk'[v].reason = wk[v].reason
        BY <1>1, <4>2 DEF HandlerType
      <4> QED
        BY <4>1, <4>2
    <3>2. CASE Invalidate(v)
      BY <1>1, <3>2 DEF Invalidate, Goto, HandlerType
    <3> QED
      BY <1>17, <3>1, <3>2
  <2>3. Quiet
    <3>1. CASE FailSync(v, TRUE)
      BY <1>7, <2>1, <3>1
    <3>2. CASE wk'[v].reason = wk[v].reason /\ UNCHANGED <<row, jobs>>
      BY <1>4, <1>5, <2>1, <3>2 DEF Quiet, Invalidating, row, jobs
    <3> QED
      BY <2>2, <3>1, <3>2
  <2> QED
    BY <1>5, <1>6, <2>1, <2>3
<1>18. CASE Complete(v) \/ Skip(v)
  <2>1. Claimed(v) /\ wk[v].pc \in {"complete", "skip"} /\ runs' = runs /\ intent' = intent
    BY <1>18 DEF Complete, Skip, Claimed, At, github, Synchronized
  <2>2. \E id : /\ Synchronized(v, id)
                /\ Invalidating(v) \/ (id # 0 /\ runs[id] = wk[v].gate)
    BY <1>1, <1>18 DEF Complete, Skip, At, WrittenIsShown
  <2>3. wk'[v].pc = "idle"
    BY <1>1, <2>2 DEF Synchronized, Return, HandlerType, Idle
  <2>4. OneHandler' /\ SynchronizedIsOver' /\ WrittenIsShown'
    BY <1>3, <1>5, <2>1, <2>3, OwnShown
  <2>5. SynchronizedRunShowsIntent'
    <3>1. CASE Lease(v)
      <4>1. intent = [gate |-> wk[v].gate, reason |-> wk[v].reason]
        BY <1>1, <2>1, <3>1 DEF LeaseHoldsIntent, Lease
      <4> QED
        BY <2>1, <2>2, <3>1, <4>1 DEF Synchronized, Invalidating,
            SynchronizedRunShowsIntent
    <3>2. CASE ~Lease(v)
      BY <1>5, <2>1, <2>2, <3>2 DEF Synchronized, SynchronizedRunShowsIntent
    <3> QED
      BY <3>1, <3>2
  <2> QED
    BY <2>4, <2>5
<1> QED
  BY <1>2, <1>8, <1>9, <1>10, <1>11, <1>12, <1>13, <1>14, <1>15, <1>16, <1>17, <1>18
     DEF Handler

\* Every other step replaces the intent, or leaves row and runs as they are.
LEMMA EnvironmentShown ==
  ASSUME ShownInv,
         \/ Ingest \/ Reactivate \/ Push \/ CloseOrReopen \/ Suspend
         \/ \E gate \in Gates, reason \in Reasons : ProofIntent(gate, reason)
         \/ LeaseAges \/ DelayPasses \/ Sweep
         \/ \E w \in Workers : SlowHandler(w)
  PROVE  OneHandler' /\ SynchronizedIsOver' /\ WrittenIsShown'
         /\ SynchronizedRunShowsIntent'
<1> DEFINE Stays == /\ active' = active
                    /\ sync' = "synchronized" => UNCHANGED <<sync, intent, runId>>
<1>1. UNCHANGED <<wk, runs>>
  BY DEF Ingest, Reactivate, Push, CloseOrReopen, Suspend, ProofIntent, LeaseAges,
         DelayPasses, Sweep, SlowHandler, Age, github
<1>2. ASSUME NEW gate, NEW reason, WriteIntent(gate, reason) PROVE Stays
  BY <1>2 DEF WriteIntent, Expedite
<1>3. ASSUME ReplayIntent PROVE Stays
  BY <1>3 DEF ReplayIntent, Expedite
<1>4. ASSUME ApplySnapshot PROVE Stays
  BY <1>2, <1>3, <1>4 DEF ApplySnapshot, row, jobs
<1>5. Stays
  <2>1. CASE Ingest \/ Reactivate
    BY <1>4, <2>1 DEF Ingest, Reactivate
  <2>2. CASE Push \/ CloseOrReopen \/ Suspend
    BY <2>2 DEF Push, CloseOrReopen, Suspend, row, jobs
  <2>3. ASSUME NEW gate \in Gates, NEW reason \in Reasons, ProofIntent(gate, reason)
        PROVE  Stays
    BY <1>2, <2>3 DEF ProofIntent
  <2>4. CASE LeaseAges \/ DelayPasses \/ \E w \in Workers : SlowHandler(w)
    BY <2>4 DEF LeaseAges, DelayPasses, SlowHandler, Age, jobs
  <2>5. CASE Sweep
    BY <2>5 DEF Sweep, Expedite
  <2> QED
    BY <2>1, <2>2, <2>3, <2>4, <2>5
<1> QED
  BY <1>1, <1>5, OutsideShown

\* While no stalled handler goes on beside its successor, a row that is marked
\* synchronized names a remote run that shows its intent, whatever requests fail
\* or take effect without an answer, whoever crashes, and whenever the intent
\* changes (PullRequestCheckSynchronizer, completeGithubCheckSync).
THEOREM SynchronizedRunIsShown ==
  ASSUME "stall" \notin Faults
  PROVE  Spec => []SynchronizedRunShowsIntent
<1>1. Init => ShownInv
  <2> SUFFICES ASSUME Init PROVE ShownInv
    OBVIOUS
  <2>1. SyncInv
    BY SyncInvInductive
  <2>2. \A w \in Workers : wk[w].pc = "idle"
    BY DEF Init, Idle
  <2> QED
    BY <2>1, <2>2 DEF Init, ShownInv, OneHandler, SynchronizedIsOver, WrittenIsShown,
                      SynchronizedRunShowsIntent, Claimed, At
<1>2. ShownInv /\ [Next]_vars => ShownInv'
  <2> SUFFICES ASSUME ShownInv, [Next]_vars PROVE ShownInv'
    OBVIOUS
  <2>1. SyncInv'
    BY SyncInvInductive DEF ShownInv
  <2>2. OneHandler' /\ SynchronizedIsOver' /\ WrittenIsShown'
        /\ SynchronizedRunShowsIntent'
    <3>1. CASE UNCHANGED vars
      BY <3>1, OutsideShown DEF vars, github, row, jobs
    <3>2. CASE Next
      BY <3>2, HandlerShown, EnvironmentShown DEF Next
    <3> QED
      BY <3>1, <3>2
  <2> QED
    BY <2>1, <2>2 DEF ShownInv
<1>3. ShownInv => SynchronizedRunShowsIntent
  BY DEF ShownInv
<1> QED
  BY <1>1, <1>2, <1>3, PTL DEF Spec

=============================================================================
