--------------------------- MODULE GithubControl ---------------------------
(* The GitHub control plane around one pull request of one repository:     *)
(* webhook ingestion (packages/github/src/ingest.ts), the lifecycle rows    *)
(* of installations and of the repository, the recovery candidates that     *)
(* let another installation take the repository over, and the delivery and  *)
(* refresh jobs of apps/github-control, whose handlers read GitHub between  *)
(* the lifecycle fence they load and the transaction that re-checks it.     *)
(*                                                                          *)
(* What a committed snapshot does to revisions, attempts and checks is the  *)
(* subject of ProofLifecycle; here a commit only counts for the lifecycle.  *)
(* GitHub delivers webhooks in any order, late, twice or never: each event  *)
(* is ingested at most once (a redelivery is refused) at any time.          *)
EXTENDS Naturals, Sequences, SequencesExt, FiniteSets

CONSTANTS
    Installations,   \* GitHub installations of the App
    Home,            \* the installation the repository is bound to at first
    Allowlisted,     \* installations whose account is on the allowlist
    Events,          \* lifecycle deliveries: [kind, from]
    Sent,            \* the sets of deliveries GitHub may send; the rest is lost
    PullEvents,      \* pull_request deliveries, named by their delivery id
    From,            \* the installation of each pull_request delivery
    MaxFaults,       \* bound on lost jobs, lost leases and transient errors
    MaxMoves,        \* bound on transfers of the repository at GitHub
    MaxCandidates,   \* recovery candidates kept per pull request (8)
    NoOne            \* no installation

LifecycleKinds ==
    {"created", "deleted", "suspend", "unsuspend", "added", "removed"}

ASSUME EventsAssumption ==
    /\ Home \in Installations /\ Allowlisted \subseteq Installations
    /\ Events \subseteq [kind : LifecycleKinds, from : Installations]
    /\ Sent \subseteq SUBSET Events
    /\ From \in [PullEvents -> Installations]
    /\ NoOne \notin Installations
ASSUME ControlBoundsAssumption ==
    MaxFaults \in Nat /\ MaxMoves \in Nat /\ MaxCandidates \in Nat \ {0}

VARIABLES
    inst,      \* installations rows: status ("none" = no row) and version
    repo,      \* the repositories row: its installation, status and version
    pull,      \* the pull_requests row: known, binding, refresh scheduled
    cands,     \* github_recovery_candidates of the pull request, oldest first
    seen,      \* lifecycle deliveries already reserved, or lost by GitHub
    delivery,  \* webhook_deliveries of the pull_request events
    jobs,      \* github.ingest-pr jobs in the queue
    worker,    \* the handlers' local state, by who holds the queue's lease
    owner,     \* the installation GitHub would let read the repository
    faults, moves

vars == <<inst, repo, pull, cands, seen, delivery, jobs, worker, owner,
          faults, moves>>

(* The queue is strict FIFO per pull request: one handler holds the lease;   *)
(* a second one runs beside it only when it lost the lease and goes on.      *)
Workers == {"leased", "expired"}

Statuses == {"none", "pending", "active", "suspended", "removed"}

InstallationRow(s, v) == [status |-> s, version |-> v]
RepositoryRow(i, s, v) == [inst |-> i, status |-> s, version |-> v]

DeliveryJob(d) == [kind |-> "delivery", of |-> d]
RefreshJob(i) == [kind |-> "refresh", of |-> i]
NoJob == [kind |-> "none", of |-> NoOne]
Jobs == {DeliveryJob(d) : d \in PullEvents}
          \cup {RefreshJob(i) : i \in Installations}

NoFence == [fresh |-> FALSE, inst |-> InstallationRow("none", 0),
            repo |-> RepositoryRow(NoOne, "none", 0)]
(* overtaken: a suspension, removal or deletion was applied after the       *)
(* fence was loaded.                                                        *)
Idle == [at |-> "idle", job |-> NoJob, target |-> NoOne, fence |-> NoFence,
         overtaken |-> FALSE]

(* The rows of a fence, and what a handler holds on to.                     *)
Fences == [fresh : BOOLEAN,
           inst : [status : Statuses, version : Nat],
           repo : [inst : Installations \cup {NoOne}, status : Statuses,
                   version : Nat]]
Handlers == [at : {"idle", "reading", "read", "inactive", "retry",
                   "forbidden", "rejected"},
             job : Jobs \cup {NoJob},
             target : Installations \cup {NoOne},
             fence : Fences,
             overtaken : BOOLEAN]

TypeOK ==
    /\ inst \in [Installations ->
                   [status : Statuses, version : Nat]]
    /\ repo \in [inst : Installations,
                 status : {"active", "suspended", "removed"}, version : Nat]
    /\ pull \in [known : BOOLEAN, binding : Installations \cup {NoOne},
                 due : BOOLEAN]
    /\ cands \in Seq(Installations) /\ IsInjective(cands)
    /\ seen \subseteq Events
    /\ delivery \in [PullEvents ->
         [status : {"none", "queued", "processed", "ignored",
                    "permanent_failure"},
          deferred : BOOLEAN]]
    /\ jobs \subseteq Jobs
    /\ worker \in [Workers -> Handlers]
    /\ owner \in Installations
    /\ faults \in 0..MaxFaults /\ moves \in 0..MaxMoves

Init ==
    /\ inst = [i \in Installations |->
                 InstallationRow(IF i = Home THEN "active" ELSE "none", 0)]
    /\ repo = RepositoryRow(Home, "active", 0)
    /\ pull \in {[known |-> k, binding |-> NoOne, due |-> k] : k \in BOOLEAN}
    /\ cands = <<>>
    /\ seen \in {Events \ sent : sent \in Sent}
    /\ delivery = [d \in PullEvents |-> [status |-> "none", deferred |-> FALSE]]
    /\ jobs = {}
    /\ worker = [w \in Workers |-> Idle]
    /\ owner = Home
    /\ faults = 0 /\ moves = 0

---------------------------------------------------------------------------
(* Lifecycle deliveries (ingest.ts): one transaction each.                 *)

(* resolveGithubAppTenantStatus *)
TenantStatus(i) == IF i \in Allowlisted THEN "active" ELSE "pending"

(* upsertInstallation: the row after the upsert, or the same row when the  *)
(* conflict clause refuses it. A removed installation stays removed, and    *)
(* an event alone never turns suspended into active.                        *)
UpsertRefused(i, status, promote) ==
    /\ inst[i].status # "none"
    /\ \/ inst[i].status = "removed" /\ status # "removed"
       \/ /\ status = "active" /\ inst[i].status # "active"
          /\ ~(promote /\ inst[i].status = "pending")

UpsertInstallation(i, status, promote) ==
    CASE inst[i].status = "none" -> InstallationRow(status, 0)
      [] UpsertRefused(i, status, promote) -> inst[i]
      [] OTHER -> InstallationRow(
                    IF status = "pending" THEN inst[i].status ELSE status,
                    inst[i].version + 1)

(* upsertRepository: inserts an active row, refreshes a row of the same     *)
(* installation without changing its status, leaves any other row alone.    *)
UpsertRepository(i) ==
    IF repo.status = "none" THEN RepositoryRow(i, "active", 0)
    ELSE IF repo.inst = i THEN [repo EXCEPT !.version = @ + 1]
    ELSE repo

(* The candidates after installation i's is deleted: it has at most one.     *)
Without(list, i) == RemoveFirst(list, i)

(* The candidates that stay when there is one too many: the binding and the  *)
(* newest of the others.                                                     *)
Kept(list, binding) ==
    IF Len(list) <= MaxCandidates THEN list
    ELSE Without(list, IF Head(list) = binding THEN list[2] ELSE Head(list))

(* The pull request after candidates of installation i are gone: a binding  *)
(* to i passes to the oldest candidate left, due at once, or is cleared.    *)
PromoteNext(p, i, left) ==
    IF p.binding # i THEN p
    ELSE [p EXCEPT !.binding = IF left = <<>> THEN NoOne ELSE Head(left),
                   !.due = left # <<>>]

(* setInstallationPullRequestRefresh(false), setGithubRecoveryCandidateDue  *)
(* and setRepositoryPullRequestRefresh(false): no scheduled refresh, unless *)
(* it belongs to another installation's recovery.                           *)
ParkRefresh(p, i) ==
    IF (repo.inst = i /\ p.binding = NoOne) \/ p.binding = i
    THEN [p EXCEPT !.due = FALSE] ELSE p

(* setInstallationPullRequestRefresh(true), setGithubRecoveryCandidateDue. *)
WakeRefresh(p, i) ==
    IF p.known /\ (repo.inst = i \/ p.binding = i)
    THEN [p EXCEPT !.due = TRUE] ELSE p

(* Workers whose fence or GitHub answer an applied event outdates.         *)
Overtake(i, repoChanged) ==
    [w \in Workers |->
       IF /\ worker[w].at \in {"reading", "read", "forbidden"}
          /\ (worker[w].target = i \/ repoChanged)
       THEN [worker[w] EXCEPT !.overtaken = TRUE] ELSE worker[w]]

(* Faulty variant: a suspension that forgets the repositories. *)
SuspendInstallationOnly(i) ==
    /\ inst' = [inst EXCEPT ![i] = UpsertInstallation(i, "suspended", FALSE)]
    /\ pull' = ParkRefresh(pull, i)
    /\ worker' = Overtake(i, FALSE)
    /\ UNCHANGED <<repo, cands>>

Suspend(i) ==
    LET row == UpsertInstallation(i, "suspended", FALSE)
        applied == ~UpsertRefused(i, "suspended", FALSE)
        hit == applied /\ repo.inst = i /\ repo.status = "active"
    IN  /\ inst' = [inst EXCEPT ![i] = row]
        /\ repo' = IF hit THEN RepositoryRow(i, "suspended", repo.version + 1)
                   ELSE repo
        /\ pull' = IF applied THEN ParkRefresh(pull, i) ELSE pull
        /\ worker' = IF applied THEN Overtake(i, hit) ELSE worker
        /\ UNCHANGED cands

Deleted(i) ==
    LET left == Without(cands, i)
        hit == repo.inst = i /\ repo.status # "removed"
    IN  /\ inst' = [inst EXCEPT
                      ![i] = UpsertInstallation(i, "removed", FALSE)]
        /\ repo' = IF hit THEN RepositoryRow(i, "removed", repo.version + 1)
                   ELSE repo
        /\ cands' = left
        /\ pull' = PromoteNext(ParkRefresh(pull, i), i, left)
        /\ worker' = Overtake(i, hit)

(* created and unsuspend with every repository selected. unsuspend never    *)
(* promotes; it only makes the refreshes due that may reactivate the rows.  *)
Announced(i, kind) ==
    LET status == TenantStatus(i)
        promote == status = "active" /\ kind # "unsuspend"
        row == UpsertInstallation(i, status, promote)
    IN  /\ inst' = [inst EXCEPT ![i] = row]
        /\ repo' = IF row.status = "active" THEN UpsertRepository(i) ELSE repo
        /\ pull' = IF kind = "unsuspend" THEN WakeRefresh(pull, i) ELSE pull
        /\ UNCHANGED <<worker, cands>>

(* installation_repositories added: besides the row, a recovery candidate   *)
(* when the repository belongs to another installation; the first binding   *)
(* stays.                                                                    *)
Added(i) ==
    LET status == TenantStatus(i)
        row == UpsertInstallation(i, status, status = "active")
        after == UpsertRepository(i)
        eligible == pull.known /\ after.inst # i
    IN  /\ inst' = [inst EXCEPT ![i] = row]
        /\ IF row.status = "active"
           THEN /\ repo' = after
                /\ pull' = IF ~pull.known THEN pull
                           ELSE [pull EXCEPT
                             !.binding = IF eligible /\ @ = NoOne
                                         THEN i ELSE @,
                             !.due = TRUE]
                /\ cands' = IF eligible /\ i \notin ToSet(cands)
                            THEN Kept(Append(cands, i), pull'.binding)
                            ELSE cands
           ELSE UNCHANGED <<repo, cands, pull>>
        /\ UNCHANGED worker

(* installation_repositories removed: the candidate goes first; a row of     *)
(* another installation is neither rebound nor tombstoned.                  *)
Removed(i) ==
    LET left == Without(cands, i)
        promoted == PromoteNext(pull, i, left)
        known == inst[i].status # "removed"
        hit == known /\ (repo.inst = i \/ repo.status = "none")
        row == CASE inst[i].status = "none" -> InstallationRow("pending", 0)
                 [] inst[i].status = "removed" -> inst[i]
                 [] OTHER -> InstallationRow(inst[i].status,
                                             inst[i].version + 1)
    IN  /\ cands' = left
        /\ inst' = [inst EXCEPT ![i] = row]
        /\ repo' = IF hit THEN RepositoryRow(i, "removed", repo.version + 1)
                   ELSE repo
        /\ pull' = IF hit THEN ParkRefresh(promoted, i) ELSE promoted
        /\ worker' = Overtake(i, hit)

IngestLifecycle(e) ==
    /\ e \notin seen
    /\ seen' = seen \cup {e}
    /\ CASE e.kind = "suspend" -> Suspend(e.from)
         [] e.kind = "deleted" -> Deleted(e.from)
         [] e.kind \in {"created", "unsuspend"} -> Announced(e.from, e.kind)
         [] e.kind = "added" -> Added(e.from)
         [] e.kind = "removed" -> Removed(e.from)
    /\ UNCHANGED <<delivery, jobs, owner, faults, moves>>

---------------------------------------------------------------------------
(* pull_request deliveries: ingestion and the sweep.                        *)

(* Time is left out of the rows: a deadline that is set passes sooner or    *)
(* later, so a queued delivery may be reclaimed, and a scheduled refresh be  *)
(* due, whenever the model says so. What a deadline still in the future      *)
(* blocks is kept: "deferred" is a next_retry_at later than now.             *)

(* The first delivery, or a redelivery of one that is still queued and due: *)
(* every other redelivery is refused by the reservation.                    *)
Reservable(d) == delivery[d].status \in {"none", "queued"}

IngestPullRequest(d) ==
    /\ Reservable(d)
    /\ IF inst[From[d]].status \in {"active", "suspended"}
       THEN /\ delivery' = [delivery EXCEPT
                              ![d] = [status |-> "queued", deferred |-> FALSE]]
            /\ jobs' = jobs \cup {DeliveryJob(d)}
       ELSE /\ delivery' = [delivery EXCEPT
                              ![d] = [status |-> "ignored", deferred |-> FALSE]]
            /\ UNCHANGED jobs
    /\ UNCHANGED <<inst, repo, pull, cands, seen, worker, owner, faults, moves>>

SweepDelivery(d) ==
    /\ delivery[d].status = "queued"
    /\ jobs' = jobs \cup {DeliveryJob(d)}
    /\ delivery' = [delivery EXCEPT ![d].deferred = FALSE]
    /\ UNCHANGED <<inst, repo, pull, cands, seen, worker, owner, faults, moves>>

(* Faulty variant: the sweep refreshes through the bound installation only.  *)
SweepBoundRefresh ==
    /\ pull.known /\ pull.due
    /\ jobs' = jobs \cup {RefreshJob(repo.inst)}
    /\ UNCHANGED <<inst, repo, pull, cands, seen, delivery, worker, owner,
                   faults, moves>>

(* Through the recovery binding while there is one.                          *)
SweepRefresh ==
    /\ pull.known /\ pull.due
    /\ jobs' = jobs \cup
         {RefreshJob(IF pull.binding # NoOne THEN pull.binding ELSE repo.inst)}
    /\ UNCHANGED <<inst, repo, pull, cands, seen, delivery, worker, owner,
                   faults, moves>>

---------------------------------------------------------------------------
(* The handlers.                                                             *)

Begin(w, j, i, fence) ==
    worker' = [worker EXCEPT ![w] =
       [Idle EXCEPT !.at = "reading", !.job = j, !.target = i,
                    !.fence = fence]]

(* loadLifecycleAuthorizationFence *)
DeliveryFence(i) ==
    [fresh |-> \/ inst[i].status # "active"
               \/ repo.status # "active"
               \/ repo.inst # i,
     inst |-> inst[i], repo |-> repo]

(* canAuthorizeGithubInstallationWork *)
CanAuthorize(fence) == fence.inst.status \notin {"none", "pending", "removed"}

(* acknowledgeInactiveGithubInstallationDelivery *)
Acknowledged(d) ==
    IF delivery[d].status = "queued"
    THEN [delivery EXCEPT ![d] = [status |-> "processed", deferred |-> FALSE]]
    ELSE delivery

TakeDelivery(d) ==
    /\ DeliveryJob(d) \in jobs /\ worker["leased"].at = "idle"
    /\ jobs' = jobs \ {DeliveryJob(d)}
    /\ IF delivery[d].status # "queued" \/ delivery[d].deferred
       THEN UNCHANGED <<worker, delivery>>
       ELSE LET fence == DeliveryFence(From[d]) IN
            IF CanAuthorize(fence)
            THEN /\ Begin("leased", DeliveryJob(d), From[d], fence)
                 /\ UNCHANGED delivery
            ELSE /\ delivery' = Acknowledged(d)
                 /\ UNCHANGED worker
    /\ UNCHANGED <<inst, repo, pull, cands, seen, owner, faults, moves>>

(* loadRefreshBinding: a job that no longer names the current binding is    *)
(* dropped.                                                                  *)
RefreshCurrent(i) ==
    /\ pull.known
    /\ i = (IF pull.binding # NoOne THEN pull.binding ELSE repo.inst)

RefreshFence(i) ==
    [fresh |-> \/ pull.binding # NoOne
               \/ repo.status # "active"
               \/ inst[repo.inst].status # "active",
     inst |-> inst[i], repo |-> repo]

TakeRefresh(i) ==
    /\ RefreshJob(i) \in jobs /\ worker["leased"].at = "idle"
    /\ jobs' = jobs \ {RefreshJob(i)}
    /\ IF RefreshCurrent(i)
       THEN Begin("leased", RefreshJob(i), i, RefreshFence(i))
       ELSE UNCHANGED worker
    /\ UNCHANGED <<inst, repo, pull, cands, seen, delivery, owner, faults,
                   moves>>

(* A failure leaves the transaction's handler with the job, its installation *)
(* and whether it was authorizing afresh.                                     *)
Fail(w, outcome) ==
    worker' = [worker EXCEPT ![w] =
       [Idle EXCEPT !.at = outcome, !.job = worker[w].job,
                    !.target = worker[w].target,
                    !.fence = [NoFence EXCEPT !.fresh = worker[w].fence.fresh],
                    !.overtaken = outcome = "forbidden" /\ worker[w].overtaken]]

(* GitHub answers the read with the snapshot, or refuses: 403 while the App  *)
(* may not act there, 404 when the repository is not the installation's.    *)
ReadGithub(w) ==
    /\ worker[w].at = "reading"
    /\ IF worker[w].target = owner
       THEN worker' = [worker EXCEPT ![w].at = "read"]
       ELSE \E outcome \in {"forbidden", "rejected"} : Fail(w, outcome)
    /\ UNCHANGED <<inst, repo, pull, cands, seen, delivery, jobs, owner,
                   faults, moves>>

(* Rate limit, timeout, outage. *)
ReadFails(w) ==
    /\ worker[w].at = "reading" /\ faults < MaxFaults
    /\ faults' = faults + 1
    /\ Fail(w, "retry")
    /\ UNCHANGED <<inst, repo, pull, cands, seen, delivery, jobs, owner, moves>>

(* STALE_HEAD while a delivery is read: the fence is loaded again and the    *)
(* current head is read under it.                                            *)
ReloadStaleHead(w) ==
    /\ worker[w].at = "reading" /\ worker[w].job.kind = "delivery"
    /\ faults < MaxFaults
    /\ faults' = faults + 1
    /\ LET fence == DeliveryFence(worker[w].target) IN
       IF CanAuthorize(fence)
       THEN /\ Begin(w, worker[w].job, worker[w].target, fence)
            /\ UNCHANGED delivery
       ELSE /\ delivery' = Acknowledged(worker[w].job.of)
            /\ worker' = [worker EXCEPT ![w] = Idle]
    /\ UNCHANGED <<inst, repo, pull, cands, seen, jobs, owner, moves>>

---------------------------------------------------------------------------
(* processVerifiedPullRequestSnapshotOperation: the fenced transaction.     *)

BindingMoved(w) ==
    LET f == worker[w].fence IN
    f.repo.status # "none" /\ f.repo.inst # worker[w].target

(* The recovery winner is still the binding and still a candidate. *)
RecoveryWins(i) ==
    pull.known /\ pull.binding = i /\ i \in ToSet(cands)

ReactivatesInstallation(w) ==
    worker[w].fence.fresh /\ worker[w].fence.inst.status = "suspended"

InstallationFenced(w) ==
    LET i == worker[w].target IN
    /\ inst[i].status \notin {"none", "removed", "pending"}
    /\ inst[i] = worker[w].fence.inst
    /\ inst[i].status = "active" \/ ReactivatesInstallation(w)

ReactivatesRepository(w) ==
    LET f == worker[w].fence IN
    f.fresh /\ f.repo.status # "none"
    /\ (f.repo.status # "active" \/ BindingMoved(w))

(* Faulty variant: the repository's version is not compared with the fence. *)
RepositoryUnfenced(w) ==
    \/ repo.status = "none"
    \/ repo.status = "active" /\ repo.inst = worker[w].target
    \/ ReactivatesRepository(w)

RepositoryFenced(w) ==
    LET i == worker[w].target
        f == worker[w].fence.repo
        same == repo.status = "active" /\ repo.inst = i
    IN  IF repo.status = "none" THEN TRUE
        ELSE IF f.status = "none" THEN same
        ELSE repo = f /\ (same \/ ReactivatesRepository(w))

(* A delivery's row is settled by the same transaction, which fails when it  *)
(* is no longer queued.                                                      *)
DeliveryOpen(w) ==
    worker[w].job.kind = "delivery" =>
        delivery[worker[w].job.of].status = "queued"

Recovers(w) == worker[w].fence.fresh /\ BindingMoved(w)

Verdict(w) ==
    IF Recovers(w) /\ ~RecoveryWins(worker[w].target) THEN "retry"
    ELSE IF ~InstallationFenced(w) THEN "inactive"
    ELSE IF ~RepositoryFenced(w) \/ ~DeliveryOpen(w) THEN "retry"
    ELSE "commit"

CommitRows(w) ==
    LET i == worker[w].target IN
    /\ inst' = [inst EXCEPT ![i] =
         IF @.status = "active" THEN @
         ELSE InstallationRow("active", @.version + 1)]
    /\ repo' = IF repo.status = "active" /\ repo.inst = i THEN repo
               ELSE RepositoryRow(i, "active", repo.version + 1)
    /\ pull' = [known |-> TRUE, due |-> TRUE,
                binding |-> IF pull.binding = i THEN NoOne ELSE pull.binding]
    /\ cands' = <<>>
    /\ delivery' = IF worker[w].job.kind = "delivery"
                   THEN Acknowledged(worker[w].job.of) ELSE delivery

Commit(w) ==
    /\ worker[w].at = "read" /\ Verdict(w) = "commit"
    /\ CommitRows(w)
    /\ worker' = [worker EXCEPT ![w] = Idle]
    /\ UNCHANGED <<seen, jobs, owner, faults, moves>>

(* The transaction rolls back; the handler settles the failure separately.  *)
Rollback(w) ==
    /\ worker[w].at = "read" /\ Verdict(w) # "commit"
    /\ Fail(w, Verdict(w))
    /\ UNCHANGED <<inst, repo, pull, cands, seen, delivery, jobs, owner,
                   faults, moves>>

(* handleGithubPullRequestFailure, and the acknowledgement of a delivery     *)
(* whose installation is reported inactive.                                  *)
SettleDelivery(w) ==
    /\ worker[w].at \in {"inactive", "retry", "forbidden", "rejected"}
    /\ worker[w].job.kind = "delivery"
    /\ LET d == worker[w].job.of IN
       delivery' =
         IF delivery[d].status # "queued" THEN delivery
         ELSE CASE worker[w].at = "inactive" -> Acknowledged(d)
                [] worker[w].at = "retry" ->
                     [delivery EXCEPT ![d].deferred = TRUE]
                [] worker[w].at \in {"forbidden", "rejected"} ->
                     [delivery EXCEPT ![d] =
                        [status |-> "permanent_failure", deferred |-> FALSE]]
    /\ worker' = [worker EXCEPT ![w] = Idle]
    /\ UNCHANGED <<inst, repo, pull, cands, seen, jobs, owner, faults, moves>>

Discard(i) ==
    LET left == Without(cands, i) IN
    /\ cands' = left
    /\ pull' = PromoteNext(pull, i, left)

(* resolveForbiddenGithubRecoveryCandidate: a 403 discards the candidate     *)
(* unless the lifecycle rows say suspended: then it stays parked, or due     *)
(* again when an unsuspend came in between.                                  *)
KeepsForbiddenCandidate(i) ==
    /\ repo.status # "removed" /\ inst[i].status \notin {"removed", "none"}
    /\ repo.status = "suspended" \/ inst[i].status = "suspended"

ResolveForbidden(i) ==
    IF \/ pull.binding # i \/ i \notin ToSet(cands)
       \/ KeepsForbiddenCandidate(i)
    THEN UNCHANGED <<cands, pull>>
    ELSE Discard(i)

SettleRefresh(w) ==
    /\ worker[w].at \in {"inactive", "retry", "forbidden", "rejected"}
    /\ worker[w].job.kind = "refresh"
    /\ LET i == worker[w].target
           fresh == worker[w].fence.fresh
       IN  CASE fresh /\ worker[w].at = "forbidden" -> ResolveForbidden(i)
             [] fresh /\ worker[w].at = "rejected" -> Discard(i)
             [] OTHER -> /\ pull' = [pull EXCEPT !.due = TRUE]
                         /\ UNCHANGED cands
    /\ worker' = [worker EXCEPT ![w] = Idle]
    /\ UNCHANGED <<inst, repo, seen, delivery, jobs, owner, faults, moves>>

---------------------------------------------------------------------------
(* The environment.                                                          *)

(* A job dies with its process or its retries run out. *)
LoseJob ==
    /\ worker["leased"].at # "idle" /\ faults < MaxFaults
    /\ faults' = faults + 1
    /\ worker' = [worker EXCEPT !["leased"] = Idle]
    /\ UNCHANGED <<inst, repo, pull, cands, seen, delivery, jobs, owner, moves>>

(* The lease expires under a handler that already has GitHub's answer: the   *)
(* queue goes on without it. (Lost earlier, the answer would only be newer.) *)
LoseLease ==
    /\ worker["leased"].at \in {"read", "forbidden"}
    /\ worker["expired"].at = "idle"
    /\ faults < MaxFaults
    /\ faults' = faults + 1
    /\ worker' = [w \in Workers |->
                    IF w = "leased" THEN Idle ELSE worker["leased"]]
    /\ UNCHANGED <<inst, repo, pull, cands, seen, delivery, jobs, owner, moves>>

(* The repository is transferred, or the App may no longer act there. *)
Move(i) ==
    /\ moves < MaxMoves /\ i # owner
    /\ moves' = moves + 1
    /\ owner' = i
    /\ UNCHANGED <<inst, repo, pull, cands, seen, delivery, jobs, worker,
                   faults>>

Handle(w) ==
    \/ ReadGithub(w) \/ Commit(w) \/ Rollback(w)
    \/ SettleDelivery(w) \/ SettleRefresh(w)

Disturb(w) ==
    ReadFails(w) \/ ReloadStaleHead(w)

Next ==
    \/ \E e \in Events : IngestLifecycle(e)
    \/ \E d \in PullEvents :
         IngestPullRequest(d) \/ SweepDelivery(d) \/ TakeDelivery(d)
    \/ \E i \in Installations : TakeRefresh(i)
    \/ SweepRefresh \/ LoseJob \/ LoseLease
    \/ \E w \in Workers : Handle(w) \/ Disturb(w)
    \/ \E i \in Installations : Move(i)

Spec == Init /\ [][Next]_vars

(* The sweeps run on a timer, the clock advances, and the queue's consumers  *)
(* and the requests they wait for finish. GitHub owes us nothing.            *)
Fairness ==
    /\ \A d \in PullEvents :
         WF_vars(SweepDelivery(d)) /\ SF_vars(TakeDelivery(d))
    /\ WF_vars(SweepRefresh)
    /\ \A i \in Installations : SF_vars(TakeRefresh(i))
    /\ \A w \in Workers : WF_vars(Handle(w))

FairSpec == Spec /\ Fairness

---------------------------------------------------------------------------
(* Properties.                                                               *)

(* A repository row is active only under an active installation: suspend,    *)
(* removal, rebinding and reactivation change the two rows in one step       *)
(* (ingest.ts applyInstallationEvent, service.ts installation and repository *)
(* upserts).                                                                 *)
ActiveRepositoryHasActiveInstallation ==
    repo.status = "active" => inst[repo.inst].status = "active"

(* A row is never reactivated or rebound by a handler whose fence was loaded *)
(* before a suspension, removal or deletion of it was applied (the version   *)
(* checks of the two upserts and the recovery-winner query of service.ts).   *)
Reactivates ==
    \/ repo'.status = "active" /\ (repo.status # "active" \/ repo'.inst # repo.inst)
    \/ \E i \in Installations :
         inst'[i].status = "active" /\ inst[i].status = "suspended"
ReactivationIsFresh ==
    [][ \A w \in Workers :
          Commit(w) /\ Reactivates => ~worker[w].overtaken ]_vars

(* A settled delivery is never reopened, by a redelivery, a sweep or a       *)
(* handler that lost its lease (service.ts reserveWebhookDelivery,           *)
(* control.ts scheduleGithubPullRequestRetry).                               *)
SettledDeliveryIsFinal ==
    [][ \A d \in PullEvents :
          delivery[d].status \in {"processed", "ignored", "permanent_failure"}
            => delivery'[d].status = delivery[d].status ]_vars

(* Every accepted delivery is settled in spite of lost jobs, unless its      *)
(* installation owns a repository that is still bound to another one and     *)
(* that no recovery candidate will rebind (control.ts                        *)
(* sweepDueGithubPullRequestDeliveries).                                     *)
AwaitsRecovery(d) ==
    /\ owner = From[d] /\ repo.inst # From[d]
    /\ pull.binding # From[d] \/ From[d] \notin ToSet(cands)
DeliverySettles ==
    \A d \in PullEvents :
        (delivery[d].status = "queued")
          ~> (delivery[d].status # "queued" \/ AwaitsRecovery(d))

(* A recovery candidate that is the binding of an installation still active  *)
(* is tried until it takes the repository over or is discarded for the next  *)
(* one: it does not wait for ever (control.ts                                *)
(* sweepDueGithubPullRequestRefreshes, discardGithubRecoveryCandidate).      *)
CandidateIsDecided ==
    \A i \in Installations :
        []<>~(/\ pull.binding = i /\ i \in ToSet(cands)
              /\ inst[i].status = "active" /\ repo.status # "suspended")

(* Installation, repository and pull request rows agree after any order of   *)
(* webhooks, transfers and refreshes (ingest.ts, service.ts).                *)
ControlInv == TypeOK /\ ActiveRepositoryHasActiveInstallation

(* What an overtaken or late handler must not undo: a suspension or removal  *)
(* of the rows it has locked no longer, and the end of a delivery            *)
(* (service.ts, control.ts).                                                 *)
FencesHold == ReactivationIsFresh /\ SettledDeliveryIsFinal

(* Deliveries and recovery candidates are worked off although jobs are lost  *)
(* (the two sweeps of control.ts).                                           *)
GithubWorkEnds == DeliverySettles /\ CandidateIsDecided
============================================================================
