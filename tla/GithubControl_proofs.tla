------------------------- MODULE GithubControl_proofs -------------------------
(***************************************************************************)
(* Proofs about GithubControl for any installations, lifecycle events and  *)
(* pull request deliveries, and any bound on faults and transfers.         *)
(***************************************************************************)
EXTENDS GithubControl, SequenceTheorems, TLAPS

USE EventsAssumption, ControlBoundsAssumption

-----------------------------------------------------------------------------
(* The invariant.  Rows only move forward: a version grows with every       *)
(* change, a row that exists stays, and a removed installation stays        *)
(* removed.  So a fence that an applied event outdated never matches again.  *)

\* A handler that may still commit under its fence.
Fenced(w) == worker[w].at \in {"reading", "read"}

\* The fence was read from the rows.
FencesArePast ==
  \A w \in Workers : Fenced(w) =>
    LET i == worker[w].target
        f == worker[w].fence
    IN  /\ f.inst.status = "none" \/ f.inst.version <= inst[i].version
        /\ inst[i].status = "none" => f.inst.status = "none"
        /\ f.repo.version <= repo.version
        /\ f.repo.status # "none"

\* A handler with a job works for an installation.
HandlersHaveTargets ==
  \A w \in Workers : worker[w].at # "idle" => worker[w].target \in Installations

\* A fence that was overtaken differs from the rows for good.
OvertakenIsBehind ==
  \A w \in Workers : Fenced(w) /\ worker[w].overtaken =>
    LET i == worker[w].target
        f == worker[w].fence
    IN  \/ f.inst.status = "none"
        \/ inst[i].status = "removed"
        \/ f.inst.version < inst[i].version
        \/ f.repo.version < repo.version

\* The inductive invariant.
ControlIInv ==
  /\ TypeOK
  /\ ActiveRepositoryHasActiveInstallation
  /\ HandlersHaveTargets
  /\ FencesArePast
  /\ OvertakenIsBehind

\* TypeOK in parts that are preserved separately.
RowTypes ==
  /\ inst \in [Installations -> [status : Statuses, version : Nat]]
  /\ repo \in [inst : Installations,
               status : {"active", "suspended", "removed"}, version : Nat]
CandidateTypes == cands \in Seq(Installations) /\ IsInjective(cands)
PullRows == [known : BOOLEAN, binding : Installations \cup {NoOne}, due : BOOLEAN]
PullTypes == pull \in PullRows
DeliveryTypes ==
  delivery \in [PullEvents ->
    [status : {"none", "queued", "processed", "ignored", "permanent_failure"},
     deferred : BOOLEAN]]
JobTypes == jobs \subseteq Jobs
HandlerTypes == worker \in [Workers -> Handlers]
CountTypes ==
  /\ seen \subseteq Events /\ owner \in Installations
  /\ faults \in 0..MaxFaults /\ moves \in 0..MaxMoves

\* The parts together are the type invariant.
LEMMA TypeParts ==
  TypeOK <=> /\ RowTypes /\ CandidateTypes /\ PullTypes /\ DeliveryTypes
             /\ JobTypes /\ HandlerTypes /\ CountTypes
BY DEF TypeOK, RowTypes, CandidateTypes, PullTypes, PullRows, DeliveryTypes,
       JobTypes, HandlerTypes, CountTypes

-----------------------------------------------------------------------------
(* Facts about the operators.                                               *)

\* Deleting one candidate leaves the others in order and different.
LEMMA WithoutType ==
  ASSUME NEW list \in Seq(Installations), IsInjective(list), NEW i \in Installations
  PROVE  /\ Without(list, i) \in Seq(Installations)
         /\ IsInjective(Without(list, i))
<1>1. CASE ~ \E k \in 1..Len(list) : list[k] = i
  BY <1>1 DEF Without, RemoveFirst
<1>2. CASE \E k \in 1..Len(list) : list[k] = i
  <2>1. PICK k \in 1..Len(list) : list[k] = i
    BY <1>2
  <2>2. {j \in 1..Len(list) : list[j] = i} = {k}
    BY <2>1 DEF IsInjective
  <2>3. Min({k}) = k
    BY <2>1 DEF Min
  <2>4. Without(list, i) = RemoveAt(list, k)
    BY <1>2, <2>1, <2>2, <2>3 DEF Without, RemoveFirst, SelectInSeq
  <2>5. RemoveAt(list, k) \in Seq(Installations) /\ IsInjective(RemoveAt(list, k))
    <3> DEFINE n == Len(list)
               a == SubSeq(list, 1, k - 1)
               b == SubSeq(list, k + 1, n)
    <3>1. list \in Seq(Installations) /\ n \in Nat /\ k \in 1..n
      BY <2>1
    <3>2. a \in Seq(Installations) /\ Len(a) = k - 1 /\ \A j \in 1..(k - 1) : a[j] = list[j]
      BY <3>1
    <3>3. b \in Seq(Installations) /\ Len(b) = n - k /\ \A j \in 1..(n - k) : b[j] = list[k + j]
      BY <3>1
    <3>4. RemoveAt(list, k) = a \o b
      BY DEF RemoveAt
    <3> HIDE DEF a, b, n
    <3> DEFINE m(j) == IF j < k THEN j ELSE j + 1
    <3>5. /\ a \o b \in Seq(Installations) /\ Len(a \o b) = n - 1
          /\ \A j \in 1..(n - 1) : m(j) \in 1..n /\ (a \o b)[j] = list[m(j)]
      <4>1. a \o b \in Seq(Installations) /\ Len(a \o b) = n - 1
        <5>1. a \o b \in Seq(Installations) /\ Len(a \o b) = Len(a) + Len(b)
          BY <3>2, <3>3, ConcatProperties
        <5>2. Len(a) + Len(b) = n - 1
          BY <3>1, <3>2, <3>3
        <5> QED
          BY <5>1, <5>2
      <4>2. ASSUME NEW j \in 1..(n - 1) PROVE m(j) \in 1..n /\ (a \o b)[j] = list[m(j)]
        <5>1. CASE j < k
          BY <3>1, <3>2, <3>3, <5>1
        <5>2. CASE ~(j < k)
          <6>1. (a \o b)[j] = b[j - (k - 1)]
            BY <3>1, <3>2, <3>3, <5>2, ConcatProperties
          <6>2. j - (k - 1) \in 1..(n - k) /\ k + (j - (k - 1)) = j + 1
            BY <3>1, <5>2
          <6> QED
            BY <3>1, <3>3, <5>2, <6>1, <6>2
        <5> QED
          BY <5>1, <5>2
      <4> QED
        BY <4>1, <4>2
    <3>6. \A j, l \in 1..n : list[j] = list[l] => j = l
      BY <3>1 DEF IsInjective, n
    <3>7. ASSUME NEW j \in 1..(n - 1), NEW l \in 1..(n - 1), (a \o b)[j] = (a \o b)[l]
          PROVE  j = l
      <4>1. m(j) = m(l)
        <5>1. m(j) \in 1..n /\ m(l) \in 1..n /\ list[m(j)] = list[m(l)]
          BY <3>5, <3>7
        <5> HIDE DEF m
        <5> QED
          BY <3>6, <5>1
      <4> QED
        BY <3>1, <4>1
    <3>8. DOMAIN (a \o b) = 1..(n - 1)
      BY <3>1, <3>5
    <3>9. IsInjective(a \o b)
      BY <3>7, <3>8 DEF IsInjective
    <3> QED
      BY <3>4, <3>5, <3>9
  <2> QED
    BY <2>4, <2>5
<1> QED
  BY <1>1, <1>2

\* A new candidate goes to the end, and one of the others when there are too many
\* (persistRepositoryRecoveryBindings).
LEMMA KeptType ==
  ASSUME CandidateTypes, NEW i \in Installations, i \notin ToSet(cands), NEW binding
  PROVE  /\ Kept(Append(cands, i), binding) \in Seq(Installations)
         /\ IsInjective(Kept(Append(cands, i), binding))
<1> DEFINE list == Append(cands, i)
<1>1. list \in Seq(Installations) /\ IsInjective(list)
  BY DEF CandidateTypes, IsInjective, ToSet
<1> HIDE DEF list
<1>2. CASE Len(list) <= MaxCandidates
  BY <1>1, <1>2 DEF Kept, list
<1>3. CASE ~(Len(list) <= MaxCandidates)
  <2>1. Len(list) \in Nat /\ Len(list) > 1 /\ list # <<>>
    BY <1>1, <1>3
  <2>2. Head(list) \in Installations /\ list[2] \in Installations
    BY <1>1, <2>1
  <2>3. PICK j \in Installations : Kept(list, binding) = Without(list, j)
    BY <1>3, <2>2 DEF Kept
  <2>4. Without(list, j) \in Seq(Installations) /\ IsInjective(Without(list, j))
    BY <1>1, WithoutType
  <2> QED
    BY <2>3, <2>4 DEF list
<1> QED
  BY <1>2, <1>3

\* The row after an upsert exists, does not leave "removed", and is newer unless
\* the conflict clause refused it (upsertInstallation).
LEMMA UpsertInstallationMoves ==
  ASSUME RowTypes, NEW i \in Installations,
         NEW s \in {"active", "pending", "suspended", "removed"}, NEW promote \in BOOLEAN
  PROVE  LET row == UpsertInstallation(i, s, promote) IN
         /\ row \in [status : Statuses, version : Nat]
         /\ row.status # "none"
         /\ inst[i].status = "removed" => row.status = "removed"
         /\ inst[i].status = "none" \/ inst[i].version <= row.version
         /\ s \in {"active", "pending"} /\ inst[i].status = "active" => row.status = "active"
         /\ s \in {"suspended", "removed"} /\ ~UpsertRefused(i, s, promote) =>
              /\ row.status = s
              /\ inst[i].status = "none" \/ inst[i].version < row.version
         /\ s = "removed" => ~UpsertRefused(i, s, promote)
BY DEF RowTypes, UpsertInstallation, UpsertRefused, InstallationRow, Statuses

-----------------------------------------------------------------------------
(* The rows.                                                                *)

\* Rows only move forward.
RowsMove ==
  /\ \A j \in Installations :
       /\ inst[j].status # "none" =>
            inst'[j].status # "none" /\ inst[j].version <= inst'[j].version
       /\ inst[j].status = "removed" => inst'[j].status = "removed"
  /\ repo.version <= repo'.version

\* The event at installation i outdates the fences that Overtake marks.
Outdates(i, changed) ==
  /\ \/ inst[i].status = "none"
     \/ inst'[i].status = "removed"
     \/ inst[i].version < inst'[i].version
  /\ changed => repo.version < repo'.version

\* What a lifecycle delivery does to the rows.
RowsAdvance(i) ==
  /\ RowTypes' /\ ActiveRepositoryHasActiveInstallation' /\ RowsMove
  /\ \/ UNCHANGED worker
     \/ \E changed \in BOOLEAN : worker' = Overtake(i, changed) /\ Outdates(i, changed)

\* Every lifecycle delivery is one of five handlers (applyInstallationEvent,
\* applyInstallationRepositoriesEvent).
LEMMA LifecycleCases ==
  ASSUME NEW e \in Events, IngestLifecycle(e)
  PROVE  /\ e.from \in Installations
         /\ \/ Suspend(e.from) \/ Deleted(e.from) \/ Added(e.from) \/ Removed(e.from)
            \/ \E kind \in {"created", "unsuspend"} : Announced(e.from, kind)
         /\ UNCHANGED <<delivery, jobs, owner, faults, moves>>
<1>1. e.from \in Installations /\ e.kind \in LifecycleKinds
  OBVIOUS
<1>2. e.kind \in {"created", "deleted", "suspend", "unsuspend", "added", "removed"}
  BY <1>1 DEF LifecycleKinds
<1>3. CASE e.kind = "suspend"
  BY <1>1, <1>3 DEF IngestLifecycle
<1>4. CASE e.kind = "deleted"
  BY <1>1, <1>4 DEF IngestLifecycle
<1>5. CASE e.kind \in {"created", "unsuspend"}
  BY <1>1, <1>5 DEF IngestLifecycle
<1>6. CASE e.kind = "added"
  BY <1>1, <1>6 DEF IngestLifecycle
<1>7. CASE e.kind = "removed"
  BY <1>1, <1>7 DEF IngestLifecycle
<1> QED
  BY <1>2, <1>3, <1>4, <1>5, <1>6, <1>7

\* A suspension takes the active repository with it.
LEMMA SuspendAdvances ==
  ASSUME RowTypes, ActiveRepositoryHasActiveInstallation,
         NEW i \in Installations, Suspend(i)
  PROVE  RowsAdvance(i)
<1> DEFINE row == UpsertInstallation(i, "suspended", FALSE)
           applied == ~UpsertRefused(i, "suspended", FALSE)
           hit == applied /\ repo.inst = i /\ repo.status = "active"
<1>1. /\ row \in [status : Statuses, version : Nat]
      /\ row.status # "none"
      /\ inst[i].status = "removed" => row.status = "removed"
      /\ inst[i].status = "none" \/ inst[i].version <= row.version
      /\ applied => /\ row.status = "suspended"
                    /\ inst[i].status = "none" \/ inst[i].version < row.version
  BY UpsertInstallationMoves
<1>2. /\ inst' = [inst EXCEPT ![i] = row]
      /\ repo' = IF hit THEN RepositoryRow(i, "suspended", repo.version + 1) ELSE repo
      /\ worker' = IF applied THEN Overtake(i, hit) ELSE worker
  BY DEF Suspend
<1>3. ~applied => row = inst[i]
  BY DEF UpsertInstallation, UpsertRefused
<1> HIDE DEF row, applied
<1>4. RowTypes'
  BY <1>1, <1>2 DEF RowTypes, RepositoryRow
<1>5. ActiveRepositoryHasActiveInstallation'
  BY <1>1, <1>2, <1>3 DEF RowTypes, RepositoryRow,
      ActiveRepositoryHasActiveInstallation
<1>6. RowsMove
  BY <1>1, <1>2 DEF RowTypes, RepositoryRow, RowsMove
<1>7. hit \in BOOLEAN /\ (applied => Outdates(i, hit))
  BY <1>1, <1>2 DEF RowTypes, RepositoryRow, Outdates
<1> QED
  BY <1>2, <1>4, <1>5, <1>6, <1>7 DEF RowsAdvance

\* A deletion removes the repository of the installation.
LEMMA DeletedAdvances ==
  ASSUME RowTypes, ActiveRepositoryHasActiveInstallation,
         NEW i \in Installations, Deleted(i)
  PROVE  RowsAdvance(i)
<1> DEFINE row == UpsertInstallation(i, "removed", FALSE)
           hit == repo.inst = i /\ repo.status # "removed"
<1>1. /\ row \in [status : Statuses, version : Nat]
      /\ row.status = "removed"
      /\ inst[i].status = "none" \/ inst[i].version < row.version
  BY UpsertInstallationMoves
<1>2. /\ inst' = [inst EXCEPT ![i] = row]
      /\ repo' = IF hit THEN RepositoryRow(i, "removed", repo.version + 1) ELSE repo
      /\ worker' = Overtake(i, hit)
  BY DEF Deleted
<1> HIDE DEF row
<1>3. RowTypes'
  BY <1>1, <1>2 DEF RowTypes, RepositoryRow
<1>4. ActiveRepositoryHasActiveInstallation'
  BY <1>1, <1>2 DEF RowTypes, RepositoryRow, ActiveRepositoryHasActiveInstallation
<1>5. RowsMove
  BY <1>1, <1>2 DEF RowTypes, RepositoryRow, RowsMove
<1>6. hit \in BOOLEAN /\ Outdates(i, hit)
  BY <1>1, <1>2 DEF RowTypes, RepositoryRow, Outdates
<1> QED
  BY <1>2, <1>3, <1>4, <1>5, <1>6 DEF RowsAdvance

\* An announced or added repository is active only under an active row.
LEMMA AnnouncedAdvances ==
  ASSUME RowTypes, ActiveRepositoryHasActiveInstallation, NEW i \in Installations,
         Added(i) \/ \E kind \in {"created", "unsuspend"} : Announced(i, kind)
  PROVE  RowsAdvance(i)
<1>1. PICK promote \in BOOLEAN :
        LET row == UpsertInstallation(i, TenantStatus(i), promote) IN
        /\ inst' = [inst EXCEPT ![i] = row]
        /\ repo' = IF row.status = "active" THEN UpsertRepository(i) ELSE repo
        /\ UNCHANGED worker
  <2>1. ASSUME NEW kind \in {"created", "unsuspend"}, Announced(i, kind)
        PROVE  \E promote \in BOOLEAN :
                 LET row == UpsertInstallation(i, TenantStatus(i), promote) IN
                 /\ inst' = [inst EXCEPT ![i] = row]
                 /\ repo' = IF row.status = "active" THEN UpsertRepository(i) ELSE repo
                 /\ UNCHANGED worker
    BY <2>1 DEF Announced
  <2>2. ASSUME Added(i)
        PROVE  \E promote \in BOOLEAN :
                 LET row == UpsertInstallation(i, TenantStatus(i), promote) IN
                 /\ inst' = [inst EXCEPT ![i] = row]
                 /\ repo' = IF row.status = "active" THEN UpsertRepository(i) ELSE repo
                 /\ UNCHANGED worker
    <3> DEFINE p == TenantStatus(i) = "active"
               row == UpsertInstallation(i, TenantStatus(i), p)
    <3>1. inst' = [inst EXCEPT ![i] = row] /\ UNCHANGED worker
      BY <2>2 DEF Added
    <3>2. repo' = IF row.status = "active" THEN UpsertRepository(i) ELSE repo
      BY <2>2 DEF Added
    <3>3. p \in BOOLEAN
      OBVIOUS
    <3> HIDE DEF p
    <3> QED
      BY <3>1, <3>2, <3>3
  <2> QED
    BY <2>1, <2>2
<1> DEFINE row == UpsertInstallation(i, TenantStatus(i), promote)
<1>2. /\ inst' = [inst EXCEPT ![i] = row]
      /\ repo' = IF row.status = "active" THEN UpsertRepository(i) ELSE repo
      /\ UNCHANGED worker
  BY <1>1
<1>3. TenantStatus(i) \in {"active", "pending"}
  BY DEF TenantStatus
<1>4. /\ row \in [status : Statuses, version : Nat]
      /\ row.status # "none"
      /\ inst[i].status = "removed" => row.status = "removed"
      /\ inst[i].status = "none" \/ inst[i].version <= row.version
      /\ inst[i].status = "active" => row.status = "active"
  BY <1>3, UpsertInstallationMoves
<1>5. UpsertRepository(i) = IF repo.inst = i THEN [repo EXCEPT !.version = @ + 1] ELSE repo
  BY DEF UpsertRepository, RowTypes
<1> HIDE DEF row
<1>6. RowTypes'
  BY <1>2, <1>4, <1>5 DEF RowTypes
<1>7. ActiveRepositoryHasActiveInstallation'
  BY <1>2, <1>4, <1>5 DEF RowTypes, ActiveRepositoryHasActiveInstallation
<1>8. RowsMove
  BY <1>2, <1>4, <1>5 DEF RowTypes, RowsMove
<1> QED
  BY <1>2, <1>6, <1>7, <1>8 DEF RowsAdvance

\* A removed repository is removed under its own installation only.
LEMMA RemovedAdvances ==
  ASSUME RowTypes, ActiveRepositoryHasActiveInstallation,
         NEW i \in Installations, Removed(i)
  PROVE  RowsAdvance(i)
<1> DEFINE hit == inst[i].status # "removed" /\ repo.inst = i
           row == IF inst[i].status = "none" THEN InstallationRow("pending", 0)
                  ELSE IF inst[i].status = "removed" THEN inst[i]
                  ELSE InstallationRow(inst[i].status, inst[i].version + 1)
<1>1. /\ inst' = [inst EXCEPT ![i] = row]
      /\ repo' = IF hit THEN RepositoryRow(i, "removed", repo.version + 1) ELSE repo
      /\ worker' = Overtake(i, hit)
  <2>1. repo.status # "none"
    BY DEF RowTypes
  <2>2. repo' = IF hit THEN RepositoryRow(i, "removed", repo.version + 1) ELSE repo
    BY <2>1 DEF Removed
  <2>3. worker' = Overtake(i, hit)
    <3> DEFINE full == inst[i].status # "removed" /\ (repo.inst = i \/ repo.status = "none")
    <3>1. worker' = Overtake(i, full)
      BY DEF Removed
    <3>2. full = hit
      BY <2>1
    <3> QED
      BY <3>1, <3>2, Zenon
  <2>4. inst' = [inst EXCEPT ![i] = row]
    BY DEF Removed
  <2> QED
    BY <2>2, <2>3, <2>4
<1>2. /\ row \in [status : Statuses, version : Nat]
      /\ row.status # "none"
      /\ inst[i].status # "none" => row.status = inst[i].status /\ inst[i].version <= row.version
      /\ inst[i].status \notin {"none", "removed"} => inst[i].version < row.version
  BY DEF RowTypes, InstallationRow, Statuses
<1> HIDE DEF row
<1>3. RowTypes'
  BY <1>1, <1>2 DEF RowTypes, RepositoryRow
<1>4. ActiveRepositoryHasActiveInstallation'
  BY <1>1, <1>2 DEF RowTypes, RepositoryRow, ActiveRepositoryHasActiveInstallation
<1>5. RowsMove
  BY <1>1, <1>2 DEF RowTypes, RepositoryRow, RowsMove
<1>6. hit \in BOOLEAN /\ Outdates(i, hit)
  BY <1>1, <1>2 DEF RowTypes, RepositoryRow, Outdates
<1> QED
  BY <1>1, <1>3, <1>4, <1>5, <1>6 DEF RowsAdvance

\* A commit activates the two rows together, under the fence it loaded.
LEMMA CommitAdvances ==
  ASSUME RowTypes, ActiveRepositoryHasActiveInstallation, HandlersHaveTargets,
         NEW w \in Workers, Commit(w)
  PROVE  RowTypes' /\ ActiveRepositoryHasActiveInstallation' /\ RowsMove
<1> DEFINE i == worker[w].target
<1>1. i \in Installations
  BY DEF HandlersHaveTargets, Commit
<1>2. Verdict(w) = "commit" /\ CommitRows(w)
  BY DEF Commit
<1>3. InstallationFenced(w)
  BY <1>2 DEF Verdict
<1>4. inst[i].status \notin {"none", "removed", "pending"}
  BY <1>3 DEF InstallationFenced
<1>5. /\ inst' = [inst EXCEPT ![i] = IF inst[i].status = "active" THEN inst[i]
                                     ELSE InstallationRow("active", inst[i].version + 1)]
      /\ repo' = IF repo.status = "active" /\ repo.inst = i THEN repo
                 ELSE RepositoryRow(i, "active", repo.version + 1)
  BY <1>2 DEF CommitRows
<1> HIDE DEF i
<1>6. RowTypes'
  BY <1>1, <1>5 DEF RowTypes, InstallationRow, RepositoryRow, Statuses
<1>7. ActiveRepositoryHasActiveInstallation'
  BY <1>1, <1>5 DEF RowTypes, InstallationRow, RepositoryRow,
      ActiveRepositoryHasActiveInstallation
<1>8. RowsMove
  BY <1>1, <1>4, <1>5 DEF RowTypes, InstallationRow, RepositoryRow, RowsMove
<1> QED
  BY <1>6, <1>7, <1>8

-----------------------------------------------------------------------------
(* The pull request and its candidates.                                     *)

\* Parking, waking and promoting keep the row a row.
LEMMA PullRowTypes ==
  ASSUME NEW p \in PullRows, NEW i \in Installations, NEW left \in Seq(Installations)
  PROVE  /\ ParkRefresh(p, i) \in PullRows
         /\ WakeRefresh(p, i) \in PullRows
         /\ PromoteNext(p, i, left) \in PullRows
<1>1. left # <<>> => Head(left) \in Installations
  OBVIOUS
<1>2. (left # <<>>) \in BOOLEAN
  OBVIOUS
<1> DEFINE head == IF left = <<>> THEN NoOne ELSE Head(left)
           due == left # <<>>
<1>3. head \in Installations \cup {NoOne} /\ due \in BOOLEAN
  BY <1>1, <1>2
<1>4. PromoteNext(p, i, left) = IF p.binding # i THEN p
                                ELSE [p EXCEPT !.binding = head, !.due = due]
  BY DEF PromoteNext
<1> HIDE DEF head, due
<1>5. PromoteNext(p, i, left) \in PullRows
  BY <1>3, <1>4 DEF PullRows
<1> QED
  BY <1>5 DEF PullRows, ParkRefresh, WakeRefresh

\* Every lifecycle handler keeps the pull request and its candidates.
LEMMA LifecyclePullTypes ==
  ASSUME CandidateTypes, PullTypes, NEW i \in Installations,
         \/ Suspend(i) \/ Deleted(i) \/ Added(i) \/ Removed(i)
         \/ \E kind \in {"created", "unsuspend"} : Announced(i, kind)
  PROVE  CandidateTypes' /\ PullTypes'
<1>1. CASE Suspend(i)
  <2>1. ParkRefresh(pull, i) \in PullRows
    BY PullRowTypes, EmptySeq DEF PullTypes
  <2>2. (pull' = ParkRefresh(pull, i) \/ pull' = pull) /\ cands' = cands
    BY <1>1 DEF Suspend
  <2> QED
    BY <2>1, <2>2 DEF CandidateTypes, PullTypes
<1>2. CASE Deleted(i)
  <2>1. Without(cands, i) \in Seq(Installations) /\ IsInjective(Without(cands, i))
    BY WithoutType DEF CandidateTypes
  <2>2. ParkRefresh(pull, i) \in PullRows
    BY PullRowTypes, EmptySeq DEF PullTypes
  <2>3. PromoteNext(ParkRefresh(pull, i), i, Without(cands, i)) \in PullRows
    BY <2>1, <2>2, PullRowTypes
  <2>4. cands' = Without(cands, i) /\ pull' = PromoteNext(ParkRefresh(pull, i), i, Without(cands, i))
    BY <1>2 DEF Deleted
  <2> QED
    BY <2>1, <2>3, <2>4 DEF CandidateTypes, PullTypes
<1>3. CASE Added(i)
  <2>1. CandidateTypes'
    <3>1. cands' = cands \/ (i \notin ToSet(cands) /\ cands' = Kept(Append(cands, i), pull'.binding))
      BY <1>3 DEF Added
    <3> QED
      BY <3>1, KeptType DEF CandidateTypes
  <2>2. PullTypes'
    <3>1. \/ pull' = pull
          \/ \E j \in {pull.binding, i} :
               pull' = [pull EXCEPT !.binding = j, !.due = TRUE]
      BY <1>3 DEF Added
    <3> QED
      BY <3>1 DEF PullTypes, PullRows
  <2> QED
    BY <2>1, <2>2
<1>4. CASE Removed(i)
  <2>1. Without(cands, i) \in Seq(Installations) /\ IsInjective(Without(cands, i))
    BY WithoutType DEF CandidateTypes
  <2>2. PromoteNext(pull, i, Without(cands, i)) \in PullRows
    BY <2>1, PullRowTypes DEF PullTypes
  <2>3. ParkRefresh(PromoteNext(pull, i, Without(cands, i)), i) \in PullRows
    BY <2>1, <2>2, PullRowTypes
  <2>4. cands' = Without(cands, i)
    BY <1>4 DEF Removed
  <2>5. \/ pull' = ParkRefresh(PromoteNext(pull, i, Without(cands, i)), i)
        \/ pull' = PromoteNext(pull, i, Without(cands, i))
    BY <1>4 DEF Removed
  <2> QED
    BY <2>1, <2>2, <2>3, <2>4, <2>5 DEF CandidateTypes, PullTypes
<1>5. ASSUME NEW kind \in {"created", "unsuspend"}, Announced(i, kind)
      PROVE  CandidateTypes' /\ PullTypes'
  <2>1. WakeRefresh(pull, i) \in PullRows
    BY PullRowTypes, EmptySeq DEF PullTypes
  <2>2. (pull' = WakeRefresh(pull, i) \/ pull' = pull) /\ cands' = cands
    BY <1>5 DEF Announced
  <2> QED
    BY <2>1, <2>2 DEF CandidateTypes, PullTypes
<1> QED
  BY <1>1, <1>2, <1>3, <1>4, <1>5

\* A settled refresh discards its candidate or leaves the row due.
LEMMA RefreshPullTypes ==
  ASSUME CandidateTypes, PullTypes, HandlersHaveTargets, NEW w \in Workers, SettleRefresh(w)
  PROVE  CandidateTypes' /\ PullTypes'
<1> DEFINE i == worker[w].target
<1>1. i \in Installations
  BY DEF HandlersHaveTargets, SettleRefresh
<1>2. \/ Discard(i)
      \/ UNCHANGED <<cands, pull>>
      \/ pull' = [pull EXCEPT !.due = TRUE] /\ UNCHANGED cands
  BY DEF SettleRefresh, ResolveForbidden
<1>3. CASE Discard(i)
  <2> HIDE DEF i
  <2>1. Without(cands, i) \in Seq(Installations) /\ IsInjective(Without(cands, i))
    BY <1>1, WithoutType DEF CandidateTypes
  <2>2. PromoteNext(pull, i, Without(cands, i)) \in PullRows
    BY <1>1, <2>1, PullRowTypes DEF PullTypes
  <2> QED
    BY <1>3, <2>1, <2>2 DEF Discard, CandidateTypes, PullTypes
<1>4. CASE UNCHANGED <<cands, pull>>
  BY <1>4 DEF CandidateTypes, PullTypes
<1>5. CASE pull' = [pull EXCEPT !.due = TRUE] /\ UNCHANGED cands
  BY <1>5 DEF CandidateTypes, PullTypes, PullRows
<1> QED
  BY <1>2, <1>3, <1>4, <1>5

\* A commit ends the recovery.
LEMMA CommitPullTypes ==
  ASSUME CandidateTypes, PullTypes, NEW w \in Workers, Commit(w)
  PROVE  CandidateTypes' /\ PullTypes'
<1>1. cands' = <<>>
  BY DEF Commit, CommitRows
<1>2. CandidateTypes'
  BY <1>1, EmptySeq DEF CandidateTypes, IsInjective
<1>3. \E j \in {NoOne, pull.binding} : pull' = [known |-> TRUE, due |-> TRUE, binding |-> j]
  BY DEF Commit, CommitRows
<1>4. PullTypes'
  BY <1>3 DEF PullTypes, PullRows
<1> QED
  BY <1>2, <1>4

-----------------------------------------------------------------------------
(* The handlers.                                                            *)

\* What a step does to the handlers: nothing; an event overtakes them; one loads
\* the rows as its fence; one fails; one gets GitHub's answer; one stops; one
\* loses its lease.
HandlersMove ==
  \/ UNCHANGED worker
  \/ \E i \in Installations, changed \in BOOLEAN :
       worker' = Overtake(i, changed) /\ Outdates(i, changed)
  \/ \E w \in Workers, j \in Jobs, i \in Installations, fresh \in BOOLEAN :
       /\ Begin(w, j, i, [fresh |-> fresh, inst |-> inst[i], repo |-> repo])
       /\ UNCHANGED <<inst, repo>>
  \/ \E w \in Workers, outcome \in {"retry", "forbidden", "rejected", "inactive"} :
       Fail(w, outcome) /\ worker[w].at # "idle"
  \/ \E w \in Workers :
       worker' = [worker EXCEPT ![w].at = "read"] /\ worker[w].at = "reading"
  \/ \E w \in Workers : worker' = [worker EXCEPT ![w] = Idle]
  \/ worker' = [w \in Workers |-> IF w = "leased" THEN Idle ELSE worker["leased"]]

\* An idle handler, and one that begins, are handlers.
LEMMA BeginType ==
  ASSUME RowTypes, NEW j \in Jobs, NEW i \in Installations, NEW fresh \in BOOLEAN
  PROVE  /\ Idle \in Handlers
         /\ [Idle EXCEPT !.at = "reading", !.job = j, !.target = i,
               !.fence = [fresh |-> fresh, inst |-> inst[i], repo |-> repo]] \in Handlers
<1>1. NoFence \in Fences
  BY DEF NoFence, Fences, InstallationRow, RepositoryRow, Statuses
<1>2. [fresh |-> fresh, inst |-> inst[i], repo |-> repo] \in Fences
  BY DEF RowTypes, Fences, Statuses
<1> QED
  BY <1>1, <1>2 DEF Idle, Handlers

\* A failed handler keeps its job, its installation and whether it was fresh.
LEMMA FailType ==
  ASSUME HandlerTypes, NEW w \in Workers,
         NEW outcome \in {"retry", "forbidden", "rejected", "inactive"}
  PROVE  [Idle EXCEPT !.at = outcome, !.job = worker[w].job,
            !.target = worker[w].target,
            !.fence = [NoFence EXCEPT !.fresh = worker[w].fence.fresh],
            !.overtaken = outcome = "forbidden" /\ worker[w].overtaken] \in Handlers
<1> DEFINE f == [NoFence EXCEPT !.fresh = worker[w].fence.fresh]
           o == outcome = "forbidden" /\ worker[w].overtaken
<1>1. worker[w] \in Handlers
  BY DEF HandlerTypes
<1>2. worker[w].fence.fresh \in BOOLEAN /\ worker[w].job \in Jobs \cup {NoJob}
      /\ worker[w].target \in Installations \cup {NoOne}
  BY <1>1 DEF Handlers, Fences
<1>3. f \in Fences
  BY <1>2 DEF NoFence, Fences, InstallationRow, RepositoryRow, Statuses
<1>4. o \in BOOLEAN
  OBVIOUS
<1> HIDE DEF f, o
<1>5. [Idle EXCEPT !.at = outcome, !.job = worker[w].job, !.target = worker[w].target,
         !.fence = f, !.overtaken = o] \in Handlers
  BY <1>2, <1>3, <1>4 DEF Idle, Handlers
<1> QED
  BY <1>5 DEF f, o

\* The handlers stay handlers, and work for an installation.
LEMMA HandlersKept ==
  ASSUME RowTypes, HandlerTypes, HandlersHaveTargets, HandlersMove
  PROVE  HandlerTypes' /\ HandlersHaveTargets'
<1> USE DEF HandlerTypes, HandlersHaveTargets
<1>1. Idle \in Handlers /\ Idle.at = "idle"
  <2>1. NoFence \in Fences
    BY DEF NoFence, Fences, InstallationRow, RepositoryRow, Statuses
  <2> QED
    BY <2>1 DEF Idle, Handlers
<1>2. CASE UNCHANGED worker
  BY <1>2
<1>3. ASSUME NEW i \in Installations, NEW changed \in BOOLEAN, worker' = Overtake(i, changed)
      PROVE  HandlerTypes' /\ HandlersHaveTargets'
  BY <1>3 DEF Overtake, Handlers
<1>4. ASSUME NEW w \in Workers, NEW j \in Jobs, NEW i \in Installations, NEW fresh \in BOOLEAN,
             Begin(w, j, i, [fresh |-> fresh, inst |-> inst[i], repo |-> repo])
      PROVE  HandlerTypes' /\ HandlersHaveTargets'
  <2> DEFINE h == [Idle EXCEPT !.at = "reading", !.job = j, !.target = i,
                     !.fence = [fresh |-> fresh, inst |-> inst[i], repo |-> repo]]
  <2>1. h \in Handlers
    BY BeginType
  <2>2. h.target = i
    BY DEF Idle
  <2>3. worker' = [worker EXCEPT ![w] = h]
    BY <1>4 DEF Begin
  <2> HIDE DEF h
  <2> QED
    BY <2>1, <2>2, <2>3
<1>5. ASSUME NEW w \in Workers, NEW outcome \in {"retry", "forbidden", "rejected", "inactive"},
             Fail(w, outcome), worker[w].at # "idle"
      PROVE  HandlerTypes' /\ HandlersHaveTargets'
  <2> DEFINE h == [Idle EXCEPT !.at = outcome, !.job = worker[w].job,
                     !.target = worker[w].target,
                     !.fence = [NoFence EXCEPT !.fresh = worker[w].fence.fresh],
                     !.overtaken = outcome = "forbidden" /\ worker[w].overtaken]
  <2>1. h \in Handlers
    BY FailType
  <2>2. h.target = worker[w].target
    BY DEF Idle
  <2>3. worker' = [worker EXCEPT ![w] = h]
    BY <1>5 DEF Fail
  <2> HIDE DEF h
  <2> QED
    BY <1>5, <2>1, <2>2, <2>3
<1>6. ASSUME NEW w \in Workers, worker' = [worker EXCEPT ![w].at = "read"],
             worker[w].at = "reading"
      PROVE  HandlerTypes' /\ HandlersHaveTargets'
  BY <1>6 DEF Handlers
<1>7. ASSUME NEW w \in Workers, worker' = [worker EXCEPT ![w] = Idle]
      PROVE  HandlerTypes' /\ HandlersHaveTargets'
  BY <1>1, <1>7
<1>8. CASE worker' = [w \in Workers |-> IF w = "leased" THEN Idle ELSE worker["leased"]]
  BY <1>1, <1>8 DEF Workers
<1> QED
  BY <1>2, <1>3, <1>4, <1>5, <1>6, <1>7, <1>8 DEF HandlersMove

\* While the rows only move forward, a fence stays behind them, for good once an
\* event overtook it.
LEMMA FencesKept ==
  ASSUME RowTypes, RowTypes', HandlerTypes, HandlersHaveTargets, FencesArePast,
         OvertakenIsBehind, RowsMove, HandlersMove
  PROVE  FencesArePast' /\ OvertakenIsBehind'
<1> USE DEF HandlerTypes, HandlersHaveTargets, RowTypes, RowsMove
\* A handler that keeps its fence keeps its relation to the rows.
<1> DEFINE Past(h, in, re) ==
             /\ h.fence.inst.status = "none" \/ h.fence.inst.version <= in.version
             /\ in.status = "none" => h.fence.inst.status = "none"
             /\ h.fence.repo.version <= re.version
             /\ h.fence.repo.status # "none"
           Behind(h, in, re) ==
             \/ h.fence.inst.status = "none"
             \/ in.status = "removed"
             \/ h.fence.inst.version < in.version
             \/ h.fence.repo.version < re.version
           Active(h) == h.at \in {"reading", "read"}
<1>1. ASSUME NEW w \in Workers, Active(worker[w])
      PROVE  /\ worker[w] \in Handlers /\ worker[w].target \in Installations
             /\ Past(worker[w], inst[worker[w].target], repo)
             /\ worker[w].overtaken => Behind(worker[w], inst[worker[w].target], repo)
  BY <1>1 DEF FencesArePast, OvertakenIsBehind, Fenced
<1>2. ASSUME NEW h \in Handlers, h.target \in Installations,
             Past(h, inst[h.target], repo)
      PROVE  /\ Past(h, inst'[h.target], repo')
             /\ Behind(h, inst[h.target], repo) => Behind(h, inst'[h.target], repo')
  BY <1>2 DEF Handlers, Fences
<1>3. ASSUME NEW w \in Workers, Active(worker[w])
      PROVE  /\ Past(worker[w], inst'[worker[w].target], repo')
             /\ worker[w].overtaken => Behind(worker[w], inst'[worker[w].target], repo')
  <2> HIDE DEF Past, Behind
  <2> QED
    BY <1>1, <1>2, <1>3
\* What each handler has to satisfy after the step.
<1> DEFINE Good(h) == Active(h) =>
             /\ Past(h, inst'[h.target], repo')
             /\ h.overtaken => Behind(h, inst'[h.target], repo')
<1>4. SUFFICES ASSUME NEW w \in Workers PROVE Good(worker'[w])
  BY DEF FencesArePast, OvertakenIsBehind, Fenced
<1>5. ASSUME NEW v \in Workers PROVE Good(worker[v])
  BY <1>3
<1>6. Good(Idle)
  BY DEF Idle
<1>7. CASE UNCHANGED worker
  BY <1>5, <1>7
<1>8. ASSUME NEW i \in Installations, NEW changed \in BOOLEAN,
             worker' = Overtake(i, changed), Outdates(i, changed)
      PROVE  Good(worker'[w])
  <2>1. CASE worker'[w] = worker[w]
    BY <1>5, <2>1
  <2>2. CASE worker'[w] = [worker[w] EXCEPT !.overtaken = TRUE]
             /\ (worker[w].target = i \/ changed)
    <3>1. ASSUME Active(worker[w]) PROVE Behind(worker[w], inst'[worker[w].target], repo')
      BY <1>1, <1>8, <2>2, <3>1 DEF Outdates, Handlers, Fences
    <3>2. /\ worker'[w].at = worker[w].at /\ worker'[w].target = worker[w].target
          /\ worker'[w].fence = worker[w].fence
      BY <2>2 DEF Handlers
    <3> QED
      BY <1>3, <3>1, <3>2
  <2> QED
    BY <1>8, <2>1, <2>2 DEF Overtake
<1>9. ASSUME NEW v \in Workers, NEW j \in Jobs, NEW i \in Installations, NEW fresh \in BOOLEAN,
             Begin(v, j, i, [fresh |-> fresh, inst |-> inst[i], repo |-> repo]),
             UNCHANGED <<inst, repo>>
      PROVE  Good(worker'[w])
  <2> DEFINE h == [Idle EXCEPT !.at = "reading", !.job = j, !.target = i,
                     !.fence = [fresh |-> fresh, inst |-> inst[i], repo |-> repo]]
  <2>1. h.target = i /\ h.fence.inst = inst[i] /\ h.fence.repo = repo /\ h.overtaken = FALSE
    BY DEF Idle
  <2>2. worker'[w] \in {h, worker[w]}
    BY <1>9 DEF Begin
  <2> HIDE DEF h
  <2>3. Good(h)
    BY <1>9, <2>1
  <2> HIDE DEF Good
  <2> QED
    BY <1>5, <2>2, <2>3
<1>10. ASSUME NEW v \in Workers, NEW outcome \in {"retry", "forbidden", "rejected", "inactive"},
              Fail(v, outcome)
       PROVE  Good(worker'[w])
  <2>1. worker'[w] = worker[w] \/ worker'[w].at = outcome
    BY <1>10 DEF Fail, Idle
  <2> QED
    BY <1>5, <2>1
<1>11. ASSUME NEW v \in Workers, worker' = [worker EXCEPT ![v].at = "read"],
              worker[v].at = "reading"
       PROVE  Good(worker'[w])
  <2>1. \/ worker'[w] = worker[w]
        \/ Active(worker[w]) /\ worker'[w] = [worker[w] EXCEPT !.at = "read"]
    BY <1>11
  <2>2. ASSUME Active(worker[w]), worker'[w] = [worker[w] EXCEPT !.at = "read"]
        PROVE  Good(worker'[w])
    <3>1. /\ worker'[w].target = worker[w].target /\ worker'[w].fence = worker[w].fence
          /\ worker'[w].overtaken = worker[w].overtaken
      BY <2>2 DEF Handlers
    <3> QED
      BY <1>3, <2>2, <3>1
  <2> QED
    BY <1>5, <2>1, <2>2
<1>12. ASSUME NEW v \in Workers, worker' = [worker EXCEPT ![v] = Idle]
       PROVE  Good(worker'[w])
  <2>1. worker'[w] \in {Idle, worker[w]}
    BY <1>12
  <2> HIDE DEF Good
  <2> QED
    BY <1>5, <1>6, <2>1
<1>13. CASE worker' = [v \in Workers |-> IF v = "leased" THEN Idle ELSE worker["leased"]]
  <2>1. worker'[w] \in {Idle, worker["leased"]} /\ "leased" \in Workers
    BY <1>13 DEF Workers
  <2> HIDE DEF Good
  <2> QED
    BY <1>5, <1>6, <2>1
<1> QED
  BY <1>7, <1>8, <1>9, <1>10, <1>11, <1>12, <1>13 DEF HandlersMove

-----------------------------------------------------------------------------
(* Deliveries and jobs.                                                     *)

\* Nothing but a delivery's own row changes, and only forward.
DeliveriesMove ==
  /\ DeliveryTypes'
  /\ \A d \in PullEvents :
       delivery[d].status \in {"processed", "ignored", "permanent_failure"}
         => delivery'[d].status = delivery[d].status

\* An acknowledgement settles a queued delivery only
\* (acknowledgeInactiveGithubInstallationDelivery).
LEMMA AcknowledgedMoves ==
  ASSUME DeliveryTypes, NEW d, delivery' = Acknowledged(d)
  PROVE  DeliveriesMove
BY DEF Acknowledged, DeliveriesMove, DeliveryTypes

\* Ingestion, the sweep and the end of a handler settle queued deliveries only.
LEMMA DeliverySteps ==
  ASSUME DeliveryTypes, Next
  PROVE  DeliveriesMove
<1>1. CASE UNCHANGED delivery
  BY <1>1 DEF DeliveriesMove, DeliveryTypes
<1>2. ASSUME NEW d \in PullEvents, IngestPullRequest(d)
      PROVE  DeliveriesMove
  <2>1. PICK status \in {"queued", "ignored"} :
          delivery' = [delivery EXCEPT ![d] = [status |-> status, deferred |-> FALSE]]
    BY <1>2 DEF IngestPullRequest
  <2>2. delivery[d].status \in {"none", "queued"}
    BY <1>2 DEF IngestPullRequest, Reservable
  <2> QED
    BY <2>1, <2>2 DEF DeliveriesMove, DeliveryTypes
<1>3. ASSUME NEW d \in PullEvents, SweepDelivery(d)
      PROVE  DeliveriesMove
  BY <1>3 DEF SweepDelivery, DeliveriesMove, DeliveryTypes
<1>4. ASSUME NEW d \in PullEvents, TakeDelivery(d)
      PROVE  DeliveriesMove
  <2>1. UNCHANGED delivery \/ delivery' = Acknowledged(d)
    BY <1>4 DEF TakeDelivery
  <2> QED
    BY <1>1, <2>1, AcknowledgedMoves
<1>5. ASSUME NEW w \in Workers, ReloadStaleHead(w)
      PROVE  DeliveriesMove
  <2>1. UNCHANGED delivery \/ delivery' = Acknowledged(worker[w].job.of)
    BY <1>5 DEF ReloadStaleHead
  <2> QED
    BY <1>1, <2>1, AcknowledgedMoves
<1>6. ASSUME NEW w \in Workers, Commit(w)
      PROVE  DeliveriesMove
  <2>1. UNCHANGED delivery \/ delivery' = Acknowledged(worker[w].job.of)
    BY <1>6 DEF Commit, CommitRows
  <2> QED
    BY <1>1, <2>1, AcknowledgedMoves
<1>7. ASSUME NEW w \in Workers, SettleDelivery(w)
      PROVE  DeliveriesMove
  <2> DEFINE d == worker[w].job.of
  <2>1. \/ UNCHANGED delivery
        \/ delivery' = Acknowledged(d)
        \/ delivery[d].status = "queued" /\ delivery' = [delivery EXCEPT ![d].deferred = TRUE]
        \/ delivery[d].status = "queued"
           /\ delivery' = [delivery EXCEPT
                             ![d] = [status |-> "permanent_failure", deferred |-> FALSE]]
    <3>1. CASE delivery[d].status # "queued"
      BY <1>7, <3>1 DEF SettleDelivery
    <3>2. CASE delivery[d].status = "queued" /\ worker[w].at = "inactive"
      BY <1>7, <3>2 DEF SettleDelivery
    <3>3. CASE delivery[d].status = "queued" /\ worker[w].at = "retry"
      BY <1>7, <3>3 DEF SettleDelivery
    <3>4. CASE delivery[d].status = "queued" /\ worker[w].at \notin {"inactive", "retry"}
      BY <1>7, <3>4 DEF SettleDelivery
    <3> QED
      BY <3>1, <3>2, <3>3, <3>4
  <2>2. CASE delivery[d].status = "queued" /\ delivery' = [delivery EXCEPT ![d].deferred = TRUE]
    BY <2>2 DEF DeliveriesMove, DeliveryTypes
  <2>3. CASE delivery[d].status = "queued"
             /\ delivery' = [delivery EXCEPT
                               ![d] = [status |-> "permanent_failure", deferred |-> FALSE]]
    BY <2>3 DEF DeliveriesMove, DeliveryTypes
  <2> QED
    BY <1>1, <2>1, <2>2, <2>3, AcknowledgedMoves
<1>8. UNCHANGED delivery \/ ~UNCHANGED delivery
  OBVIOUS
<1> QED
  BY <1>1, <1>2, <1>3, <1>4, <1>5, <1>6, <1>7
     DEF Next, Handle, Disturb, IngestLifecycle, TakeRefresh, SweepRefresh, LoseJob,
         LoseLease, ReadGithub, Rollback, SettleRefresh, ReadFails, Move

\* Jobs name deliveries and installations; counters respect their bounds.
LEMMA JobSteps ==
  ASSUME RowTypes, PullTypes, JobTypes, CountTypes, Next
  PROVE  JobTypes' /\ CountTypes'
<1>1. JobTypes'
  <2>1. CASE SweepRefresh
    <3>1. (IF pull.binding # NoOne THEN pull.binding ELSE repo.inst) \in Installations
      BY DEF RowTypes, PullTypes, PullRows
    <3> QED
      BY <2>1, <3>1 DEF SweepRefresh, JobTypes, Jobs
  <2>2. CASE UNCHANGED jobs
    BY <2>2 DEF JobTypes
  <2>3. ASSUME NEW d \in PullEvents,
               IngestPullRequest(d) \/ SweepDelivery(d) \/ TakeDelivery(d)
        PROVE  JobTypes'
    BY <2>3 DEF IngestPullRequest, SweepDelivery, TakeDelivery, JobTypes, Jobs
  <2>4. ASSUME NEW i \in Installations, TakeRefresh(i)
        PROVE  JobTypes'
    BY <2>4 DEF TakeRefresh, JobTypes
  <2> QED
    BY <2>1, <2>2, <2>3, <2>4
       DEF Next, Handle, Disturb, IngestLifecycle, LoseJob, LoseLease, ReadGithub,
           Commit, Rollback, SettleDelivery, SettleRefresh, ReadFails,
               ReloadStaleHead, Move
<1>2. seen' \subseteq Events /\ owner' \in Installations
  BY DEF CountTypes, Next, Handle, Disturb, IngestLifecycle, IngestPullRequest,
         SweepDelivery, TakeDelivery, TakeRefresh, SweepRefresh, LoseJob, LoseLease,
         ReadGithub, Commit, Rollback, SettleDelivery, SettleRefresh, ReadFails,
         ReloadStaleHead, Move
<1>3. /\ faults' = faults \/ (faults < MaxFaults /\ faults' = faults + 1)
      /\ moves' = moves \/ (moves < MaxMoves /\ moves' = moves + 1)
  <2>1. CASE UNCHANGED <<faults, moves>>
    BY <2>1
  <2>2. CASE LoseJob \/ LoseLease \/ \E w \in Workers : ReadFails(w)
      \/ ReloadStaleHead(w)
    BY <2>2 DEF LoseJob, LoseLease, ReadFails, ReloadStaleHead
  <2>3. CASE \E i \in Installations : Move(i)
    BY <2>3 DEF Move
  <2> QED
    BY <2>1, <2>2, <2>3
       DEF Next, Handle, Disturb, IngestLifecycle, IngestPullRequest, SweepDelivery,
           TakeDelivery, TakeRefresh, SweepRefresh, ReadGithub, Commit, Rollback,
           SettleDelivery, SettleRefresh
<1>4. faults' \in 0..MaxFaults /\ moves' \in 0..MaxMoves
  BY <1>3 DEF CountTypes
<1> QED
  BY <1>1, <1>2, <1>4 DEF CountTypes

-----------------------------------------------------------------------------
(* The steps.                                                               *)

\* What every step preserves, and what it does to rows and handlers.
StepFacts ==
  /\ RowTypes' /\ ActiveRepositoryHasActiveInstallation'
  /\ CandidateTypes' /\ PullTypes'
  /\ RowsMove /\ HandlersMove

\* A step that leaves the rows alone.
LEMMA RowsStay ==
  ASSUME RowTypes, ActiveRepositoryHasActiveInstallation, UNCHANGED <<inst, repo>>
  PROVE  RowTypes' /\ ActiveRepositoryHasActiveInstallation' /\ RowsMove
BY DEF RowTypes, ActiveRepositoryHasActiveInstallation, RowsMove

\* A fence is loaded for a delivery or a refresh together with its freshness.
LEMMA FenceLoads ==
  ASSUME NEW i
  PROVE  /\ \E fresh \in BOOLEAN :
              DeliveryFence(i) = [fresh |-> fresh, inst |-> inst[i], repo |-> repo]
         /\ \E fresh \in BOOLEAN :
              RefreshFence(i) = [fresh |-> fresh, inst |-> inst[i], repo |-> repo]
<1> DEFINE d == \/ inst[i].status # "active" \/ repo.status # "active" \/ repo.inst # i
           r == \/ pull.binding # NoOne \/ repo.status # "active"
                \/ inst[repo.inst].status # "active"
<1>1. d \in BOOLEAN /\ r \in BOOLEAN
  OBVIOUS
<1>2. /\ DeliveryFence(i) = [fresh |-> d, inst |-> inst[i], repo |-> repo]
      /\ RefreshFence(i) = [fresh |-> r, inst |-> inst[i], repo |-> repo]
  BY DEF DeliveryFence, RefreshFence
<1> HIDE DEF d, r
<1> QED
  BY <1>1, <1>2

\* Every step keeps the rows and the pull request, and moves the handlers.
LEMMA StepMoves ==
  ASSUME ControlIInv, Next
  PROVE  StepFacts
<1> USE DEF StepFacts
<1>1. /\ RowTypes /\ CandidateTypes /\ PullTypes /\ DeliveryTypes /\ JobTypes
      /\ HandlerTypes /\ CountTypes
      /\ ActiveRepositoryHasActiveInstallation /\ HandlersHaveTargets
  BY TypeParts DEF ControlIInv
<1>2. ASSUME UNCHANGED <<inst, repo, pull, cands>>, HandlersMove
      PROVE  StepFacts
  BY <1>1, <1>2, RowsStay DEF CandidateTypes, PullTypes
<1>3. ASSUME NEW e \in Events, IngestLifecycle(e)
      PROVE  StepFacts
  <2> DEFINE i == e.from
  <2>1. /\ i \in Installations
        /\ \/ Suspend(i) \/ Deleted(i) \/ Added(i) \/ Removed(i)
           \/ \E kind \in {"created", "unsuspend"} : Announced(i, kind)
    BY <1>3, LifecycleCases
  <2> HIDE DEF i
  <2>2. RowsAdvance(i)
    BY <1>1, <2>1, SuspendAdvances, DeletedAdvances, AnnouncedAdvances,
        RemovedAdvances
  <2>3. CandidateTypes' /\ PullTypes'
    BY <1>1, <2>1, LifecyclePullTypes
  <2>4. HandlersMove
    BY <2>1, <2>2 DEF RowsAdvance, HandlersMove
  <2> QED
    BY <2>2, <2>3, <2>4 DEF RowsAdvance
<1>4. ASSUME NEW d \in PullEvents,
             IngestPullRequest(d) \/ SweepDelivery(d) \/ TakeDelivery(d)
      PROVE  StepFacts
  <2>1. UNCHANGED <<inst, repo, pull, cands>>
    BY <1>4 DEF IngestPullRequest, SweepDelivery, TakeDelivery
  <2>2. \/ UNCHANGED worker
        \/ Begin("leased", DeliveryJob(d), From[d], DeliveryFence(From[d]))
    BY <1>4 DEF IngestPullRequest, SweepDelivery, TakeDelivery
  <2>3. "leased" \in Workers /\ DeliveryJob(d) \in Jobs /\ From[d] \in Installations
    BY DEF Workers, Jobs
  <2>4. PICK fresh \in BOOLEAN : DeliveryFence(From[d]) =
                                   [fresh |-> fresh, inst |-> inst[From[d]], repo |-> repo]
    BY FenceLoads
  <2>5. HandlersMove
    BY <2>1, <2>2, <2>3, <2>4 DEF HandlersMove
  <2> QED
    BY <1>2, <2>1, <2>5
<1>5. ASSUME NEW i \in Installations, TakeRefresh(i)
      PROVE  StepFacts
  <2>1. UNCHANGED <<inst, repo, pull, cands>>
    BY <1>5 DEF TakeRefresh
  <2>2. UNCHANGED worker \/ Begin("leased", RefreshJob(i), i, RefreshFence(i))
    BY <1>5 DEF TakeRefresh
  <2>3. "leased" \in Workers /\ RefreshJob(i) \in Jobs
    BY DEF Workers, Jobs
  <2>4. PICK fresh \in BOOLEAN :
          RefreshFence(i) = [fresh |-> fresh, inst |-> inst[i], repo |-> repo]
    BY FenceLoads
  <2>5. HandlersMove
    BY <2>1, <2>2, <2>3, <2>4 DEF HandlersMove
  <2> QED
    BY <1>2, <2>1, <2>5
<1>6. CASE SweepRefresh
  BY <1>2, <1>6 DEF SweepRefresh, HandlersMove
<1>7. CASE LoseJob \/ LoseLease
  <2>1. UNCHANGED <<inst, repo, pull, cands>> /\ "leased" \in Workers
    BY <1>7 DEF LoseJob, LoseLease, Workers
  <2>2. HandlersMove
    BY <1>7, <2>1 DEF LoseJob, LoseLease, HandlersMove
  <2> QED
    BY <1>2, <2>1, <2>2
<1>8. ASSUME NEW i \in Installations, Move(i)
      PROVE  StepFacts
  BY <1>2, <1>8 DEF Move, HandlersMove
<1>9. ASSUME NEW w \in Workers, ReadGithub(w)
      PROVE  StepFacts
  <2>1. UNCHANGED <<inst, repo, pull, cands>> /\ worker[w].at = "reading"
    BY <1>9 DEF ReadGithub
  <2>2. \/ worker' = [worker EXCEPT ![w].at = "read"]
        \/ \E outcome \in {"forbidden", "rejected"} : Fail(w, outcome)
    BY <1>9 DEF ReadGithub
  <2>3. HandlersMove
    BY <2>1, <2>2 DEF HandlersMove
  <2> QED
    BY <1>2, <2>1, <2>3
<1>10. ASSUME NEW w \in Workers, ReadFails(w) \/ Rollback(w)
       PROVE  StepFacts
  <2>1. UNCHANGED <<inst, repo, pull, cands>> /\ worker[w].at # "idle"
    BY <1>10 DEF ReadFails, Rollback
  <2>2. Verdict(w) # "commit" => Verdict(w) \in {"retry", "inactive"}
    BY DEF Verdict
  <2>3. \E outcome \in {"retry", "inactive"} : Fail(w, outcome)
    BY <1>10, <2>2 DEF ReadFails, Rollback
  <2>4. HandlersMove
    BY <2>1, <2>3 DEF HandlersMove
  <2> QED
    BY <1>2, <2>1, <2>4
<1>11. ASSUME NEW w \in Workers, ReloadStaleHead(w)
       PROVE  StepFacts
  <2> DEFINE i == worker[w].target
  <2>1. UNCHANGED <<inst, repo, pull, cands>> /\ worker[w].at = "reading"
        /\ worker[w].job.kind = "delivery"
    BY <1>11 DEF ReloadStaleHead
  <2>2. worker' = [worker EXCEPT ![w] = Idle] \/ Begin(w, worker[w].job, i, DeliveryFence(i))
    BY <1>11 DEF ReloadStaleHead
  <2>3. i \in Installations /\ worker[w].job \in Jobs
    BY <1>1, <2>1 DEF HandlersHaveTargets, HandlerTypes, Handlers, NoJob
  <2>4. PICK fresh \in BOOLEAN :
          DeliveryFence(i) = [fresh |-> fresh, inst |-> inst[i], repo |-> repo]
    BY FenceLoads
  <2> HIDE DEF i
  <2>5. HandlersMove
    BY <2>1, <2>2, <2>3, <2>4 DEF HandlersMove
  <2> QED
    BY <1>2, <2>1, <2>5
<1>12. ASSUME NEW w \in Workers, SettleDelivery(w)
       PROVE  StepFacts
  BY <1>2, <1>12 DEF SettleDelivery, HandlersMove
<1>13. ASSUME NEW w \in Workers, SettleRefresh(w)
       PROVE  StepFacts
  <2>1. CandidateTypes' /\ PullTypes'
    BY <1>1, <1>13, RefreshPullTypes
  <2>2. UNCHANGED <<inst, repo>> /\ worker' = [worker EXCEPT ![w] = Idle]
    BY <1>13 DEF SettleRefresh
  <2>3. HandlersMove
    BY <2>2 DEF HandlersMove
  <2> QED
    BY <1>1, <2>1, <2>2, <2>3, RowsStay
<1>14. ASSUME NEW w \in Workers, Commit(w)
       PROVE  StepFacts
  <2>1. CandidateTypes' /\ PullTypes'
    BY <1>1, <1>14, CommitPullTypes
  <2>2. RowTypes' /\ ActiveRepositoryHasActiveInstallation' /\ RowsMove
    BY <1>1, <1>14, CommitAdvances
  <2>3. HandlersMove
    BY <1>14 DEF Commit, HandlersMove
  <2> QED
    BY <2>1, <2>2, <2>3
<1> QED
  BY <1>3, <1>4, <1>5, <1>6, <1>7, <1>8, <1>9, <1>10, <1>11, <1>12, <1>13, <1>14
     DEF Next, Handle, Disturb

\* The initial rows satisfy the invariant.
LEMMA InitControlIInv == Init => ControlIInv
<1> SUFFICES ASSUME Init PROVE ControlIInv
  OBVIOUS
<1> USE DEF Init
<1>1. RowTypes
  BY DEF RowTypes, InstallationRow, RepositoryRow, Statuses
<1>2. CandidateTypes /\ PullTypes /\ DeliveryTypes /\ JobTypes
  BY EmptySeq DEF CandidateTypes, IsInjective, PullTypes, PullRows,
      DeliveryTypes, JobTypes
<1>3. Idle \in Handlers
  <2>1. NoFence \in Fences
    BY DEF NoFence, Fences, InstallationRow, RepositoryRow, Statuses
  <2> QED
    BY <2>1 DEF Idle, Handlers
<1>4. HandlerTypes /\ HandlersHaveTargets /\ FencesArePast /\ OvertakenIsBehind
  BY <1>3 DEF HandlerTypes, HandlersHaveTargets, FencesArePast, OvertakenIsBehind,
              Fenced, Idle
<1>5. CountTypes
  BY DEF CountTypes
<1>6. ActiveRepositoryHasActiveInstallation
  BY DEF ActiveRepositoryHasActiveInstallation, InstallationRow, RepositoryRow
<1> QED
  BY <1>1, <1>2, <1>4, <1>5, <1>6, TypeParts DEF ControlIInv

\* The invariant is inductive.
LEMMA StepControlIInv == ControlIInv /\ [Next]_vars => ControlIInv'
<1>1. ASSUME ControlIInv, Next PROVE ControlIInv'
  <2>1. /\ RowTypes /\ PullTypes /\ DeliveryTypes /\ JobTypes /\ HandlerTypes /\ CountTypes
        /\ HandlersHaveTargets /\ FencesArePast /\ OvertakenIsBehind
    BY <1>1, TypeParts DEF ControlIInv
  <2>2. /\ RowTypes' /\ ActiveRepositoryHasActiveInstallation' /\ CandidateTypes' /\ PullTypes'
        /\ RowsMove /\ HandlersMove
    BY <1>1, StepMoves DEF StepFacts
  <2>3. DeliveryTypes'
    BY <1>1, <2>1, DeliverySteps DEF DeliveriesMove
  <2>4. JobTypes' /\ CountTypes'
    BY <1>1, <2>1, JobSteps
  <2>5. HandlerTypes' /\ HandlersHaveTargets'
    BY <2>1, <2>2, HandlersKept
  <2>6. FencesArePast' /\ OvertakenIsBehind'
    BY <2>1, <2>2, FencesKept
  <2>7. TypeOK'
    BY <2>2, <2>3, <2>4, <2>5
       DEF TypeOK, RowTypes, CandidateTypes, PullTypes, PullRows, DeliveryTypes,
           JobTypes, HandlerTypes, CountTypes
  <2> QED
    BY <2>2, <2>5, <2>6, <2>7 DEF ControlIInv
<1>2. ASSUME ControlIInv, UNCHANGED vars PROVE ControlIInv'
  BY <1>2 DEF vars, ControlIInv, TypeOK, ActiveRepositoryHasActiveInstallation,
       HandlersHaveTargets, FencesArePast, OvertakenIsBehind, Fenced
<1> QED
  BY <1>1, <1>2

\* The rows of installation, repository and pull request keep their types, and a
\* repository is active only under an active installation, after any order of
\* webhooks, transfers, refreshes and lost jobs (ingest.ts, service.ts).
THEOREM ControlInvariant == Spec => []ControlInv
<1>1. Spec => []ControlIInv
  BY InitControlIInv, StepControlIInv, PTL DEF Spec
<1>2. ControlIInv => ControlInv
  BY DEF ControlIInv, ControlInv
<1> QED
  BY <1>1, <1>2, PTL

\* A handler whose fence an applied event outdated never commits: the rows it has
\* to match again have moved on for good (requireLifecycleFence, the two upserts).
LEMMA OvertakenNeverCommits ==
  ASSUME ControlIInv, NEW w \in Workers, Commit(w)
  PROVE  ~worker[w].overtaken
<1> SUFFICES ASSUME worker[w].overtaken PROVE FALSE
  OBVIOUS
<1> DEFINE i == worker[w].target
           f == worker[w].fence
<1>1. Fenced(w) /\ Verdict(w) = "commit"
  BY DEF Commit, Fenced
<1>2. InstallationFenced(w) /\ RepositoryFenced(w)
  BY <1>1 DEF Verdict
<1>3. inst[i].status \notin {"none", "removed"} /\ inst[i] = f.inst
  BY <1>2 DEF InstallationFenced
<1>4. i \in Installations /\ RowTypes /\ HandlerTypes
  BY <1>1, TypeParts DEF ControlIInv, HandlersHaveTargets, Fenced
<1>5. repo.status # "none" /\ f.repo.status # "none"
  BY <1>1, <1>4 DEF ControlIInv, FencesArePast, RowTypes
<1>6. repo = f.repo
  BY <1>2, <1>5 DEF RepositoryFenced
<1>7. f.inst.version < inst[i].version \/ f.repo.version < repo.version
  BY <1>1, <1>3 DEF ControlIInv, OvertakenIsBehind
<1>8. inst[i].version \in Nat /\ repo.version \in Nat
  BY <1>4 DEF RowTypes
<1> QED
  BY <1>3, <1>6, <1>7, <1>8

\* No suspension, removal or deletion is undone by a handler it overtook, and no
\* settled delivery is reopened, whatever is redelivered, lost or retried
\* (service.ts version checks, reserveWebhookDelivery; control.ts).
THEOREM FencesAlwaysHold == Spec => FencesHold
<1>1. Spec => []ControlIInv
  BY InitControlIInv, StepControlIInv, PTL DEF Spec
<1>2. ControlIInv => \A w \in Workers : Commit(w) /\ Reactivates => ~worker[w].overtaken
  BY OvertakenNeverCommits
<1>3. ControlIInv /\ [Next]_vars =>
        \A d \in PullEvents :
          delivery[d].status \in {"processed", "ignored", "permanent_failure"}
            => delivery'[d].status = delivery[d].status
  <2>1. ASSUME ControlIInv, Next
        PROVE  \A d \in PullEvents :
                 delivery[d].status \in {"processed", "ignored", "permanent_failure"}
                   => delivery'[d].status = delivery[d].status
    BY <2>1, TypeParts, DeliverySteps DEF ControlIInv, DeliveriesMove
  <2>2. UNCHANGED vars => delivery' = delivery
    BY DEF vars
  <2> QED
    BY <2>1, <2>2
<1>4. Spec => ReactivationIsFresh
  BY <1>1, <1>2, PTL DEF Spec, ReactivationIsFresh
<1>5. Spec => SettledDeliveryIsFinal
  BY <1>1, <1>3, PTL DEF Spec, SettledDeliveryIsFinal
<1> QED
  BY <1>4, <1>5 DEF FencesHold

============================================================================
