------------------------------- MODULE JobQueue -------------------------------
(***************************************************************************)
(* PostgresJobQueue (apps/worker/postgres_jobs.py): the durable queue that *)
(* API processes and workers share.  One scope (tenant, workspace,         *)
(* collection) is modelled: every statement of the code filters by it.     *)
(*                                                                         *)
(* Each public method is one database transaction, hence one action; the   *)
(* row locks it takes make it atomic.  A method that raises rolls back and *)
(* is a stuttering step.  What is not atomic is kept apart: a worker holds *)
(* the lease a claim returned in its memory (`held`) for as long as it     *)
(* likes, and may use it late, twice or never, so delayed, duplicated and  *)
(* lost calls, crashes and commits whose answer was lost are all covered.  *)
(*                                                                         *)
(* The publication reconciler is an input (`ans`): the queue must be safe  *)
(* whatever it answers.  QueuePublication closes that loop.                *)
(***************************************************************************)
EXTENDS JobContract, FiniteSets

CONSTANTS
    JobIds,           \* job identifiers, numbers so that they are ordered
    MaxPending,       \* capacity of the scope
    ClaimLimit,       \* rows one claim may start
    LeaseSeconds,     \* length of a lease
    BackoffSeconds,   \* base of the retry backoff
    BackoffCap,       \* its cap (86 400 s in the code)
    RecoveryDelay,    \* delay after an inconclusive reconciliation (1 s)
    HandlerTimeout,   \* handler deadline after a claim
    Skew,             \* host clocks are within Skew of the database clock
    AnswerKinds,      \* what the reconciler may answer; {"none"} without one
    Horizon,          \* bound: the database clock stops there
    MaxVersion        \* bound: no reschedule beyond this version

ASSUME QueueAssumption ==
    /\ JobIds \subseteq Nat
    /\ MaxPending \in Nat \ {0} /\ ClaimLimit \in Nat \ {0}
    /\ LeaseSeconds \in Nat \ {0} /\ RecoveryDelay \in Nat \ {0}
    /\ BackoffSeconds \in Nat /\ BackoffCap \in Nat
    /\ HandlerTimeout \in Nat \ {0}
    /\ AnswerKinds \subseteq {"none", "defer", "continue", "published", "cancelled"}
    /\ Skew \in Nat /\ Horizon \in Nat /\ MaxVersion \in Nat

VARIABLES
    clock,        \* the database clock, clock_timestamp()
    job,          \* contract columns and attempt history of each row
    lease,        \* lease_worker_id, lease_owner, lease_until of each row
    recovery_at,  \* publication_recovery_at of each row, 0 for NULL
    issued,       \* leases issued per job: source of fresh tokens
    outbox,       \* events of each job in rick_outbox, by version
    held          \* leases in the memory of worker processes

vars == <<clock, job, lease, recovery_at, issued, outbox, held>>

-----------------------------------------------------------------------------
(* Rows, leases and events *)

NoWorker == "none"

(* Tokens are 24 random bytes; what matters is that each is new, so a      *)
(* token is the number of the lease among those issued for its job.        *)
Lease == [worker : WorkerIds \cup {NoWorker}, token : Nat, until : Nat]

NoLease == [worker |-> NoWorker, token |-> 0, until |-> 0]

(* What a claim returns to its worker, with the deadline the worker gives  *)
(* its handler.                                                            *)
HeldLease == [job : JobIds, worker : WorkerIds, token : Nat, version : Nat,
              deadline : Nat]

EventType == {"created", "enqueued", "transition", "replay_enqueued", "cancelled",
              "claimed", "checkpoint_resumed", "acknowledged", "failed",
              "lease_expired", "retrying", "requeued", "dead_lettered",
              "publication_recovered", "publication_cancelled"}

Event == [from : JobState \cup NoRow, to : JobState, type : EventType]

NoJob == [state |-> "ABSENT", key |-> NoKey,
          attempts |-> << >>, available_at |-> 0, created_at |-> 0,
          updated_at |-> 0, version |-> 0]

Ev(from, to, type) == [from |-> from, to |-> to, type |-> type]

HasRow(j) == job[j].state \notin NoRow

Running(j) == job[j].state = "RUNNING"

(* The clock of an API or worker host.                                     *)
HostTimes == {t \in 0..(Horizon + Skew) : clock - Skew <= t /\ t <= clock + Skew}

(* _persist: optimistic version update, attempts, lifecycle event.  The    *)
(* event id is the job and the new version, so events are appended.        *)
Persist(j, next, events, nextLease) ==
    /\ job' = [job EXCEPT ![j] = next]
    /\ outbox' = [outbox EXCEPT ![j] = @ \o events]
    /\ lease' = [lease EXCEPT ![j] = nextLease]

(* _backoff: doubles with each attempt, up to 2^16 times the base.         *)
PowerOfTwo == [n \in 0..16 |-> 2 ^ n]

ASSUME PowerAssumption == PowerOfTwo \in [0..16 -> Nat]

MinOf(a, b) == IF a <= b THEN a ELSE b

Backoff(attempt) ==
    MinOf(BackoffCap, BackoffSeconds * PowerOfTwo[MinOf(MaxOf(0, attempt - 1), 16)])

(* Mutants of AfterFailure: the backoff has the wrong sign, the last       *)
(* attempt of the budget is not granted.                                   *)
AfterFailureSigned(jb, now, retryable) ==
    LET failed == FinishAttempt(jb, "FAILED", now, now, retryable)
        retrying == Move(failed, "RETRYING", now, failed.available_at)
    IN  IF RetryEligible(failed)
          THEN Move(retrying, "QUEUED", now, now - Backoff(AttemptCount(jb)))
          ELSE Move(failed, "DEAD_LETTER", now, failed.available_at)

AfterFailureEarly(jb, now, retryable) ==
    LET failed == FinishAttempt(jb, "FAILED", now, now, retryable)
        retrying == Move(failed, "RETRYING", now, failed.available_at)
    IN  IF RetryEligible(failed) /\ AttemptCount(jb) + 1 < MaxAttempts
          THEN Move(retrying, "QUEUED", now, now + Backoff(AttemptCount(jb)))
          ELSE Move(failed, "DEAD_LETTER", now, failed.available_at)

(* The three (or two) versions one transaction writes when an attempt      *)
(* fails: FAILED, RETRYING and QUEUED again, or FAILED and DEAD_LETTER.    *)
AfterFailure(jb, now, retryable) ==
    LET failed == FinishAttempt(jb, "FAILED", now, now, retryable)
        retrying == Move(failed, "RETRYING", now, failed.available_at)
    IN  IF RetryEligible(failed)
          THEN Move(retrying, "QUEUED", now, now + Backoff(AttemptCount(jb)))
          ELSE Move(failed, "DEAD_LETTER", now, failed.available_at)

(* Mutant: the intermediate RETRYING version is not recorded.              *)
FailureEventsShort(jb, retryable, type) ==
    IF retryable /\ AttemptCount(jb) < MaxAttempts
      THEN << Ev("RUNNING", "FAILED", type), Ev("FAILED", "QUEUED", "requeued") >>
      ELSE << Ev("RUNNING", "FAILED", type),
              Ev("FAILED", "DEAD_LETTER", "dead_lettered") >>

FailureEvents(jb, retryable, type) ==
    IF retryable /\ AttemptCount(jb) < MaxAttempts
      THEN << Ev("RUNNING", "FAILED", type), Ev("FAILED", "RETRYING", "retrying"),
              Ev("RETRYING", "QUEUED", "requeued") >>
      ELSE << Ev("RUNNING", "FAILED", type),
              Ev("FAILED", "DEAD_LETTER", "dead_lettered") >>

-----------------------------------------------------------------------------
(* Publication authority *)

(* What the reconciler may say of the current attempt of a running job:    *)
(*   none       no publication, or a failed one: not handled               *)
(*   defer      authority unavailable, or facts that do not match          *)
(*   continue   an active checkpoint of this very attempt                  *)
(*   published  committed at `at`        cancelled  cancelled at `at`      *)
Answer == [kind : {"none", "defer", "continue", "published", "cancelled"}, at : Nat]

Answers(j) ==
    {[kind |-> k, at |-> 0] : k \in AnswerKinds \cap {"none", "defer", "continue"}}
      \cup {[kind |-> k, at |-> t] : k \in AnswerKinds \cap {"published", "cancelled"},
                                     t \in {LastAttempt(job[j]).started_at, clock}}

(* _publication_completion accepts the authority's own finish time when it *)
(* lies in the attempt's lifetime.                                         *)
Authoritative(jb, ans) ==
    /\ ans.kind \in {"published", "cancelled"}
    /\ LastAttempt(jb).started_at <= ans.at

PublicationCompletion(jb, ans, now) ==
    FinishAttempt(jb, IF ans.kind = "published" THEN "SUCCEEDED" ELSE "CANCELLED",
                  MaxOf(MaxOf(now, jb.updated_at), ans.at), ans.at, FALSE)

CompletionEvents(ans) ==
    IF ans.kind = "published"
      THEN << Ev("RUNNING", "SUCCEEDED", "publication_recovered") >>
      ELSE << Ev("RUNNING", "CANCELLED", "publication_cancelled") >>

(* _defer_publication: no version, attempt or lease changes.               *)
Defer(j) ==
    /\ recovery_at' = [recovery_at EXCEPT ![j] = clock + RecoveryDelay]
    /\ UNCHANGED <<job, outbox, lease>>

(* Mutant: the recovered row keeps the lease of its last owner.            *)
ReconcileKeepingLease(j, now, ans) ==
    /\ Authoritative(job[j], ans)
    /\ Persist(j, PublicationCompletion(job[j], ans, now),
               CompletionEvents(ans), lease[j])
    /\ UNCHANGED recovery_at

(* _reconcile_publication without allow_continuation, for an answer that   *)
(* it handles.                                                             *)
Reconcile(j, now, ans) ==
    /\ ans.kind # "none"
    /\ \/ /\ Authoritative(job[j], ans)
          /\ Persist(j, PublicationCompletion(job[j], ans, now),
                     CompletionEvents(ans), NoLease)
          /\ UNCHANGED recovery_at
       \/ /\ ~Authoritative(job[j], ans) /\ ans.kind # "continue"
          /\ Defer(j)
       \/ /\ ans.kind = "continue"
          /\ UNCHANGED <<job, outbox, lease, recovery_at>>

-----------------------------------------------------------------------------
(* Submission *)

KeyTaken(k) == \E j \in JobIds : HasRow(j) /\ job[j].key = k

(* Rows that count against the scope's capacity.                           *)
ActiveRows == {j \in JobIds : job[j].state \in {"PENDING", "QUEUED", "RETRYING", "RUNNING"}}

CreatedEvent == Ev("ABSENT", "PENDING", "created")

(* create_or_replay of a new key; a replay of a known one changes nothing. *)
CreateOrReplay(j, k, now) ==
    /\ job[j].state = "ABSENT" /\ ~KeyTaken(k)
    /\ Persist(j, CreateJob(k, now), << CreatedEvent >>, NoLease)
    /\ UNCHANGED <<clock, recovery_at, issued, held>>

(* enqueue of a new key: insert PENDING, then QUEUED, in one transaction.  *)
Enqueue(j, k, now) ==
    /\ job[j].state = "ABSENT" /\ ~KeyTaken(k)
    /\ Cardinality(ActiveRows) < MaxPending
    /\ LET created == CreateJob(k, now) IN
       Persist(j, Move(created, "QUEUED", now, created.available_at),
               << CreatedEvent, Ev("PENDING", "QUEUED", "enqueued") >>, NoLease)
    /\ UNCHANGED <<clock, recovery_at, issued, held>>

(* enqueue of a key whose job was created but never queued.                *)
EnqueuePending(j) ==
    /\ job[j].state = "PENDING"
    /\ Persist(j, Move(job[j], "QUEUED", job[j].updated_at, job[j].available_at),
               << Ev("PENDING", "QUEUED", "enqueued") >>, NoLease)
    /\ UNCHANGED <<clock, recovery_at, issued, held>>

(* transition: the repository port.  Of the contract's moves it can take   *)
(* only these, because no row rests in FAILED or RETRYING, RUNNING is      *)
(* entered by claim and a finished attempt needs a result or a failure.    *)
Transition(j, to, now) ==
    /\ to \in {"QUEUED", "CANCELLED"} /\ CanMove(job[j], to, now)
    /\ Persist(j, Move(job[j], to, now, job[j].available_at),
               << Ev(job[j].state, to, "transition") >>, NoLease)
    /\ UNCHANGED <<clock, recovery_at, issued, held>>

(* schedule, through save: a QUEUED row gets a new start time, which also  *)
(* moves updated_at forward, possibly into the future.                     *)
Schedule(j, target) ==
    /\ job[j].state = "QUEUED" /\ job[j].version < MaxVersion
    /\ Persist(j, NextVersion(job[j], "QUEUED", job[j].attempts,
                              MaxOf(target, job[j].created_at),
                              MaxOf(target, job[j].updated_at)),
               << Ev("QUEUED", "QUEUED", "transition") >>, lease[j])
    /\ UNCHANGED <<clock, recovery_at, issued, held>>

(* replay_dead_letter: a new job under a new id and a new key; capacity is *)
(* not counted here.                                                       *)
ReplayDeadLetter(d, j, k, now) ==
    /\ job[d].state = "DEAD_LETTER"
    /\ job[j].state = "ABSENT" /\ ~KeyTaken(k)
    /\ LET created == CreateJob(k, now) IN
       Persist(j, Move(created, "QUEUED", now, created.available_at),
               << CreatedEvent, Ev("PENDING", "QUEUED", "replay_enqueued") >>, NoLease)
    /\ UNCHANGED <<clock, recovery_at, issued, held>>

(* prune_terminal: retention deletes the row and frees its key.            *)
Prune(j) ==
    /\ job[j].state \in Terminal
    /\ job' = [job EXCEPT ![j].state = "PRUNED"]
    /\ lease' = [lease EXCEPT ![j] = NoLease]
    /\ recovery_at' = [recovery_at EXCEPT ![j] = 0]
    /\ UNCHANGED <<clock, issued, outbox, held>>

(* Mutant: cancellation does not consult the transition table.             *)
CancelAnything(j, now, ans) ==
    /\ \/ /\ ~Running(j)
          /\ Persist(j, Move(job[j], "CANCELLED", now, job[j].available_at),
                     << Ev(job[j].state, "CANCELLED", "cancelled") >>, NoLease)
          /\ UNCHANGED recovery_at
       \/ Running(j) /\ Reconcile(j, now, ans)
    /\ UNCHANGED <<clock, issued, held>>

(* cancel: a request of the API.  A job that runs is only reconciled; the  *)
(* caller never gains the power of its lease.                              *)
Cancel(j, now, ans) ==
    /\ \/ /\ ~Running(j) /\ CanMove(job[j], "CANCELLED", now)
          /\ Persist(j, Move(job[j], "CANCELLED", now, job[j].available_at),
                     << Ev(job[j].state, "CANCELLED", "cancelled") >>, NoLease)
          /\ UNCHANGED recovery_at
       \/ Running(j) /\ Reconcile(j, now, ans)
    /\ UNCHANGED <<clock, issued, held>>

(* recover_publication: the API polls a running job.                       *)
RecoverPublication(j, now, ans) ==
    /\ Running(j)
    /\ Reconcile(j, now, ans)
    /\ UNCHANGED <<clock, issued, held>>

-----------------------------------------------------------------------------
(* claim: recover what has expired, then start what is due *)

(* Mutants: live leases are swept; deferred rows are never revisited.      *)
ExpiredAlways(j) == Running(j) /\ recovery_at[j] <= clock

ExpiredOnce(j) == Running(j) /\ lease[j].until <= clock /\ recovery_at[j] = 0

Expired(j) ==
    Running(j) /\ lease[j].until <= clock /\ recovery_at[j] <= clock

(* Mutant: recovery trusts the clock of a host that lags.                  *)
RecoveredLagging(j, now, ans) ==
    CASE ans.kind = "none" -> AfterFailure(job[j], now, TRUE)
      [] Authoritative(job[j], ans) -> PublicationCompletion(job[j], ans, now)
      [] OTHER -> job[j]

(* One row of _recover_expired.                                            *)
Recovered(j, now, ans) ==
    CASE ans.kind = "none" -> AfterFailure(job[j], MaxOf(now, job[j].updated_at), TRUE)
      [] Authoritative(job[j], ans) ->
            PublicationCompletion(job[j], ans, MaxOf(now, job[j].updated_at))
      [] OTHER -> job[j]

RecoveryEvents(j, ans) ==
    CASE ans.kind = "none" -> FailureEvents(job[j], TRUE, "lease_expired")
      [] Authoritative(job[j], ans) -> CompletionEvents(ans)
      [] OTHER -> << >>

(* Continuations keep their attempt and compete with due rows on age; one  *)
(* that was resumed before is as old as its last resumption.               *)
ClaimAge(j, resumed) ==
    IF resumed /\ recovery_at[j] # 0 THEN recovery_at[j] ELSE job[j].created_at

Precedes(a, b) ==
    \E n \in DOMAIN a : a[n] < b[n] /\ \A m \in 1..(n - 1) : a[m] = b[m]

(* Mutant: the limit is applied before busy rows are skipped.              *)
OldestOfAll(resumable, due, limit) ==
    {j \in resumable \cup due :
        Cardinality({i \in ActiveRows \cup due :
                        Precedes(<< job[i].created_at, i >>, << job[j].created_at, j >>)}) < limit}

(* The `limit` oldest of the candidates.                                   *)
Oldest(resumable, due, limit) ==
    LET candidates == resumable \cup due
        Rank(j) == << ClaimAge(j, j \in resumable), job[j].created_at, j >>
    IN  {j \in candidates :
            Cardinality({i \in candidates : Precedes(Rank(i), Rank(j))}) < limit}

(* Mutant: a resumed attempt is started afresh.                            *)
ResumeAttemptAnew(jb, now) ==
    NextVersion(jb, "RUNNING", [jb.attempts EXCEPT ![Len(jb.attempts)].started_at = now],
                jb.available_at, MaxOf(now, jb.updated_at))

(* A continuation keeps attempt, worker and start; only the lease changes  *)
(* hands.                                                                  *)
ResumeAttempt(jb, now) ==
    NextVersion(jb, "RUNNING", jb.attempts, jb.available_at, MaxOf(now, jb.updated_at))

(* claim: `seen` are the rows no other transaction has locked (SKIP        *)
(* LOCKED) and ans[j] is the reconciler's answer for each expired one.  A  *)
(* job that cannot start at `now` makes the whole transaction roll back.   *)
Claim(w, now, seen, ans) ==
    LET expired == {j \in seen : Expired(j)}
        resumable == {j \in expired : ans[j].kind = "continue"}
        swept == [j \in JobIds |->
                    IF j \in expired THEN Recovered(j, now, ans[j]) ELSE job[j]]
        due == {j \in seen : swept[j].state = "QUEUED" /\ swept[j].available_at <= clock}
        chosen == Oldest(resumable, due, ClaimLimit)
        freed == {j \in expired : swept[j].state # "RUNNING"}
        resumed == chosen \cap resumable
        begun == chosen \ resumable
    IN  /\ \A j \in begun : CanStartAttempt(swept[j], now)
        /\ expired # {} \/ chosen # {}
        /\ job' = [j \in JobIds |->
              CASE j \in begun   -> StartAttempt(swept[j], w, now)
                [] j \in resumed -> ResumeAttempt(job[j], now)
                [] OTHER         -> swept[j]]
        /\ outbox' = [j \in JobIds |->
              outbox[j] \o (IF j \in expired THEN RecoveryEvents(j, ans[j]) ELSE << >>)
                        \o (CASE j \in begun   -> << Ev("QUEUED", "RUNNING", "claimed") >>
                              [] j \in resumed -> << Ev("RUNNING", "RUNNING", "checkpoint_resumed") >>
                              [] OTHER         -> << >>)]
        /\ lease' = [j \in JobIds |->
              CASE j \in chosen -> [worker |-> w, token |-> issued[j] + 1,
                                    until |-> clock + LeaseSeconds]
                [] j \in freed \ chosen -> NoLease
                [] OTHER        -> lease[j]]
        /\ recovery_at' = [j \in JobIds |->
              CASE j \in resumed -> clock
                [] j \in expired \ (freed \cup resumable) -> clock + RecoveryDelay
                [] OTHER -> recovery_at[j]]
        /\ issued' = [j \in JobIds |-> IF j \in chosen THEN issued[j] + 1 ELSE issued[j]]
        /\ held' = held \cup {[job |-> j, worker |-> w, token |-> issued[j] + 1,
                               version |-> job'[j].version,
                               deadline |-> now + HandlerTimeout] : j \in chosen}
        /\ UNCHANGED clock

-----------------------------------------------------------------------------
(* Operations of a lease holder *)

(* Mutant: the fence trusts the worker's name.                             *)
LockLeaseByWorker(l) ==
    Running(l.job) /\ lease[l.job].worker = l.worker /\ lease[l.job].until > clock

(* _lock_lease, and the lease_guard of _persist: the fence every operation *)
(* of a worker must pass.                                                  *)
LockLease(l) ==
    /\ Running(l.job)
    /\ lease[l.job].worker = l.worker
    /\ lease[l.job].token = l.token
    /\ job[l.job].version = l.version
    /\ lease[l.job].until > clock

(* heartbeat: renews the lease and leaves the version alone.               *)
Heartbeat(l) ==
    /\ LockLease(l)
    /\ lease' = [lease EXCEPT ![l.job].until = clock + LeaseSeconds]
    /\ UNCHANGED <<clock, job, recovery_at, issued, outbox, held>>

(* acknowledge: success of the handler.  Publication authority, when the   *)
(* reconciler has any, decides; what it does not confirm is deferred.  The *)
(* deadline is checked on the caller's clock, and again on the database's  *)
(* by the update of the row.                                               *)
Acknowledge(l, now, ans) ==
    LET j == l.job IN
    /\ now < l.deadline
    /\ LockLease(l)
    /\ \/ /\ ans.kind = "none" /\ clock < l.deadline
          /\ CanFinishAttempt(job[j], now, now)
          /\ Persist(j, FinishAttempt(job[j], "SUCCEEDED", now, now, FALSE),
                     << Ev("RUNNING", "SUCCEEDED", "acknowledged") >>, NoLease)
          /\ UNCHANGED recovery_at
       \/ /\ ans.kind = "published" /\ Authoritative(job[j], ans) /\ clock < l.deadline
          /\ Persist(j, PublicationCompletion(job[j], ans, now),
                     << Ev("RUNNING", "SUCCEEDED", "acknowledged") >>, NoLease)
          /\ UNCHANGED recovery_at
       \/ /\ ans.kind # "none"
          /\ ~(ans.kind = "published" /\ Authoritative(job[j], ans))
          /\ Defer(j)
    /\ UNCHANGED <<clock, issued, held>>

(* fail: failure of the handler; publication authority is asked first.     *)
Fail(l, retryable, now, ans) ==
    LET j == l.job IN
    /\ LockLease(l)
    /\ \/ Reconcile(j, now, ans)
       \/ /\ ans.kind = "none"
          /\ CanFinishAttempt(job[j], now, now)
          /\ Persist(j, AfterFailure(job[j], now, retryable),
                     FailureEvents(job[j], retryable, "failed"), NoLease)
          /\ UNCHANGED recovery_at
    /\ UNCHANGED <<clock, issued, held>>

(* cancel_lease: the owner gives up; a committed publication still wins.   *)
CancelLease(l, now, ans) ==
    LET j == l.job IN
    /\ LockLease(l)
    /\ \/ Reconcile(j, now, ans)
       \/ /\ ans.kind = "none"
          /\ CanFinishAttempt(job[j], now, now)
          /\ Persist(j, FinishAttempt(job[j], "CANCELLED", now, now, FALSE),
                     << Ev("RUNNING", "CANCELLED", "cancelled") >>, NoLease)
          /\ UNCHANGED recovery_at
    /\ UNCHANGED <<clock, issued, held>>

(* A worker process forgets a lease: it is done with it, or it crashed.    *)
Forget(l) ==
    /\ held' = held \ {l}
    /\ UNCHANGED <<clock, job, lease, recovery_at, issued, outbox>>

Tick ==
    /\ clock < Horizon
    /\ clock' = clock + 1
    /\ UNCHANGED <<job, lease, recovery_at, issued, outbox, held>>

-----------------------------------------------------------------------------
Init ==
    /\ clock = 0
    /\ job = [j \in JobIds |-> NoJob]
    /\ lease = [j \in JobIds |-> NoLease]
    /\ recovery_at = [j \in JobIds |-> 0]
    /\ issued = [j \in JobIds |-> 0]
    /\ outbox = [j \in JobIds |-> << >>]
    /\ held = {}

Submit ==
    \/ \E j \in JobIds, k \in Keys, now \in HostTimes :
          CreateOrReplay(j, k, now) \/ Enqueue(j, k, now)
    \/ \E d, j \in JobIds, k \in Keys, now \in HostTimes : ReplayDeadLetter(d, j, k, now)
    \/ \E j \in JobIds : EnqueuePending(j)
    \/ \E j \in JobIds, to \in JobState, now \in HostTimes : Transition(j, to, now)
    \/ \E j \in JobIds, target \in 0..Horizon : Schedule(j, target)

Control ==
    \E j \in JobIds :
        \/ Prune(j)
        \/ \E now \in HostTimes :
              /\ HasRow(j)
              /\ \E ans \in IF Running(j) THEN Answers(j) ELSE {[kind |-> "none", at |-> 0]} :
                    Cancel(j, now, ans) \/ RecoverPublication(j, now, ans)

ClaimAnswers(seen) ==
    {f \in [JobIds -> UNION {Answers(j) : j \in {i \in seen : Expired(i)}}
                        \cup {[kind |-> "none", at |-> 0]}] :
        \A j \in JobIds : IF j \in seen /\ Expired(j) THEN f[j] \in Answers(j)
                          ELSE f[j] = [kind |-> "none", at |-> 0]}

ClaimSome ==
    \E w \in WorkerIds, now \in HostTimes, seen \in SUBSET JobIds :
        \E ans \in ClaimAnswers(seen) : Claim(w, now, seen, ans)

Work ==
    \E l \in held :
        \/ Heartbeat(l)
        \/ Forget(l)
        \/ /\ Running(l.job)
           /\ \E now \in HostTimes, ans \in Answers(l.job) :
                 \/ Acknowledge(l, now, ans)
                 \/ CancelLease(l, now, ans)
                 \/ \E retryable \in BOOLEAN : Fail(l, retryable, now, ans)

Next == Submit \/ Control \/ ClaimSome \/ Work \/ Tick

Spec == Init /\ [][Next]_vars

-----------------------------------------------------------------------------
(* Every variable keeps its type.                                          *)
TypeOK ==
    /\ clock \in Nat
    /\ job \in [JobIds -> Job]
    /\ lease \in [JobIds -> Lease]
    /\ recovery_at \in [JobIds -> Nat]
    /\ issued \in [JobIds -> Nat]
    /\ outbox \in [JobIds -> Seq(Event)]
    /\ held \subseteq HeldLease

(* Every committed row can be decoded: after any interleaving of failures, *)
(* resumptions, reschedules and publication recovery, with hosts whose     *)
(* clocks disagree, no row violates the contract that _decode enforces on  *)
(* every later read of it.                                                 *)
EveryRowDecodes == \A j \in JobIds : HasRow(j) => Decodes(job[j])

(* A job is given up only when its budget is spent or its last failure     *)
(* cannot be retried.                                                      *)
DeadLetterJustified ==
    \A j \in JobIds : job[j].state = "DEAD_LETTER" =>
        AttemptCount(job[j]) = MaxAttempts \/ ~LastAttempt(job[j]).retryable

(* A row carries a lease exactly while its job runs.                       *)
LeaseIffRunning ==
    \A j \in JobIds : Running(j) <=> lease[j] # NoLease

(* However late, often or concurrently old leases are used, at most one    *)
(* lease in any worker's memory passes the fence of a job, and it is the   *)
(* newest: also when the same worker has claimed the job twice.            *)
OnlyNewestLeasePasses ==
    \A l, m \in held :
        l.job = m.job /\ LockLease(l) /\ m.token >= l.token => m = l

(* The strengthening under which ownership is inductive.  A running row    *)
(* carries the newest lease issued for its job and an attempt to finish,   *)
(* any other row carries none; leases in memory were issued, and no token  *)
(* was issued twice.                                                       *)
RowOwned(j) ==
    IF Running(j) THEN /\ lease[j].token = issued[j] /\ issued[j] > 0
                       /\ job[j].attempts # << >>
                  ELSE lease[j] = NoLease

TokensFresh ==
    /\ \A l \in held : l.token <= issued[l.job]
    /\ \A l, m \in held : l.job = m.job /\ l.token = m.token => l = m

OwnershipInv == TypeOK /\ (\A j \in JobIds : RowOwned(j)) /\ TokensFresh

(* The outbox tells the whole story of every job: one event per version,   *)
(* each starting where the last one ended, ending at the committed state,  *)
(* and every step allowed by the transition table except the two that      *)
(* keep the state (a reschedule and a resumed checkpoint).                 *)
AuditTrailComplete ==
    \A j \in JobIds :
        /\ Len(outbox[j]) = job[j].version
        /\ HasRow(j) => outbox[j][Len(outbox[j])].to = job[j].state
        /\ \A v \in 1..Len(outbox[j]) :
              LET e == outbox[j][v] IN
              IF v = 1 THEN e.from = "ABSENT" /\ e.to = "PENDING"
              ELSE /\ e.from = outbox[j][v - 1].to
                   /\ \/ CanTransition(e.from, e.to)
                      \/ e.from = e.to /\ e.to \in {"QUEUED", "RUNNING"}

(* While a lease is live, only its holder or publication authority can end *)
(* the attempt, and nobody else can be given the job.                      *)
LiveLeaseUndisturbed ==
    [][\A j \in JobIds :
         Running(j) /\ lease[j].until > clock =>
            /\ Running(j)' => /\ lease'[j].token = lease[j].token
                              /\ job'[j].version = job[j].version
            /\ ~Running(j)' =>
                  outbox'[j][job[j].version + 1].type # "lease_expired"]_vars

(* Attempt history only grows: a finished attempt never changes, and the   *)
(* active one keeps its worker and its start whoever finishes it.          *)
AttemptHistoryImmutable ==
    [][\A j \in JobIds :
         /\ Len(job'[j].attempts) >= Len(job[j].attempts)
         /\ \A n \in 1..Len(job[j].attempts) :
               LET old == job[j].attempts[n]
                   new == job'[j].attempts[n]
               IN  IF old.state = "RUNNING"
                     THEN old.worker_id = new.worker_id /\ old.started_at = new.started_at
                     ELSE old = new]_vars

(* A settled job stays as it is until retention deletes it, and a deleted  *)
(* one never comes back: no late acknowledgement, retry or recovery        *)
(* reopens it.                                                             *)
SettledIsFinal ==
    [][\A j \in JobIds :
         /\ job[j].state \in Terminal =>
               job'[j] = job[j] \/ job'[j] = [job[j] EXCEPT !.state = "PRUNED"]
         /\ job[j].state = "PRUNED" => job'[j] = job[j]]_vars

(* The queue implements the lifecycle it promises.                         *)
PhaseOf(jb) ==
    CASE jb.state = "ABSENT"      -> "absent"
      [] jb.state = "RUNNING"     -> "owned"
      [] jb.state = "SUCCEEDED"   -> "succeeded"
      [] jb.state = "CANCELLED"   -> "cancelled"
      [] jb.state = "DEAD_LETTER" -> "dead"
      [] jb.state = "PRUNED"      -> "gone"
      [] OTHER                    -> "waiting"

Lifecycle == INSTANCE JobLifecycle WITH
    Jobs <- JobIds, MaxTries <- MaxAttempts,
    phase <- [j \in JobIds |-> PhaseOf(job[j])],
    tries <- [j \in JobIds |-> AttemptCount(job[j])],
    grants <- issued

ImplementsLifecycle == Lifecycle!Spec

-----------------------------------------------------------------------------
(* Some worker keeps polling (run_forever), and other transactions release *)
(* their locks, so that polls that see every row keep happening.           *)
Poll ==
    \E w \in WorkerIds, now \in HostTimes :
        \E ans \in ClaimAnswers(JobIds) : Claim(w, now, JobIds, ans)

FairSpec == Spec /\ WF_vars(Poll)

(* A due job does not wait forever, even behind others and one at a time.  *)
DueIsClaimed ==
    \A j \in JobIds :
        (job[j].state = "QUEUED" /\ job[j].available_at <= clock)
            ~> (job[j].state # "QUEUED" \/ job[j].available_at > clock)

(* A job whose owner is gone is picked up again: it is retried, given up,  *)
(* completed from its publication, resumed, or put off once more.          *)
ExpiredIsRecovered ==
    \A j \in JobIds :
        (Running(j) /\ lease[j].until <= clock /\ recovery_at[j] <= clock)
            ~> ~(Running(j) /\ lease[j].until <= clock /\ recovery_at[j] <= clock)
=============================================================================
