---------------------------- MODULE JobQueueProofs ----------------------------
(* Proofs about JobQueue for any number of jobs, workers, keys and         *)
(* attempts, any lease length and any clock skew.                          *)
EXTENDS JobQueue, SequenceTheorems, TLAPS

(* The functions of the contract build Job values.                         *)
LEMMA NextVersionType ==
    ASSUME NEW jb \in Job, NEW to \in JobState, NEW as \in Seq(JobAttempt),
           NEW available \in Nat, NEW now \in Nat
    PROVE  NextVersion(jb, to, as, available, now) \in Job
<1>1. jb.version + 1 \in Nat /\ jb.key \in Keys \cup {NoKey} /\ jb.created_at \in Nat
  BY DEF Job
<1> QED
  BY <1>1 DEF NextVersion, Job

LEMMA CreateJobType ==
    ASSUME NEW k \in Keys, NEW now \in Nat
    PROVE  CreateJob(k, now) \in Job
<1>1. << >> \in Seq(JobAttempt)
  OBVIOUS
<1> QED
  BY <1>1 DEF CreateJob, Job, JobState, NoRow

LEMMA MoveType ==
    ASSUME NEW jb \in Job, NEW to \in JobState, NEW now \in Nat, NEW available \in Nat
    PROVE  Move(jb, to, now, available) \in Job
<1>1. jb.attempts \in Seq(JobAttempt)
  BY DEF Job
<1> QED
  BY <1>1, NextVersionType DEF Move

LEMMA StartAttemptType ==
    ASSUME NEW jb \in Job, NEW w \in WorkerIds, NEW now \in Nat
    PROVE  StartAttempt(jb, w, now) \in Job
<1> DEFINE a == [worker_id |-> w, state |-> "RUNNING", started_at |-> now,
                 finished_at |-> 0, retryable |-> FALSE]
<1>1. a \in JobAttempt
  BY DEF JobAttempt, AttemptState
<1>2. Append(jb.attempts, a) \in Seq(JobAttempt) /\ jb.available_at \in Nat
  BY <1>1 DEF Job
<1>3. "RUNNING" \in JobState
  BY DEF JobState
<1> QED
  BY <1>2, <1>3, NextVersionType DEF StartAttempt

LEMMA FinishAttemptType ==
    ASSUME NEW jb \in Job, NEW to \in {"SUCCEEDED", "FAILED", "CANCELLED"},
           NEW now \in Nat, NEW finished \in Nat, NEW retryable \in BOOLEAN
    PROVE  FinishAttempt(jb, to, now, finished, retryable) \in Job
<1> DEFINE n == Len(jb.attempts)
           f == FinishedAttempt(jb.attempts[n], to, finished, retryable)
           s == [jb.attempts EXCEPT ![n] = f]
<1>1. jb.attempts \in Seq(JobAttempt) /\ jb.available_at \in Nat
  BY DEF Job
<1>2. s \in Seq(JobAttempt)
  <2>1. CASE n = 0
    <3>1. DOMAIN jb.attempts = {}
      BY <1>1, <2>1
    <3>2. DOMAIN s = {} /\ s = [i \in {} |-> s[i]]
      BY <3>1
    <3>3. s = << >>
      BY <3>2
    <3> HIDE DEF s
    <3> QED
      BY <3>3
  <2>2. CASE n # 0
    <3>1. n \in 1..Len(jb.attempts)
      BY <1>1, <2>2
    <3>2. jb.attempts[n] \in JobAttempt
      BY <1>1, <3>1
    <3>3. f \in JobAttempt
      BY <3>2 DEF FinishedAttempt, JobAttempt, AttemptState
    <3> QED
      BY <1>1, <3>1, <3>3
  <2> QED
    BY <2>1, <2>2
<1>3. to \in JobState
  BY DEF JobState
<1> QED
  BY <1>1, <1>2, <1>3, NextVersionType DEF FinishAttempt

LEMMA BackoffType == ASSUME NEW n \in Nat PROVE Backoff(n) \in Nat
<1> DEFINE i == MinOf(MaxOf(0, n - 1), 16)
<1>1. i \in 0..16
  BY DEF MinOf, MaxOf
<1> HIDE DEF i
<1>2. PowerOfTwo[i] \in Nat
  BY <1>1, PowerAssumption
<1> DEFINE p == BackoffSeconds * PowerOfTwo[i]
<1>3. p \in Nat
  BY <1>2, QueueAssumption
<1>4. Backoff(n) = MinOf(BackoffCap, p)
  BY DEF Backoff, i
<1> HIDE DEF p
<1> QED
  BY <1>3, <1>4, QueueAssumption DEF MinOf

(* After a failed attempt the job is queued again or given up.             *)
LEMMA AfterFailureType ==
    ASSUME NEW jb \in Job, NEW now \in Nat, NEW retryable \in BOOLEAN
    PROVE  /\ AfterFailure(jb, now, retryable) \in Job
           /\ AfterFailure(jb, now, retryable).state \in {"QUEUED", "DEAD_LETTER"}
<1> DEFINE failed == FinishAttempt(jb, "FAILED", now, now, retryable)
           retrying == Move(failed, "RETRYING", now, failed.available_at)
           delay == Backoff(AttemptCount(jb))
<1>1. failed \in Job
  BY FinishAttemptType
<1>2. failed.available_at \in Nat
  BY <1>1 DEF Job
<1>3. {"RETRYING", "QUEUED", "DEAD_LETTER"} \subseteq JobState
  BY DEF JobState
<1> HIDE DEF failed
<1>4. retrying \in Job
  BY <1>1, <1>2, <1>3, MoveType
<1>5. now + delay \in Nat
  <2>1. AttemptCount(jb) \in Nat
    BY DEF Job, AttemptCount
  <2> QED
    BY <2>1, BackoffType
<1> HIDE DEF retrying, delay
<1>6. /\ Move(retrying, "QUEUED", now, now + delay) \in Job
      /\ Move(failed, "DEAD_LETTER", now, failed.available_at) \in Job
  BY <1>1, <1>2, <1>3, <1>4, <1>5, MoveType
<1>7. /\ Move(retrying, "QUEUED", now, now + delay).state = "QUEUED"
      /\ Move(failed, "DEAD_LETTER", now, failed.available_at).state = "DEAD_LETTER"
  BY DEF Move, NextVersion
<1>8. AfterFailure(jb, now, retryable) =
        IF RetryEligible(failed) THEN Move(retrying, "QUEUED", now, now + delay)
        ELSE Move(failed, "DEAD_LETTER", now, failed.available_at)
  BY DEF AfterFailure, failed, retrying, delay
<1> QED
  BY <1>6, <1>7, <1>8

LEMMA PublicationCompletionType ==
    ASSUME NEW jb \in Job, NEW now \in Nat, NEW ans \in Answer
    PROVE  /\ PublicationCompletion(jb, ans, now) \in Job
           /\ PublicationCompletion(jb, ans, now).state \in {"SUCCEEDED", "CANCELLED"}
<1> DEFINE to == IF ans.kind = "published" THEN "SUCCEEDED" ELSE "CANCELLED"
           t == MaxOf(MaxOf(now, jb.updated_at), ans.at)
<1>1. to \in {"SUCCEEDED", "FAILED", "CANCELLED"} /\ to \in {"SUCCEEDED", "CANCELLED"}
  OBVIOUS
<1>2. t \in Nat /\ ans.at \in Nat
  BY DEF MaxOf, Job, Answer
<1> HIDE DEF to, t
<1>3. FinishAttempt(jb, to, t, ans.at, FALSE) \in Job
  BY <1>1, <1>2, FinishAttemptType
<1>4. FinishAttempt(jb, to, t, ans.at, FALSE).state = to
  BY DEF FinishAttempt, NextVersion
<1> QED
  BY <1>1, <1>3, <1>4 DEF PublicationCompletion, to, t

LEMMA FailureEventsType ==
    ASSUME NEW jb, NEW retryable, NEW type \in EventType
    PROVE  FailureEvents(jb, retryable, type) \in Seq(Event)
<1>1. /\ Ev("RUNNING", "FAILED", type) \in Event
      /\ Ev("FAILED", "RETRYING", "retrying") \in Event
      /\ Ev("RETRYING", "QUEUED", "requeued") \in Event
      /\ Ev("FAILED", "DEAD_LETTER", "dead_lettered") \in Event
  BY DEF Ev, Event, EventType, JobState
<1> QED
  BY <1>1 DEF FailureEvents

LEMMA CompletionEventsType ==
    ASSUME NEW ans PROVE CompletionEvents(ans) \in Seq(Event)
<1>1. /\ Ev("RUNNING", "SUCCEEDED", "publication_recovered") \in Event
      /\ Ev("RUNNING", "CANCELLED", "publication_cancelled") \in Event
  BY DEF Ev, Event, EventType, JobState
<1> QED
  BY <1>1 DEF CompletionEvents

-----------------------------------------------------------------------------
(* The inputs of the actions are well typed.                               *)
LEMMA HostTimesType == ASSUME NEW now \in HostTimes PROVE now \in Nat
BY QueueAssumption DEF HostTimes

LEMMA NoneType == [kind |-> "none", at |-> 0] \in Answer
BY DEF Answer

LEMMA AnswersType ==
    ASSUME OwnershipInv, NEW j \in JobIds, Running(j), NEW ans \in Answers(j)
    PROVE  ans \in Answer
<1>1. /\ job[j].attempts \in Seq(JobAttempt) /\ job[j].attempts # << >>
      /\ clock \in Nat
  BY DEF OwnershipInv, TypeOK, RowOwned, Job
<1>2. LastAttempt(job[j]) \in JobAttempt
  BY <1>1 DEF LastAttempt
<1>3. LastAttempt(job[j]).started_at \in Nat
  BY <1>2 DEF JobAttempt
<1> HIDE DEF LastAttempt
<1> QED
  BY <1>1, <1>3, QueueAssumption DEF Answers, Answer

(* A row that leaves, or stays out of, RUNNING gives up its lease.  Every  *)
(* operation but claim, heartbeat and retention persists a row this way.   *)
LEMMA PersistKeepsOwnership ==
    ASSUME OwnershipInv, NEW j \in JobIds, NEW next \in Job, next.state # "RUNNING",
           NEW events \in Seq(Event), Persist(j, next, events, NoLease),
           recovery_at' \in [JobIds -> Nat], UNCHANGED <<clock, issued, held>>
    PROVE  OwnershipInv'
<1>1. NoLease \in Lease
  BY DEF NoLease, Lease
<1>2. /\ job' \in [JobIds -> Job] /\ lease' \in [JobIds -> Lease]
      /\ job'[j] = next /\ lease'[j] = NoLease
      /\ \A i \in JobIds \ {j} : job'[i] = job[i] /\ lease'[i] = lease[i]
  BY <1>1 DEF OwnershipInv, TypeOK, Persist
<1>3. outbox' \in [JobIds -> Seq(Event)]
  <2>1. outbox[j] \o events \in Seq(Event)
    BY DEF OwnershipInv, TypeOK
  <2> QED
    BY <2>1 DEF OwnershipInv, TypeOK, Persist
<1>4. TypeOK'
  BY <1>2, <1>3 DEF OwnershipInv, TypeOK
<1>5. \A i \in JobIds : RowOwned(i)'
  BY <1>2 DEF OwnershipInv, RowOwned, Running
<1>6. TokensFresh'
  BY DEF OwnershipInv, TokensFresh
<1> QED
  BY <1>4, <1>5, <1>6 DEF OwnershipInv

LEMMA DeferKeepsOwnership ==
    ASSUME OwnershipInv, NEW j \in JobIds, Defer(j), UNCHANGED <<clock, issued, held>>
    PROVE  OwnershipInv'
<1>1. recovery_at' \in [JobIds -> Nat]
  BY QueueAssumption DEF OwnershipInv, TypeOK, Defer
<1> QED
  BY <1>1 DEF OwnershipInv, TypeOK, Defer, RowOwned, Running, TokensFresh

LEMMA ReconcileKeepsOwnership ==
    ASSUME OwnershipInv, NEW j \in JobIds, NEW now \in Nat, NEW ans \in Answer,
           Reconcile(j, now, ans), UNCHANGED <<clock, issued, held>>
    PROVE  OwnershipInv'
<1>1. CASE /\ Persist(j, PublicationCompletion(job[j], ans, now),
                      CompletionEvents(ans), NoLease)
           /\ UNCHANGED recovery_at
  <2>1. job[j] \in Job /\ recovery_at' \in [JobIds -> Nat]
    BY <1>1 DEF OwnershipInv, TypeOK
  <2>2. /\ PublicationCompletion(job[j], ans, now) \in Job
        /\ PublicationCompletion(job[j], ans, now).state # "RUNNING"
    BY <2>1, PublicationCompletionType
  <2> QED
    BY <1>1, <2>1, <2>2, CompletionEventsType, PersistKeepsOwnership
<1>2. CASE Defer(j)
  BY <1>2, DeferKeepsOwnership
<1>3. CASE UNCHANGED <<job, outbox, lease, recovery_at>>
  BY <1>3 DEF OwnershipInv, TypeOK, RowOwned, Running, TokensFresh
<1> QED
  BY <1>1, <1>2, <1>3 DEF Reconcile

-----------------------------------------------------------------------------
(* Each operation preserves OwnershipInv.                                  *)
LEMMA NewRowKeepsOwnership ==
    ASSUME OwnershipInv, NEW j \in JobIds, NEW k \in Keys, NEW now \in Nat,
           \/ CreateOrReplay(j, k, now)
           \/ Enqueue(j, k, now)
           \/ \E d \in JobIds : ReplayDeadLetter(d, j, k, now)
    PROVE  OwnershipInv'
<1> DEFINE created == CreateJob(k, now)
           queued == Move(created, "QUEUED", now, created.available_at)
<1>1. recovery_at' \in [JobIds -> Nat] /\ UNCHANGED <<clock, issued, held>>
  BY DEF OwnershipInv, TypeOK, CreateOrReplay, Enqueue, ReplayDeadLetter
<1>2. created \in Job /\ created.state # "RUNNING"
  BY CreateJobType DEF CreateJob
<1>3. queued \in Job /\ queued.state # "RUNNING"
  <2>1. created.available_at \in Nat /\ "QUEUED" \in JobState
    BY DEF CreateJob, JobState
  <2>2. queued.state = "QUEUED"
    BY DEF Move, NextVersion
  <2> QED
    BY <1>2, <2>1, <2>2, MoveType
<1>4. /\ CreatedEvent \in Event
      /\ Ev("PENDING", "QUEUED", "enqueued") \in Event
      /\ Ev("PENDING", "QUEUED", "replay_enqueued") \in Event
  BY DEF CreatedEvent, Ev, Event, EventType, JobState, NoRow
<1>5. /\ << CreatedEvent >> \in Seq(Event)
      /\ << CreatedEvent, Ev("PENDING", "QUEUED", "enqueued") >> \in Seq(Event)
      /\ << CreatedEvent, Ev("PENDING", "QUEUED", "replay_enqueued") >> \in Seq(Event)
  BY <1>4
<1>6. CASE CreateOrReplay(j, k, now)
  BY <1>1, <1>2, <1>5, <1>6, PersistKeepsOwnership DEF CreateOrReplay
<1>7. CASE Enqueue(j, k, now)
  BY <1>1, <1>3, <1>5, <1>7, PersistKeepsOwnership DEF Enqueue
<1>8. CASE \E d \in JobIds : ReplayDeadLetter(d, j, k, now)
  BY <1>1, <1>3, <1>5, <1>8, PersistKeepsOwnership DEF ReplayDeadLetter
<1> QED
  BY <1>6, <1>7, <1>8

(* A row that is not running moves to another state in which it does not.  *)
LEMMA MoveKeepsOwnership ==
    ASSUME OwnershipInv, NEW j \in JobIds, NEW to \in JobState, to # "RUNNING",
           NEW now \in Nat, NEW from \in JobState, NEW type \in EventType,
           Persist(j, Move(job[j], to, now, job[j].available_at),
                   << Ev(from, to, type) >>, NoLease),
           UNCHANGED <<clock, recovery_at, issued, held>>
    PROVE  OwnershipInv'
<1>1. job[j] \in Job /\ recovery_at' \in [JobIds -> Nat]
  BY DEF OwnershipInv, TypeOK
<1>2. /\ Move(job[j], to, now, job[j].available_at) \in Job
      /\ Move(job[j], to, now, job[j].available_at).state = to
  <2>1. job[j].available_at \in Nat
    BY <1>1 DEF Job
  <2> QED
    BY <1>1, <2>1, MoveType DEF Move, NextVersion
<1>3. << Ev(from, to, type) >> \in Seq(Event)
  BY DEF Ev, Event
<1> QED
  BY <1>1, <1>2, <1>3, PersistKeepsOwnership

LEMMA EnqueuePendingKeepsOwnership ==
    ASSUME OwnershipInv, NEW j \in JobIds, EnqueuePending(j)
    PROVE  OwnershipInv'
<1>1. job[j] \in Job
  BY DEF OwnershipInv, TypeOK
<1>2. job[j].updated_at \in Nat /\ {"PENDING", "QUEUED"} \subseteq JobState
  BY <1>1 DEF Job, JobState
<1>3. "enqueued" \in EventType
  BY DEF EventType
<1> QED
  BY <1>2, <1>3, MoveKeepsOwnership DEF EnqueuePending

LEMMA TransitionKeepsOwnership ==
    ASSUME OwnershipInv, NEW j \in JobIds, NEW to \in JobState, NEW now \in Nat,
           Transition(j, to, now)
    PROVE  OwnershipInv'
<1>1. job[j].state \in JobState
  BY DEF Transition, CanMove, CanTransition, AllowedTransitions, JobState
<1>2. to # "RUNNING" /\ "transition" \in EventType
  BY DEF Transition, EventType
<1> QED
  BY <1>1, <1>2, MoveKeepsOwnership DEF Transition

LEMMA ScheduleKeepsOwnership ==
    ASSUME OwnershipInv, NEW j \in JobIds, NEW target \in Nat, Schedule(j, target)
    PROVE  OwnershipInv'
<1> DEFINE next == NextVersion(job[j], "QUEUED", job[j].attempts,
                               MaxOf(target, job[j].created_at),
                               MaxOf(target, job[j].updated_at))
<1>1. job[j] \in Job /\ recovery_at' \in [JobIds -> Nat]
  BY DEF OwnershipInv, TypeOK, Schedule
<1>2. /\ MaxOf(target, job[j].created_at) \in Nat /\ MaxOf(target, job[j].updated_at) \in Nat
      /\ job[j].attempts \in Seq(JobAttempt) /\ "QUEUED" \in JobState
  BY <1>1 DEF MaxOf, Job, JobState
<1>3. next \in Job /\ next.state # "RUNNING"
  <2>1. next.state = "QUEUED"
    BY DEF NextVersion
  <2> QED
    BY <1>1, <1>2, <2>1, NextVersionType
<1>4. << Ev("QUEUED", "QUEUED", "transition") >> \in Seq(Event)
  BY DEF Ev, Event, EventType, JobState
<1>5. lease[j] = NoLease
  BY DEF Schedule, OwnershipInv, RowOwned, Running
<1>6. Persist(j, next, << Ev("QUEUED", "QUEUED", "transition") >>, NoLease)
  BY <1>5 DEF Schedule
<1> HIDE DEF next
<1> QED
  BY <1>1, <1>3, <1>4, <1>6, PersistKeepsOwnership DEF Schedule

LEMMA PruneKeepsOwnership ==
    ASSUME OwnershipInv, NEW j \in JobIds, Prune(j)
    PROVE  OwnershipInv'
<1>1. "PRUNED" \in JobState \cup NoRow /\ NoLease \in Lease
  BY DEF NoRow, NoLease, Lease
<1>2. [job[j] EXCEPT !.state = "PRUNED"] \in Job
  BY <1>1 DEF OwnershipInv, TypeOK, Job
<1>3. /\ job' \in [JobIds -> Job] /\ lease' \in [JobIds -> Lease]
      /\ job'[j].state = "PRUNED" /\ lease'[j] = NoLease
      /\ recovery_at' \in [JobIds -> Nat]
      /\ \A i \in JobIds \ {j} : job'[i] = job[i] /\ lease'[i] = lease[i]
  BY <1>1, <1>2 DEF OwnershipInv, TypeOK, Prune, Job
<1>4. TypeOK'
  BY <1>3 DEF OwnershipInv, TypeOK, Prune
<1>5. \A i \in JobIds : RowOwned(i)'
  BY <1>3 DEF OwnershipInv, RowOwned, Running, Prune
<1> QED
  BY <1>4, <1>5 DEF OwnershipInv, TokensFresh, Prune

LEMMA CancelKeepsOwnership ==
    ASSUME OwnershipInv, NEW j \in JobIds, NEW now \in Nat, NEW ans \in Answer,
           Cancel(j, now, ans) \/ RecoverPublication(j, now, ans)
    PROVE  OwnershipInv'
<1>1. CASE Reconcile(j, now, ans) /\ UNCHANGED <<clock, issued, held>>
  BY <1>1, ReconcileKeepsOwnership
<1>2. CASE Cancel(j, now, ans) /\ ~Running(j)
  <2>1. job[j].state \in JobState
    BY <1>2 DEF Cancel, CanMove, CanTransition, AllowedTransitions, JobState
  <2>2. "CANCELLED" \in JobState /\ "cancelled" \in EventType
    BY DEF JobState, EventType
  <2> QED
    BY <1>2, <2>1, <2>2, MoveKeepsOwnership DEF Cancel
<1> QED
  BY <1>1, <1>2 DEF Cancel, RecoverPublication

LEMMA HeartbeatKeepsOwnership ==
    ASSUME OwnershipInv, NEW l \in held, Heartbeat(l)
    PROVE  OwnershipInv'
<1>1. l.job \in JobIds
  BY DEF OwnershipInv, TypeOK, HeldLease
<1>2. /\ lease' \in [JobIds -> Lease]
      /\ \A i \in JobIds : lease'[i].token = lease[i].token
      /\ \A i \in JobIds \ {l.job} : lease'[i] = lease[i]
  <2> DEFINE renewed == [lease[l.job] EXCEPT !.until = clock + LeaseSeconds]
  <2>1. lease \in [JobIds -> Lease] /\ lease[l.job] \in Lease /\ clock + LeaseSeconds \in Nat
    BY <1>1, QueueAssumption DEF OwnershipInv, TypeOK
  <2>2. renewed \in Lease /\ renewed.token = lease[l.job].token
    BY <2>1 DEF Lease
  <2>3. lease' = [lease EXCEPT ![l.job] = renewed]
    BY DEF Heartbeat
  <2> HIDE DEF renewed
  <2> QED
    BY <1>1, <2>1, <2>2, <2>3
<1>3. TypeOK'
  BY <1>2 DEF OwnershipInv, TypeOK, Heartbeat
<1>4. \A i \in JobIds : RowOwned(i)'
  BY <1>1, <1>2 DEF OwnershipInv, RowOwned, Running, Heartbeat, LockLease
<1> QED
  BY <1>3, <1>4 DEF OwnershipInv, TokensFresh, Heartbeat

(* A holder's attempt ends as the handler, or publication authority, says. *)
LEMMA HolderKeepsOwnership ==
    ASSUME OwnershipInv, NEW l \in held, NEW now \in Nat, NEW ans \in Answer,
           \/ Acknowledge(l, now, ans)
           \/ CancelLease(l, now, ans)
           \/ \E retryable \in BOOLEAN : Fail(l, retryable, now, ans)
    PROVE  OwnershipInv'
<1> DEFINE j == l.job
           done(to) == FinishAttempt(job[j], to, now, now, FALSE)
<1>1. j \in JobIds /\ job[j] \in Job
  BY DEF OwnershipInv, TypeOK, HeldLease
<1>2. UNCHANGED <<clock, issued, held>>
  BY DEF Acknowledge, CancelLease, Fail
<1>3. ASSUME NEW to \in {"SUCCEEDED", "CANCELLED"}
      PROVE  done(to) \in Job /\ done(to).state # "RUNNING"
  <2>1. done(to).state = to
    BY DEF FinishAttempt, NextVersion
  <2> QED
    BY <1>1, <2>1, FinishAttemptType
<1>4. /\ << Ev("RUNNING", "SUCCEEDED", "acknowledged") >> \in Seq(Event)
      /\ << Ev("RUNNING", "CANCELLED", "cancelled") >> \in Seq(Event)
  BY DEF Ev, Event, EventType, JobState
<1>5. UNCHANGED recovery_at => recovery_at' \in [JobIds -> Nat]
  BY DEF OwnershipInv, TypeOK
<1>6. CASE Reconcile(j, now, ans) \/ Defer(j)
  BY <1>1, <1>2, <1>6, ReconcileKeepsOwnership, DeferKeepsOwnership
<1>7. CASE /\ Persist(j, done("SUCCEEDED"),
                      << Ev("RUNNING", "SUCCEEDED", "acknowledged") >>, NoLease)
           /\ UNCHANGED recovery_at
  <2> HIDE DEF j, done
  <2> QED
    BY <1>1, <1>2, <1>3, <1>4, <1>5, <1>7, PersistKeepsOwnership
<1>8. CASE /\ Persist(j, PublicationCompletion(job[j], ans, now),
                      << Ev("RUNNING", "SUCCEEDED", "acknowledged") >>, NoLease)
           /\ UNCHANGED recovery_at
  <2>1. /\ PublicationCompletion(job[j], ans, now) \in Job
        /\ PublicationCompletion(job[j], ans, now).state # "RUNNING"
    BY <1>1, PublicationCompletionType
  <2> HIDE DEF j
  <2> QED
    BY <1>1, <1>2, <1>4, <1>5, <1>8, <2>1, PersistKeepsOwnership
<1>9. CASE /\ Persist(j, done("CANCELLED"),
                      << Ev("RUNNING", "CANCELLED", "cancelled") >>, NoLease)
           /\ UNCHANGED recovery_at
  <2> HIDE DEF j, done
  <2> QED
    BY <1>1, <1>2, <1>3, <1>4, <1>5, <1>9, PersistKeepsOwnership
<1>10. ASSUME NEW retryable \in BOOLEAN,
              Persist(j, AfterFailure(job[j], now, retryable),
                      FailureEvents(job[j], retryable, "failed"), NoLease),
              UNCHANGED recovery_at
       PROVE  OwnershipInv'
  <2>1. /\ AfterFailure(job[j], now, retryable) \in Job
        /\ AfterFailure(job[j], now, retryable).state # "RUNNING"
    BY <1>1, AfterFailureType
  <2>2. FailureEvents(job[j], retryable, "failed") \in Seq(Event)
    BY FailureEventsType DEF EventType
  <2> HIDE DEF j
  <2> QED
    BY <1>1, <1>2, <1>5, <1>10, <2>1, <2>2, PersistKeepsOwnership
<1> QED
  BY <1>6, <1>7, <1>8, <1>9, <1>10 DEF Acknowledge, CancelLease, Fail

(* One row of the recovery sweep: it leaves RUNNING, or it is untouched.   *)
LEMMA RecoveredType ==
    ASSUME NEW j \in JobIds, job[j] \in Job, NEW now \in Nat, NEW ans \in Answer
    PROVE  /\ Recovered(j, now, ans) \in Job
           /\ Recovered(j, now, ans) = job[j] \/ Recovered(j, now, ans).state # "RUNNING"
<1> DEFINE t == MaxOf(now, job[j].updated_at)
<1>1. t \in Nat
  BY DEF MaxOf, Job
<1> HIDE DEF t
<1>2. /\ AfterFailure(job[j], t, TRUE) \in Job
      /\ AfterFailure(job[j], t, TRUE).state # "RUNNING"
  BY <1>1, AfterFailureType
<1>3. /\ PublicationCompletion(job[j], ans, t) \in Job
      /\ PublicationCompletion(job[j], ans, t).state # "RUNNING"
  BY <1>1, PublicationCompletionType
<1>4. Recovered(j, now, ans) \in {AfterFailure(job[j], t, TRUE),
                                  PublicationCompletion(job[j], ans, t), job[j]}
  BY DEF Recovered, t
<1> QED
  BY <1>2, <1>3, <1>4

LEMMA RecoveryEventsType ==
    ASSUME NEW j, NEW ans PROVE RecoveryEvents(j, ans) \in Seq(Event)
<1>1. FailureEvents(job[j], TRUE, "lease_expired") \in Seq(Event)
  BY FailureEventsType DEF EventType
<1>2. << >> \in Seq(Event)
  OBVIOUS
<1>3. RecoveryEvents(j, ans) \in {FailureEvents(job[j], TRUE, "lease_expired"),
                                  CompletionEvents(ans), << >>}
  BY DEF RecoveryEvents
<1> QED
  BY <1>1, <1>2, <1>3, CompletionEventsType

(* A claim gives each chosen row a lease with a token never used before.   *)
LEMMA ClaimKeepsOwnership ==
    ASSUME OwnershipInv, NEW w \in WorkerIds, NEW now \in Nat, NEW seen \in SUBSET JobIds,
           NEW ans \in [JobIds -> Answer], Claim(w, now, seen, ans)
    PROVE  OwnershipInv'
<1> DEFINE expired == {j \in seen : Expired(j)}
           resumable == {j \in expired : ans[j].kind = "continue"}
           swept == [j \in JobIds |->
                       IF j \in expired THEN Recovered(j, now, ans[j]) ELSE job[j]]
           due == {j \in seen : swept[j].state = "QUEUED" /\ swept[j].available_at <= clock}
           chosen == Oldest(resumable, due, ClaimLimit)
           freed == {j \in expired : swept[j].state # "RUNNING"}
           resumed == chosen \cap resumable
           begun == chosen \ resumable
           sweepEvents(j) == IF j \in expired THEN RecoveryEvents(j, ans[j]) ELSE << >>
           claimEvents(j) ==
               CASE j \in begun   -> << Ev("QUEUED", "RUNNING", "claimed") >>
                 [] j \in resumed -> << Ev("RUNNING", "RUNNING", "checkpoint_resumed") >>
                 [] OTHER         -> << >>
           granted(j) == [job |-> j, worker |-> w, token |-> issued[j] + 1,
                          version |-> job'[j].version, deadline |-> now + HandlerTimeout]
<1>1. /\ \A j \in begun : CanStartAttempt(swept[j], now)
      /\ job' = [j \in JobIds |->
            CASE j \in begun   -> StartAttempt(swept[j], w, now)
              [] j \in resumed -> ResumeAttempt(job[j], now)
              [] OTHER         -> swept[j]]
      /\ outbox' = [j \in JobIds |-> outbox[j] \o sweepEvents(j) \o claimEvents(j)]
      /\ lease' = [j \in JobIds |->
            CASE j \in chosen -> [worker |-> w, token |-> issued[j] + 1,
                                  until |-> clock + LeaseSeconds]
              [] j \in freed \ chosen -> NoLease
              [] OTHER        -> lease[j]]
      /\ recovery_at' = [j \in JobIds |->
            CASE j \in resumed -> clock
              [] j \in expired \ (freed \cup resumable) -> clock + RecoveryDelay
              [] OTHER -> recovery_at[j]]
      /\ issued' = [j \in JobIds |-> IF j \in chosen THEN issued[j] + 1 ELSE issued[j]]
      /\ held' = held \cup {granted(j) : j \in chosen}
      /\ UNCHANGED clock
  BY DEF Claim
<1>2. /\ clock \in Nat /\ job \in [JobIds -> Job] /\ lease \in [JobIds -> Lease]
      /\ recovery_at \in [JobIds -> Nat] /\ issued \in [JobIds -> Nat]
      /\ outbox \in [JobIds -> Seq(Event)] /\ held \subseteq HeldLease
  BY DEF OwnershipInv, TypeOK
<1>3. /\ expired \subseteq JobIds /\ resumable \subseteq expired
      /\ chosen \subseteq resumable \cup due /\ due \subseteq JobIds
      /\ chosen \subseteq JobIds
  BY DEF Oldest
<1>4. \A j \in expired : Running(j)
  BY DEF Expired
<1>5. \A j \in JobIds : /\ swept[j] \in Job
                        /\ swept[j] = job[j] \/ (j \in expired /\ swept[j].state # "RUNNING")
  <2> TAKE j \in JobIds
  <2>1. CASE j \in expired
    BY <1>2, <2>1, RecoveredType
  <2>2. CASE j \notin expired
    BY <1>2, <2>2
  <2> QED
    BY <2>1, <2>2
<1>6. \A j \in resumable : swept[j] = job[j]
  BY <1>3, <1>4 DEF Recovered, Authoritative
<1> HIDE DEF expired, resumable, swept, due, chosen
<1>7. \A j \in begun : StartAttempt(swept[j], w, now) \in Job
                       /\ StartAttempt(swept[j], w, now).state = "RUNNING"
                       /\ StartAttempt(swept[j], w, now).attempts # << >>
  <2> TAKE j \in begun
  <2>1. swept[j] \in Job /\ swept[j].attempts \in Seq(JobAttempt)
    BY <1>3, <1>5 DEF Job
  <2>2. /\ StartAttempt(swept[j], w, now).state = "RUNNING"
        /\ StartAttempt(swept[j], w, now).attempts # << >>
    BY <2>1 DEF StartAttempt, NextVersion
  <2> QED
    BY <2>1, <2>2, StartAttemptType
<1>8. \A j \in resumed : /\ ResumeAttempt(job[j], now) \in Job
                         /\ ResumeAttempt(job[j], now).state = "RUNNING"
                         /\ ResumeAttempt(job[j], now).attempts = job[j].attempts
  <2> TAKE j \in resumed
  <2>1. job[j] \in Job
    BY <1>2, <1>3
  <2>2. /\ MaxOf(now, job[j].updated_at) \in Nat /\ job[j].available_at \in Nat
        /\ job[j].attempts \in Seq(JobAttempt) /\ "RUNNING" \in JobState
    BY <2>1 DEF MaxOf, Job, JobState
  <2>3. /\ ResumeAttempt(job[j], now).state = "RUNNING"
        /\ ResumeAttempt(job[j], now).attempts = job[j].attempts
    BY DEF ResumeAttempt, NextVersion
  <2> QED
    BY <2>1, <2>2, <2>3, NextVersionType DEF ResumeAttempt
<1>9. job' \in [JobIds -> Job]
  BY <1>1, <1>5, <1>7, <1>8
<1>10. /\ lease' \in [JobIds -> Lease] /\ recovery_at' \in [JobIds -> Nat]
       /\ issued' \in [JobIds -> Nat]
  <2>1. \A j \in JobIds : [worker |-> w, token |-> issued[j] + 1,
                           until |-> clock + LeaseSeconds] \in Lease
    BY <1>2, QueueAssumption DEF Lease
  <2>2. NoLease \in Lease
    BY DEF NoLease, Lease
  <2>3. \A j \in JobIds : lease'[j] \in Lease
    BY <1>1, <1>2, <2>1, <2>2
  <2>4. clock + RecoveryDelay \in Nat
    BY <1>2, QueueAssumption
  <2>5. recovery_at' \in [JobIds -> Nat]
    BY <1>1, <1>2, <2>4
  <2>6. issued' \in [JobIds -> Nat]
    BY <1>1, <1>2
  <2> QED
    BY <1>1, <2>3, <2>5, <2>6
<1>11. outbox' \in [JobIds -> Seq(Event)]
  <2> SUFFICES ASSUME NEW j \in JobIds
               PROVE  outbox[j] \o sweepEvents(j) \o claimEvents(j) \in Seq(Event)
    BY <1>1
  <2>1. sweepEvents(j) \in Seq(Event)
    BY RecoveryEventsType
  <2>2. /\ << Ev("QUEUED", "RUNNING", "claimed") >> \in Seq(Event)
        /\ << Ev("RUNNING", "RUNNING", "checkpoint_resumed") >> \in Seq(Event)
    BY DEF Ev, Event, EventType, JobState
  <2>3. claimEvents(j) \in Seq(Event)
    BY <2>2
  <2> HIDE DEF sweepEvents, claimEvents
  <2> QED
    BY <1>2, <2>1, <2>3
<1>12. held' \subseteq HeldLease
  <2>1. \A j \in chosen : granted(j) \in HeldLease
    <3> TAKE j \in chosen
    <3>1. /\ j \in JobIds /\ issued[j] + 1 \in Nat /\ job'[j].version \in Nat
          /\ now + HandlerTimeout \in Nat
      BY <1>2, <1>3, <1>9, QueueAssumption DEF Job
    <3> QED
      BY <3>1 DEF HeldLease
  <2> QED
    BY <1>1, <1>2, <2>1
<1>13. TypeOK'
  BY <1>1, <1>2, <1>9, <1>10, <1>11, <1>12 DEF TypeOK
<1>14. ASSUME NEW j \in JobIds PROVE RowOwned(j)'
  <2>1. RowOwned(j) /\ issued[j] \in Nat
    BY <1>2 DEF OwnershipInv
  <2>2. CASE j \in chosen
    <3>1. lease'[j].token = issued'[j] /\ issued'[j] > 0
      <4>1. issued'[j] = issued[j] + 1
        BY <1>1, <2>2
      <4>2. lease'[j] = [worker |-> w, token |-> issued[j] + 1,
                         until |-> clock + LeaseSeconds]
        BY <1>1, <2>2
      <4> QED
        BY <2>1, <4>1, <4>2
    <3>2. job'[j].state = "RUNNING" /\ job'[j].attempts # << >>
      <4>1. CASE j \in resumable
        BY <1>1, <1>3, <1>4, <1>8, <2>1, <2>2, <4>1 DEF RowOwned
      <4>2. CASE j \notin resumable
        BY <1>1, <1>7, <2>2, <4>2
      <4> QED
        BY <4>1, <4>2
    <3> QED
      BY <3>1, <3>2 DEF RowOwned, Running
  <2>3. CASE j \notin chosen
    <3>1. job'[j] = swept[j] /\ issued'[j] = issued[j]
      BY <1>1, <2>3
    <3>2. CASE j \in freed
      BY <1>1, <2>3, <3>1, <3>2 DEF RowOwned, Running
    <3>3. CASE j \notin freed
      <4>1. lease'[j] = lease[j] /\ job'[j] = job[j]
        BY <1>1, <1>5, <2>3, <3>1, <3>3
      <4> QED
        BY <2>1, <3>1, <4>1 DEF RowOwned, Running
    <3> QED
      BY <3>2, <3>3
  <2> QED
    BY <2>2, <2>3
<1>15. TokensFresh'
  <2>1. \A l \in held : l.job \in JobIds /\ l.token \in Nat /\ l.token <= issued[l.job]
    BY <1>2 DEF OwnershipInv, TokensFresh, HeldLease
  <2>2. \A j \in JobIds : issued[j] \in Nat /\ issued[j] <= issued'[j]
    BY <1>1, <1>2
  <2>3. \A j \in chosen : /\ granted(j).job = j /\ granted(j).token = issued[j] + 1
                          /\ granted(j).token = issued'[j] /\ j \in JobIds
    BY <1>1, <1>3
  <2> HIDE DEF granted
  <2> DEFINE new == {granted(j) : j \in chosen}
  <2>4. \A l \in new : /\ l.job \in JobIds /\ l.token = issued[l.job] + 1
                       /\ l.token = issued'[l.job] /\ l = granted(l.job)
    BY <2>3
  <2>5. held' = held \cup new
    BY <1>1
  <2> HIDE DEF new
  <2>6. \A l \in held' : l.token <= issued'[l.job]
    BY <2>1, <2>2, <2>4, <2>5, <1>10
  <2>7. ASSUME NEW l \in held', NEW m \in held', l.job = m.job, l.token = m.token
        PROVE  l = m
    <3>1. CASE l \in held /\ m \in held
      BY <2>7, <3>1 DEF OwnershipInv, TokensFresh
    <3>2. CASE l \in new /\ m \in new
      BY <2>4, <2>7, <3>2
    <3>3. CASE l \in held /\ m \in new
      BY <2>1, <2>2, <2>4, <2>7, <3>3
    <3>4. CASE l \in new /\ m \in held
      BY <2>1, <2>2, <2>4, <2>7, <3>4
    <3> QED
      BY <2>5, <3>1, <3>2, <3>3, <3>4
  <2> QED
    BY <2>6, <2>7 DEF TokensFresh
<1> QED
  BY <1>13, <1>14, <1>15 DEF OwnershipInv

-----------------------------------------------------------------------------
(* The queue starts empty.                                                 *)
LEMMA OwnershipStarts == Init => OwnershipInv
<1> SUFFICES ASSUME Init PROVE OwnershipInv
  OBVIOUS
<1>1. NoJob \in Job /\ NoLease \in Lease
  <2>1. << >> \in Seq(JobAttempt)
    OBVIOUS
  <2> QED
    BY <2>1 DEF NoJob, NoLease, Job, Lease, NoRow
<1>2. << >> \in Seq(Event)
  OBVIOUS
<1>3. TypeOK
  BY <1>1, <1>2 DEF Init, TypeOK
<1>4. \A j \in JobIds : RowOwned(j)
  BY DEF Init, RowOwned, Running, NoJob
<1> QED
  BY <1>3, <1>4 DEF OwnershipInv, TokensFresh, Init

(* Ownership is an invariant of the queue: every variable keeps its type,  *)
(* a running row carries the newest lease of its job, a row that does not  *)
(* run carries none, and tokens are never reused.                          *)
THEOREM OwnershipInvariant == Spec => []OwnershipInv
<1>1. Init => OwnershipInv
  BY OwnershipStarts
<1>2. OwnershipInv /\ [Next]_vars => OwnershipInv'
  <2> SUFFICES ASSUME OwnershipInv, [Next]_vars PROVE OwnershipInv'
    OBVIOUS
  <2>1. CASE Submit
    <3>1. ASSUME NEW j \in JobIds, NEW k \in Keys, NEW now \in HostTimes,
                 CreateOrReplay(j, k, now) \/ Enqueue(j, k, now)
          PROVE  OwnershipInv'
      BY <3>1, HostTimesType, NewRowKeepsOwnership
    <3>2. ASSUME NEW d \in JobIds, NEW j \in JobIds, NEW k \in Keys, NEW now \in HostTimes,
                 ReplayDeadLetter(d, j, k, now)
          PROVE  OwnershipInv'
      BY <3>2, HostTimesType, NewRowKeepsOwnership
    <3>3. ASSUME NEW j \in JobIds, EnqueuePending(j) PROVE OwnershipInv'
      BY <3>3, EnqueuePendingKeepsOwnership
    <3>4. ASSUME NEW j \in JobIds, NEW to \in JobState, NEW now \in HostTimes,
                 Transition(j, to, now)
          PROVE  OwnershipInv'
      BY <3>4, HostTimesType, TransitionKeepsOwnership
    <3>5. ASSUME NEW j \in JobIds, NEW target \in 0..Horizon, Schedule(j, target)
          PROVE  OwnershipInv'
      BY <3>5, ScheduleKeepsOwnership, QueueAssumption
    <3> QED
      BY <2>1, <3>1, <3>2, <3>3, <3>4, <3>5 DEF Submit
  <2>2. CASE Control
    <3>1. ASSUME NEW j \in JobIds, Prune(j) PROVE OwnershipInv'
      BY <3>1, PruneKeepsOwnership
    <3>2. ASSUME NEW j \in JobIds, NEW now \in HostTimes,
                 NEW ans \in IF Running(j) THEN Answers(j) ELSE {[kind |-> "none", at |-> 0]},
                 Cancel(j, now, ans) \/ RecoverPublication(j, now, ans)
          PROVE  OwnershipInv'
      <4>1. ans \in Answer
        BY AnswersType, NoneType
      <4> QED
        BY <3>2, <4>1, HostTimesType, CancelKeepsOwnership
    <3> QED
      BY <2>2, <3>1, <3>2 DEF Control
  <2>3. CASE ClaimSome
    <3>1. ASSUME NEW w \in WorkerIds, NEW now \in HostTimes, NEW seen \in SUBSET JobIds,
                 NEW ans \in ClaimAnswers(seen), Claim(w, now, seen, ans)
          PROVE  OwnershipInv'
      <4>1. \A j \in JobIds : ans[j] \in Answer
        BY AnswersType, NoneType DEF ClaimAnswers, Expired
      <4>2. ans = [j \in JobIds |-> ans[j]]
        BY DEF ClaimAnswers
      <4>3. ans \in [JobIds -> Answer]
        BY <4>1, <4>2
      <4> QED
        BY <3>1, <4>3, HostTimesType, ClaimKeepsOwnership
    <3> QED
      BY <2>3, <3>1 DEF ClaimSome
  <2>4. CASE Work
    <3>1. ASSUME NEW l \in held, Heartbeat(l) PROVE OwnershipInv'
      BY <3>1, HeartbeatKeepsOwnership
    <3>2. ASSUME NEW l \in held, Forget(l) PROVE OwnershipInv'
      BY <3>2 DEF Forget, OwnershipInv, TypeOK, RowOwned, Running, TokensFresh
    <3>3. ASSUME NEW l \in held, Running(l.job), NEW now \in HostTimes,
                 NEW ans \in Answers(l.job),
                 \/ Acknowledge(l, now, ans)
                 \/ CancelLease(l, now, ans)
                 \/ \E retryable \in BOOLEAN : Fail(l, retryable, now, ans)
          PROVE  OwnershipInv'
      <4>1. l.job \in JobIds
        BY DEF OwnershipInv, TypeOK, HeldLease
      <4>2. ans \in Answer
        BY <3>3, <4>1, AnswersType
      <4> QED
        BY <3>3, <4>2, HostTimesType, HolderKeepsOwnership
    <3> QED
      BY <2>4, <3>1, <3>2, <3>3 DEF Work
  <2>5. CASE Tick
    BY <2>5 DEF Tick, OwnershipInv, TypeOK, RowOwned, Running, TokensFresh
  <2>6. CASE UNCHANGED vars
    BY <2>6 DEF vars, OwnershipInv, TypeOK, RowOwned, Running, TokensFresh
  <2> QED
    BY <2>1, <2>2, <2>3, <2>4, <2>5, <2>6 DEF Next
<1> QED
  BY <1>1, <1>2, PTL DEF Spec

(* Type correctness of the queue.                                          *)
THEOREM QueueTypeCorrect == Spec => []TypeOK
<1>1. OwnershipInv => TypeOK
  BY DEF OwnershipInv
<1> QED
  BY <1>1, OwnershipInvariant, PTL

(* A row carries a lease exactly while its job runs.                       *)
THEOREM LeaseExactlyWhileRunning == Spec => []LeaseIffRunning
<1>1. OwnershipInv => LeaseIffRunning
  <2> SUFFICES ASSUME OwnershipInv, NEW j \in JobIds
               PROVE  Running(j) <=> lease[j] # NoLease
    BY DEF LeaseIffRunning
  <2>1. RowOwned(j) /\ NoLease.token = 0
    BY DEF OwnershipInv, NoLease
  <2> QED
    BY <2>1 DEF RowOwned
<1> QED
  BY <1>1, OwnershipInvariant, PTL

(* Fencing: of all the leases workers remember for a job, however many     *)
(* there are, at most one passes the fence, and it is the newest.          *)
THEOREM FencingIsSound == Spec => []OnlyNewestLeasePasses
<1>1. OwnershipInv => OnlyNewestLeasePasses
  <2> SUFFICES ASSUME OwnershipInv, NEW l \in held, NEW m \in held,
                      l.job = m.job, LockLease(l), m.token >= l.token
               PROVE  m = l
    BY DEF OnlyNewestLeasePasses
  <2>1. l.job \in JobIds /\ l.token \in Nat /\ m.token \in Nat /\ issued[l.job] \in Nat
    BY DEF OwnershipInv, TypeOK, HeldLease
  <2>2. l.token = issued[l.job]
    BY <2>1 DEF OwnershipInv, RowOwned, LockLease
  <2>3. m.token <= issued[l.job]
    BY DEF OwnershipInv, TokensFresh
  <2>4. m.token = l.token
    BY <2>1, <2>2, <2>3
  <2> QED
    BY <2>4 DEF OwnershipInv, TokensFresh
<1> QED
  BY <1>1, OwnershipInvariant, PTL

-----------------------------------------------------------------------------
(* Rows.  The remaining theorems follow from what one step may do to one   *)
(* row, so they are proved about a Job value and the events of its row.    *)

(* The audit trail of one row.                                             *)
TrailSteps(ob) ==
    \A v \in 1..Len(ob) :
        IF v = 1 THEN ob[v].from = "ABSENT" /\ ob[v].to = "PENDING"
        ELSE /\ ob[v].from = ob[v - 1].to
             /\ \/ CanTransition(ob[v].from, ob[v].to)
                \/ ob[v].from = ob[v].to /\ ob[v].to \in {"QUEUED", "RUNNING"}

Trail(jb, ob) ==
    /\ Len(ob) = jb.version
    /\ jb.state \notin NoRow => ob[Len(ob)].to = jb.state
    /\ TrailSteps(ob)

(* A row that exists can be decoded and has a reason for being dead.       *)
RowSound(jb) ==
    /\ Decodes(jb)
    /\ jb.state = "DEAD_LETTER" =>
          AttemptCount(jb) = MaxAttempts \/ ~LastAttempt(jb).retryable

RowInv(j) ==
    /\ job[j].state = "ABSENT" => job[j] = NoJob
    /\ HasRow(j) => RowSound(job[j])
    /\ Trail(job[j], outbox[j])

(* The inductive invariant of the theorems below.                          *)
QueueInv == OwnershipInv /\ \A j \in JobIds : RowInv(j)

-----------------------------------------------------------------------------
(* What the functions of the contract compute. *)
LEMMA JobFields ==
    ASSUME NEW jb \in Job
    PROVE  /\ jb.state \in JobState \cup NoRow /\ jb.key \in Keys \cup {NoKey}
           /\ jb.attempts \in Seq(JobAttempt) /\ jb.available_at \in Nat
           /\ jb.created_at \in Nat /\ jb.updated_at \in Nat /\ jb.version \in Nat
           /\ AttemptCount(jb) \in Nat
           /\ \A n \in 1..AttemptCount(jb) :
                 /\ jb.attempts[n] \in JobAttempt
                 /\ jb.attempts[n].started_at \in Nat
                 /\ jb.attempts[n].finished_at \in Nat
<1>1. /\ jb.state \in JobState \cup NoRow /\ jb.key \in Keys \cup {NoKey}
      /\ jb.attempts \in Seq(JobAttempt) /\ jb.available_at \in Nat
      /\ jb.created_at \in Nat /\ jb.updated_at \in Nat /\ jb.version \in Nat
  BY DEF Job
<1>2. AttemptCount(jb) \in Nat /\ \A n \in 1..AttemptCount(jb) : jb.attempts[n] \in JobAttempt
  BY <1>1 DEF AttemptCount
<1>3. \A a \in JobAttempt : a.started_at \in Nat /\ a.finished_at \in Nat
  BY DEF JobAttempt
<1> QED
  BY <1>1, <1>2, <1>3

LEMMA NextVersionFields ==
    ASSUME NEW jb, NEW to, NEW as, NEW available, NEW now,
           NEW nb, nb = NextVersion(jb, to, as, available, now)
    PROVE  /\ nb.state = to /\ nb.key = jb.key /\ nb.attempts = as
           /\ nb.available_at = available /\ nb.created_at = jb.created_at
           /\ nb.updated_at = now /\ nb.version = jb.version + 1
           /\ AttemptCount(nb) = Len(as) /\ LastAttempt(nb) = as[Len(as)]
BY DEF NextVersion, AttemptCount, LastAttempt

(* A copy that keeps the attempts decodes when its state fits them.        *)
LEMMA CopyDecodes ==
    ASSUME NEW jb \in Job, Decodes(jb), NEW to \in JobState, NEW available \in Nat,
           NEW now \in Nat, jb.created_at <= available, jb.updated_at <= now,
           NEW nb, nb = NextVersion(jb, to, jb.attempts, available, now),
           StateMatchesHistory(nb)
    PROVE  Decodes(nb)
<1>1. /\ nb.attempts = jb.attempts /\ nb.available_at = available
      /\ nb.created_at = jb.created_at /\ nb.updated_at = now
      /\ nb.version = jb.version + 1 /\ AttemptCount(nb) = AttemptCount(jb)
  BY NextVersionFields DEF AttemptCount
<1>2. ChronologicalAttempts(nb)
  BY <1>1 DEF Decodes, ChronologicalAttempts
<1>3. AttemptsInLifetime(nb)
  <2> SUFFICES ASSUME NEW n \in 1..AttemptCount(jb)
               PROVE  LET a == jb.attempts[n] IN
                      /\ jb.created_at <= a.started_at /\ a.started_at <= now
                      /\ a.state # "RUNNING" =>
                            a.started_at <= a.finished_at /\ a.finished_at <= now
                      /\ a.state # "FAILED" => ~a.retryable
    BY <1>1 DEF AttemptsInLifetime
  <2>1. LET a == jb.attempts[n] IN
        /\ jb.created_at <= a.started_at /\ a.started_at <= jb.updated_at
        /\ a.state # "RUNNING" =>
              a.started_at <= a.finished_at /\ a.finished_at <= jb.updated_at
        /\ a.state # "FAILED" => ~a.retryable
    BY DEF Decodes, AttemptsInLifetime
  <2> QED
    BY <2>1, JobFields
<1>4. /\ AttemptCount(nb) <= MaxAttempts /\ nb.created_at <= nb.available_at
      /\ nb.created_at <= nb.updated_at /\ nb.version >= 1
  BY <1>1, JobFields DEF Decodes
<1> QED
  BY <1>2, <1>3, <1>4 DEF Decodes

(* finish_attempt replaces the last attempt and nothing else.              *)
LEMMA FinishFields ==
    ASSUME NEW jb \in Job, AttemptCount(jb) > 0, NEW to, NEW now, NEW finished, NEW r,
           NEW nb, nb = FinishAttempt(jb, to, now, finished, r)
    PROVE  /\ nb.state = to /\ nb.available_at = jb.available_at
           /\ nb.created_at = jb.created_at /\ nb.updated_at = now
           /\ nb.version = jb.version + 1 /\ AttemptCount(nb) = AttemptCount(jb)
           /\ LastAttempt(nb) = FinishedAttempt(LastAttempt(jb), to, finished, r)
           /\ nb.attempts[AttemptCount(jb)] = LastAttempt(nb)
           /\ \A n \in 1..AttemptCount(jb) :
                 n # AttemptCount(jb) => nb.attempts[n] = jb.attempts[n]
<1> DEFINE n == Len(jb.attempts)
           f == FinishedAttempt(jb.attempts[n], to, finished, r)
           s == [jb.attempts EXCEPT ![n] = f]
<1>1. jb.attempts \in Seq(JobAttempt) /\ n \in 1..Len(jb.attempts)
  BY JobFields DEF AttemptCount
<1>2. nb = NextVersion(jb, to, s, jb.available_at, now)
  BY DEF FinishAttempt
<1>3. /\ Len(s) = n /\ s[n] = f
      /\ \A i \in 1..n : i # n => s[i] = jb.attempts[i]
  BY <1>1
<1> HIDE DEF s, f
<1>4. /\ nb.state = to /\ nb.available_at = jb.available_at
      /\ nb.created_at = jb.created_at /\ nb.updated_at = now
      /\ nb.version = jb.version + 1 /\ nb.attempts = s
      /\ AttemptCount(nb) = Len(s) /\ LastAttempt(nb) = s[Len(s)]
  BY <1>2, NextVersionFields
<1> QED
  BY <1>3, <1>4 DEF AttemptCount, LastAttempt, f

LEMMA FinishDecodes ==
    ASSUME NEW jb \in Job, Decodes(jb), NEW now \in Nat, NEW finished \in Nat,
           CanFinishAttempt(jb, now, finished), NEW r \in BOOLEAN,
           NEW to \in {"SUCCEEDED", "FAILED", "CANCELLED"}, r => to = "FAILED",
           NEW nb, nb = FinishAttempt(jb, to, now, finished, r)
    PROVE  Decodes(nb) /\ nb \in Job
<1> DEFINE n == AttemptCount(jb)
<1>1. n \in Nat /\ n > 0 /\ jb.state = "RUNNING"
  BY JobFields DEF Decodes, StateMatchesHistory, LastAttemptIn, CanFinishAttempt
<1>2. /\ nb.state = to /\ nb.available_at = jb.available_at
      /\ nb.created_at = jb.created_at /\ nb.updated_at = now
      /\ nb.version = jb.version + 1 /\ AttemptCount(nb) = n
      /\ nb.attempts[n] = FinishedAttempt(jb.attempts[n], to, finished, r)
      /\ \A i \in 1..n : i # n => nb.attempts[i] = jb.attempts[i]
      /\ LastAttempt(nb) = nb.attempts[n]
  BY <1>1, FinishFields DEF AttemptCount, LastAttempt
<1>3. /\ nb.attempts[n].state = to /\ nb.attempts[n].started_at = jb.attempts[n].started_at
      /\ nb.attempts[n].finished_at = finished /\ nb.attempts[n].retryable = r
  BY <1>2 DEF FinishedAttempt
<1>4. ChronologicalAttempts(nb)
  <2> SUFFICES ASSUME NEW i \in 1..(n - 1)
               PROVE  /\ nb.attempts[i].state # "RUNNING"
                      /\ nb.attempts[i].finished_at <= nb.attempts[i + 1].started_at
    BY <1>2 DEF ChronologicalAttempts
  <2>1. /\ jb.attempts[i].state # "RUNNING"
        /\ jb.attempts[i].finished_at <= jb.attempts[i + 1].started_at
    BY DEF Decodes, ChronologicalAttempts
  <2>2. /\ nb.attempts[i] = jb.attempts[i]
        /\ nb.attempts[i + 1].started_at = jb.attempts[i + 1].started_at
    <3>1. i \in 1..n /\ i # n /\ i + 1 \in 1..n
      BY <1>1
    <3>2. CASE i + 1 = n
      BY <1>2, <1>3, <3>1, <3>2
    <3>3. CASE i + 1 # n
      BY <1>2, <3>1, <3>3
    <3> QED
      BY <3>2, <3>3
  <2> QED
    BY <2>1, <2>2
<1>5. AttemptsInLifetime(nb)
  <2> SUFFICES ASSUME NEW i \in 1..n
               PROVE  LET a == nb.attempts[i] IN
                      /\ jb.created_at <= a.started_at /\ a.started_at <= now
                      /\ a.state # "RUNNING" =>
                            a.started_at <= a.finished_at /\ a.finished_at <= now
                      /\ a.state # "FAILED" => ~a.retryable
    BY <1>2 DEF AttemptsInLifetime
  <2>1. LET a == jb.attempts[i] IN
        /\ jb.created_at <= a.started_at /\ a.started_at <= jb.updated_at
        /\ a.state # "RUNNING" =>
              a.started_at <= a.finished_at /\ a.finished_at <= jb.updated_at
        /\ a.state # "FAILED" => ~a.retryable
    BY DEF Decodes, AttemptsInLifetime
  <2>2. /\ jb.updated_at <= now /\ finished <= now
        /\ jb.attempts[n].started_at <= finished
    BY DEF CanFinishAttempt, LastAttempt, AttemptCount
  <2>3. /\ jb.attempts[i].started_at \in Nat /\ jb.attempts[i].finished_at \in Nat
        /\ jb.updated_at \in Nat
    BY JobFields
  <2>4. CASE i = n
    BY <1>3, <2>1, <2>2, <2>3, <2>4
  <2>5. CASE i # n
    <3>1. nb.attempts[i] = jb.attempts[i]
      BY <1>2, <2>5
    <3> QED
      BY <2>1, <2>2, <2>3, <3>1
  <2> QED
    BY <2>4, <2>5
<1>6. StateMatchesHistory(nb)
  BY <1>1, <1>2, <1>3 DEF StateMatchesHistory, LastAttemptIn
<1>7. /\ AttemptCount(nb) <= MaxAttempts /\ nb.created_at <= nb.available_at
      /\ nb.created_at <= nb.updated_at /\ nb.version >= 1
  BY <1>2, JobFields DEF Decodes, CanFinishAttempt
<1> QED
  BY <1>4, <1>5, <1>6, <1>7, FinishAttemptType DEF Decodes

(* start_attempt appends an attempt.                                       *)
LEMMA StartFields ==
    ASSUME NEW jb \in Job, NEW w, NEW now, NEW nb, nb = StartAttempt(jb, w, now)
    PROVE  /\ nb.state = "RUNNING" /\ nb.available_at = jb.available_at
           /\ nb.created_at = jb.created_at /\ nb.updated_at = now
           /\ nb.version = jb.version + 1 /\ AttemptCount(nb) = AttemptCount(jb) + 1
           /\ LastAttempt(nb) = nb.attempts[AttemptCount(nb)]
           /\ nb.attempts[AttemptCount(nb)] =
                 [worker_id |-> w, state |-> "RUNNING", started_at |-> now,
                  finished_at |-> 0, retryable |-> FALSE]
           /\ \A n \in 1..AttemptCount(jb) : nb.attempts[n] = jb.attempts[n]
<1> DEFINE a == [worker_id |-> w, state |-> "RUNNING", started_at |-> now,
                 finished_at |-> 0, retryable |-> FALSE]
           s == Append(jb.attempts, a)
<1>1. jb.attempts \in Seq(JobAttempt)
  BY JobFields
<1>2. nb = NextVersion(jb, "RUNNING", s, jb.available_at, now)
  BY DEF StartAttempt
<1> HIDE DEF a
<1>3. /\ Len(s) = Len(jb.attempts) + 1 /\ s[Len(jb.attempts) + 1] = a
      /\ \A n \in 1..Len(jb.attempts) : s[n] = jb.attempts[n]
  BY <1>1
<1> HIDE DEF s
<1>4. /\ nb.state = "RUNNING" /\ nb.available_at = jb.available_at
      /\ nb.created_at = jb.created_at /\ nb.updated_at = now
      /\ nb.version = jb.version + 1 /\ nb.attempts = s
      /\ AttemptCount(nb) = Len(s) /\ LastAttempt(nb) = s[Len(s)]
  BY <1>2, NextVersionFields
<1> QED
  BY <1>3, <1>4 DEF AttemptCount, a

LEMMA StartDecodes ==
    ASSUME NEW jb \in Job, Decodes(jb), NEW w \in WorkerIds, NEW now \in Nat,
           CanStartAttempt(jb, now), NEW nb, nb = StartAttempt(jb, w, now)
    PROVE  Decodes(nb) /\ nb \in Job
<1> DEFINE n == AttemptCount(jb)
<1>1. /\ n \in Nat /\ jb.state = "QUEUED" /\ n < MaxAttempts /\ jb.updated_at <= now
      /\ jb.updated_at \in Nat /\ jb.created_at \in Nat /\ jb.version \in Nat
      /\ jb.created_at <= jb.updated_at /\ jb.created_at <= jb.available_at
  BY JobFields DEF CanStartAttempt, Decodes
<1>2. /\ nb.state = "RUNNING" /\ nb.available_at = jb.available_at
      /\ nb.created_at = jb.created_at /\ nb.updated_at = now
      /\ nb.version = jb.version + 1 /\ AttemptCount(nb) = n + 1
      /\ LastAttempt(nb) = nb.attempts[n + 1]
      /\ nb.attempts[n + 1] = [worker_id |-> w, state |-> "RUNNING", started_at |-> now,
                               finished_at |-> 0, retryable |-> FALSE]
      /\ \A i \in 1..n : nb.attempts[i] = jb.attempts[i]
  BY StartFields
<1>3. /\ nb.attempts[n + 1].state = "RUNNING" /\ nb.attempts[n + 1].started_at = now
      /\ ~nb.attempts[n + 1].retryable
  BY <1>2
<1>4. \A i \in 1..n : /\ nb.attempts[i] = jb.attempts[i]
                      /\ jb.attempts[i].started_at \in Nat
                      /\ jb.attempts[i].finished_at \in Nat
                      /\ jb.created_at <= jb.attempts[i].started_at
                      /\ jb.attempts[i].started_at <= jb.updated_at
                      /\ jb.attempts[i].state # "RUNNING" =>
                            /\ jb.attempts[i].started_at <= jb.attempts[i].finished_at
                            /\ jb.attempts[i].finished_at <= jb.updated_at
                      /\ jb.attempts[i].state # "FAILED" => ~jb.attempts[i].retryable
  BY <1>2, JobFields DEF Decodes, AttemptsInLifetime
<1>5. \A i \in 1..n : jb.attempts[i].state # "RUNNING"
  <2> TAKE i \in 1..n
  <2>1. CASE i = n
    BY <1>1, <2>1 DEF Decodes, StateMatchesHistory, LastAttempt, AttemptCount
  <2>2. CASE i # n
    BY <1>1, <2>2 DEF Decodes, ChronologicalAttempts
  <2> QED
    BY <2>1, <2>2
<1>6. ChronologicalAttempts(nb)
  <2> SUFFICES ASSUME NEW i \in 1..n
               PROVE  /\ nb.attempts[i].state # "RUNNING"
                      /\ nb.attempts[i].finished_at <= nb.attempts[i + 1].started_at
    BY <1>1, <1>2 DEF ChronologicalAttempts
  <2>1. CASE i = n
    BY <1>1, <1>3, <1>4, <1>5, <2>1
  <2>2. CASE i # n
    <3>1. i \in 1..(n - 1) /\ i + 1 \in 1..n
      BY <1>1, <2>2
    <3>2. jb.attempts[i].finished_at <= jb.attempts[i + 1].started_at
      BY <3>1 DEF Decodes, ChronologicalAttempts
    <3> QED
      BY <1>4, <1>5, <3>1, <3>2
  <2> QED
    BY <2>1, <2>2
<1>7. AttemptsInLifetime(nb)
  <2> SUFFICES ASSUME NEW i \in 1..(n + 1)
               PROVE  LET a == nb.attempts[i] IN
                      /\ jb.created_at <= a.started_at /\ a.started_at <= now
                      /\ a.state # "RUNNING" =>
                            a.started_at <= a.finished_at /\ a.finished_at <= now
                      /\ a.state # "FAILED" => ~a.retryable
    BY <1>2 DEF AttemptsInLifetime
  <2>1. CASE i = n + 1
    BY <1>1, <1>3, <2>1
  <2>2. CASE i # n + 1
    <3>1. i \in 1..n
      BY <1>1, <2>2
    <3> QED
      BY <1>1, <1>4, <3>1
  <2> QED
    BY <2>1, <2>2
<1>8. StateMatchesHistory(nb)
  BY <1>1, <1>2, <1>3 DEF StateMatchesHistory, LastAttemptIn
<1>9. /\ AttemptCount(nb) <= MaxAttempts /\ nb.created_at <= nb.available_at
      /\ nb.created_at <= nb.updated_at /\ nb.version >= 1
  BY <1>1, <1>2, MaxAttemptsAssumption
<1> QED
  BY <1>6, <1>7, <1>8, <1>9, StartAttemptType DEF Decodes

(* After a failure the job is queued again, with budget left and a failure *)
(* that may be retried, or it is dead, and justly.                         *)
LEMMA FailureSound ==
    ASSUME NEW jb \in Job, Decodes(jb), NEW now \in Nat, CanFinishAttempt(jb, now, now),
           NEW r \in BOOLEAN, NEW nb, nb = AfterFailure(jb, now, r)
    PROVE  /\ RowSound(nb) /\ nb \in Job
           /\ AttemptCount(nb) = AttemptCount(jb)
           /\ LastAttempt(nb) = FinishedAttempt(LastAttempt(jb), "FAILED", now, r)
           /\ nb.attempts[AttemptCount(jb)] = LastAttempt(nb)
           /\ \A n \in 1..AttemptCount(jb) :
                 n # AttemptCount(jb) => nb.attempts[n] = jb.attempts[n]
           /\ \/ /\ r /\ AttemptCount(jb) < MaxAttempts
                 /\ nb.state = "QUEUED" /\ nb.version = jb.version + 3
              \/ /\ ~(r /\ AttemptCount(jb) < MaxAttempts)
                 /\ nb.state = "DEAD_LETTER" /\ nb.version = jb.version + 2
<1> DEFINE n == AttemptCount(jb)
           failed == FinishAttempt(jb, "FAILED", now, now, r)
           retrying == Move(failed, "RETRYING", now, failed.available_at)
           due == now + Backoff(n)
<1>1. n \in Nat /\ n > 0 /\ jb.state = "RUNNING" /\ n <= MaxAttempts
  BY JobFields DEF Decodes, StateMatchesHistory, LastAttemptIn, CanFinishAttempt
<1>2. nb = IF RetryEligible(failed) THEN Move(retrying, "QUEUED", now, due)
           ELSE Move(failed, "DEAD_LETTER", now, failed.available_at)
  BY DEF AfterFailure
<1>3. Decodes(failed) /\ failed \in Job
  BY FinishDecodes
<1>4. /\ failed.state = "FAILED" /\ failed.updated_at = now
      /\ failed.version = jb.version + 1 /\ AttemptCount(failed) = n
      /\ LastAttempt(failed) = FinishedAttempt(LastAttempt(jb), "FAILED", now, r)
      /\ failed.attempts[n] = LastAttempt(failed)
      /\ \A i \in 1..n : i # n => failed.attempts[i] = jb.attempts[i]
  BY <1>1, FinishFields
<1>5. LastAttempt(failed).state = "FAILED" /\ LastAttempt(failed).retryable = r
  BY <1>4 DEF FinishedAttempt
<1>6. due \in Nat /\ now <= due
  BY <1>1, BackoffType
<1> HIDE DEF failed, due
<1>7. /\ failed.created_at \in Nat /\ failed.available_at \in Nat
      /\ failed.created_at <= failed.available_at /\ failed.created_at <= now
      /\ jb.version \in Nat /\ MaxAttempts \in Nat
      /\ failed.attempts \in Seq(JobAttempt)
  BY <1>3, <1>4, JobFields, MaxAttemptsAssumption DEF Decodes
<1>8. RetryEligible(failed) <=> (r /\ n < MaxAttempts)
  BY <1>4, <1>5 DEF RetryEligible
<1>9. CASE r /\ n < MaxAttempts
  <2>1. retrying = NextVersion(failed, "RETRYING", failed.attempts, failed.available_at, now)
    BY DEF Move
  <2> HIDE DEF retrying
  <2>2. /\ retrying.state = "RETRYING" /\ retrying.attempts = failed.attempts
        /\ retrying.created_at = failed.created_at /\ retrying.updated_at = now
        /\ retrying.version = failed.version + 1 /\ AttemptCount(retrying) = n
        /\ LastAttempt(retrying) = LastAttempt(failed)
    BY <1>4, <2>1, NextVersionFields DEF AttemptCount, LastAttempt
  <2>3. StateMatchesHistory(retrying)
    BY <1>1, <1>5, <1>9, <2>2 DEF StateMatchesHistory, LastAttemptIn
  <2>4. "RETRYING" \in JobState /\ "QUEUED" \in JobState
    BY DEF JobState
  <2>5. Decodes(retrying)
    BY <1>3, <1>4, <1>7, <2>1, <2>3, <2>4, CopyDecodes
  <2>6. retrying \in Job
    BY <1>3, <1>7, <2>1, <2>4, NextVersionType
  <2>7. nb = NextVersion(retrying, "QUEUED", retrying.attempts, due, now)
    BY <1>2, <1>8, <1>9 DEF Move
  <2>8. /\ nb.state = "QUEUED" /\ nb.attempts = failed.attempts
        /\ nb.version = retrying.version + 1 /\ AttemptCount(nb) = n
        /\ LastAttempt(nb) = LastAttempt(failed)
    BY <2>2, <2>7, NextVersionFields DEF AttemptCount, LastAttempt
  <2>9. StateMatchesHistory(nb)
    BY <1>5, <1>9, <2>8 DEF StateMatchesHistory
  <2>10. Decodes(nb)
    BY <1>6, <1>7, <2>2, <2>4, <2>5, <2>6, <2>7, <2>9, CopyDecodes
  <2>11. nb \in Job
    BY <1>6, <2>4, <2>6, <2>7, JobFields, NextVersionType
  <2>12. nb.version = jb.version + 3
    BY <1>4, <1>7, <2>2, <2>8
  <2> QED
    BY <1>4, <1>9, <2>8, <2>10, <2>11, <2>12 DEF RowSound
<1>10. CASE ~(r /\ n < MaxAttempts)
  <2>1. nb = NextVersion(failed, "DEAD_LETTER", failed.attempts, failed.available_at, now)
    BY <1>2, <1>8, <1>10 DEF Move
  <2>2. /\ nb.state = "DEAD_LETTER" /\ nb.attempts = failed.attempts
        /\ nb.version = failed.version + 1 /\ AttemptCount(nb) = n
        /\ LastAttempt(nb) = LastAttempt(failed)
    BY <1>4, <2>1, NextVersionFields DEF AttemptCount, LastAttempt
  <2>3. StateMatchesHistory(nb)
    BY <1>1, <1>5, <2>2 DEF StateMatchesHistory, LastAttemptIn
  <2>4. "DEAD_LETTER" \in JobState
    BY DEF JobState
  <2>5. Decodes(nb)
    BY <1>3, <1>4, <1>7, <2>1, <2>3, <2>4, CopyDecodes
  <2>6. nb \in Job
    BY <1>3, <1>7, <2>1, <2>4, NextVersionType
  <2>7. AttemptCount(nb) = MaxAttempts \/ ~LastAttempt(nb).retryable
    BY <1>1, <1>5, <1>7, <1>10, <2>2
  <2>8. nb.version = jb.version + 2
    BY <1>4, <1>7, <2>2
  <2> QED
    BY <1>4, <1>10, <2>2, <2>5, <2>6, <2>7, <2>8 DEF RowSound
<1> QED
  BY <1>9, <1>10

(* A new row is empty.                                                     *)
LEMMA CreateSound ==
    ASSUME NEW k \in Keys, NEW now \in Nat, NEW nb, nb = CreateJob(k, now)
    PROVE  /\ Decodes(nb) /\ nb.state = "PENDING" /\ nb.version = 1
           /\ nb.attempts = << >> /\ AttemptCount(nb) = 0
           /\ nb.created_at = now /\ nb.available_at = now /\ nb.updated_at = now
<1>1. /\ nb.state = "PENDING" /\ nb.version = 1 /\ nb.attempts = << >>
      /\ nb.created_at = now /\ nb.available_at = now /\ nb.updated_at = now
  BY DEF CreateJob
<1>2. AttemptCount(nb) = 0
  BY <1>1 DEF AttemptCount
<1>3. ChronologicalAttempts(nb) /\ AttemptsInLifetime(nb) /\ StateMatchesHistory(nb)
  BY <1>1, <1>2 DEF ChronologicalAttempts, AttemptsInLifetime, StateMatchesHistory
<1> QED
  BY <1>1, <1>2, <1>3, MaxAttemptsAssumption DEF Decodes

(* Moving a row that does not run keeps it sound.                          *)
LEMMA MoveSound ==
    ASSUME NEW jb \in Job, Decodes(jb), NEW to \in {"QUEUED", "CANCELLED"},
           NEW now \in Nat, CanMove(jb, to, now),
           NEW nb, nb = Move(jb, to, now, jb.available_at)
    PROVE  /\ RowSound(nb) /\ nb.attempts = jb.attempts
           /\ nb.state = to /\ nb.version = jb.version + 1
<1>1. nb = NextVersion(jb, to, jb.attempts, jb.available_at, now)
  BY DEF Move
<1>2. /\ nb.state = to /\ nb.attempts = jb.attempts /\ nb.version = jb.version + 1
      /\ AttemptCount(nb) = AttemptCount(jb) /\ LastAttempt(nb) = LastAttempt(jb)
  BY <1>1, NextVersionFields DEF AttemptCount, LastAttempt
<1>3. /\ jb.state \in {"PENDING", "QUEUED", "RETRYING"}
      /\ jb.state = "QUEUED" => to = "CANCELLED"
  BY DEF CanMove, CanTransition, AllowedTransitions
<1>4. StateMatchesHistory(nb)
  BY <1>2, <1>3, JobFields DEF Decodes, StateMatchesHistory, LastAttemptIn
<1>5. to \in JobState
  BY DEF JobState
<1>6. Decodes(nb)
  BY <1>1, <1>4, <1>5, JobFields, CopyDecodes DEF Decodes, CanMove
<1> QED
  BY <1>2, <1>6 DEF RowSound

-----------------------------------------------------------------------------
(* The audit trail grows by events that begin where the last one ended.    *)
LEMMA TrailGrows ==
    ASSUME NEW ob \in Seq(Event), TrailSteps(ob), Len(ob) > 0, NEW e \in Event,
           e.from = ob[Len(ob)].to,
           \/ CanTransition(e.from, e.to)
           \/ e.from = e.to /\ e.to \in {"QUEUED", "RUNNING"}
    PROVE  /\ TrailSteps(Append(ob, e)) /\ Append(ob, e) \in Seq(Event)
           /\ Len(Append(ob, e)) = Len(ob) + 1
           /\ Append(ob, e)[Len(ob) + 1] = e
<1> DEFINE n == Len(ob)
<1>1. n \in Nat /\ n > 0
  OBVIOUS
<1> DEFINE ob2 == Append(ob, e)
<1>2. /\ Len(ob2) = n + 1 /\ ob2[n + 1] = e /\ \A v \in 1..n : ob2[v] = ob[v]
      /\ ob2 \in Seq(Event)
  BY AppendProperties
<1> HIDE DEF ob2, n
<1>3. ASSUME NEW v \in 1..(n + 1)
      PROVE  IF v = 1 THEN ob2[v].from = "ABSENT" /\ ob2[v].to = "PENDING"
             ELSE /\ ob2[v].from = ob2[v - 1].to
                  /\ \/ CanTransition(ob2[v].from, ob2[v].to)
                     \/ ob2[v].from = ob2[v].to /\ ob2[v].to \in {"QUEUED", "RUNNING"}
  <2>1. CASE v = n + 1
    <3>1. v # 1 /\ v - 1 = n /\ n \in 1..n
      BY <1>1, <2>1
    <3> QED
      BY <1>2, <2>1, <3>1 DEF n
  <2>2. CASE v # n + 1
    <3>1. v \in 1..n
      BY <1>1, <2>2
    <3>2. v # 1 => v - 1 \in 1..n
      BY <1>1, <3>1
    <3>3. IF v = 1 THEN ob[v].from = "ABSENT" /\ ob[v].to = "PENDING"
          ELSE /\ ob[v].from = ob[v - 1].to
               /\ \/ CanTransition(ob[v].from, ob[v].to)
                  \/ ob[v].from = ob[v].to /\ ob[v].to \in {"QUEUED", "RUNNING"}
      BY <3>1 DEF TrailSteps, n
    <3> QED
      BY <1>2, <3>1, <3>2, <3>3
  <2> QED
    BY <2>1, <2>2
<1>4. TrailSteps(ob2)
  BY <1>2, <1>3 DEF TrailSteps
<1> QED
  BY <1>2, <1>4 DEF n, ob2

LEMMA TrailStarts ==
    /\ TrailSteps(<< CreatedEvent >>) /\ << CreatedEvent >> \in Seq(Event)
    /\ Len(<< CreatedEvent >>) = 1 /\ << CreatedEvent >>[1].to = "PENDING"
<1>1. CreatedEvent \in Event /\ CreatedEvent.from = "ABSENT" /\ CreatedEvent.to = "PENDING"
  BY DEF CreatedEvent, Ev, Event, EventType, JobState, NoRow
<1> QED
  BY <1>1 DEF TrailSteps

(* A version and its event are written together.                           *)
LEMMA TrailFollows ==
    ASSUME NEW jb \in Job, jb.state \in JobState, Decodes(jb),
           NEW ob \in Seq(Event), Trail(jb, ob), NEW nb, nb.version = jb.version + 1,
           NEW to \in JobState, nb.state = to, NEW type \in EventType,
           \/ CanTransition(jb.state, to)
           \/ jb.state = to /\ to \in {"QUEUED", "RUNNING"},
           NEW es, es = << Ev(jb.state, to, type) >>
    PROVE  Trail(nb, ob \o es) /\ ob \o es \in Seq(Event)
<1> DEFINE e == Ev(jb.state, to, type)
<1>1. e \in Event /\ e.from = jb.state /\ e.to = to
  BY DEF Ev, Event
<1>2. Len(ob) = jb.version /\ jb.version >= 1 /\ ob[Len(ob)].to = jb.state /\ TrailSteps(ob)
  BY DEF Trail, JobState, NoRow, Decodes
<1>3. ob \o es = Append(ob, e)
  BY <1>1, AppendIsConcat
<1> HIDE DEF e
<1>4. /\ TrailSteps(Append(ob, e)) /\ Append(ob, e) \in Seq(Event)
      /\ Len(Append(ob, e)) = Len(ob) + 1 /\ Append(ob, e)[Len(ob) + 1] = e
  BY <1>1, <1>2, TrailGrows, JobFields
<1> QED
  BY <1>1, <1>2, <1>3, <1>4 DEF Trail

(* The two or three versions of a failure come with their events.          *)
LEMMA FailureTrail ==
    ASSUME NEW jb \in Job, Decodes(jb), NEW now \in Nat, CanFinishAttempt(jb, now, now),
           NEW r \in BOOLEAN, NEW type \in EventType, NEW ob \in Seq(Event), Trail(jb, ob),
           NEW nb, nb = AfterFailure(jb, now, r),
           NEW es, es = FailureEvents(jb, r, type)
    PROVE  /\ Trail(nb, ob \o es) /\ ob \o es \in Seq(Event)
           /\ es \in Seq(Event) /\ es # << >> /\ es[1].type = type
<1> DEFINE e1 == Ev("RUNNING", "FAILED", type)
           e2 == Ev("FAILED", "RETRYING", "retrying")
           e3 == Ev("RETRYING", "QUEUED", "requeued")
           d2 == Ev("FAILED", "DEAD_LETTER", "dead_lettered")
           ob1 == Append(ob, e1)
<1>1. /\ e1 \in Event /\ e1.from = "RUNNING" /\ e1.to = "FAILED" /\ e1.type = type
      /\ e2 \in Event /\ e2.from = "FAILED" /\ e2.to = "RETRYING"
      /\ e3 \in Event /\ e3.from = "RETRYING" /\ e3.to = "QUEUED"
      /\ d2 \in Event /\ d2.from = "FAILED" /\ d2.to = "DEAD_LETTER"
  BY DEF Ev, Event, EventType, JobState
<1>2. /\ jb.state = "RUNNING" /\ jb.version \in Nat /\ jb.version >= 1
      /\ Len(ob) = jb.version /\ ob[Len(ob)].to = "RUNNING" /\ TrailSteps(ob)
  BY JobFields DEF Trail, JobState, NoRow, Decodes, CanFinishAttempt
<1>3. /\ CanTransition("RUNNING", "FAILED") /\ CanTransition("FAILED", "RETRYING")
      /\ CanTransition("RETRYING", "QUEUED") /\ CanTransition("FAILED", "DEAD_LETTER")
  BY DEF CanTransition, AllowedTransitions
<1>4. \/ /\ es = << e1, e2, e3 >>
         /\ nb.state = "QUEUED" /\ nb.version = jb.version + 3
      \/ /\ es = << e1, d2 >>
         /\ nb.state = "DEAD_LETTER" /\ nb.version = jb.version + 2
  BY FailureSound DEF FailureEvents
<1> HIDE DEF e1, e2, e3, d2
<1>5. /\ TrailSteps(ob1) /\ ob1 \in Seq(Event) /\ Len(ob1) = jb.version + 1
      /\ ob1[Len(ob1)] = e1
  BY <1>1, <1>2, <1>3, TrailGrows
<1> HIDE DEF ob1
<1>6. CASE /\ es = << e1, e2, e3 >>
           /\ nb.state = "QUEUED" /\ nb.version = jb.version + 3
  <2> DEFINE ob2 == Append(ob1, e2)
             ob3 == Append(ob2, e3)
  <2>1. /\ TrailSteps(ob2) /\ ob2 \in Seq(Event) /\ Len(ob2) = jb.version + 2
        /\ ob2[Len(ob2)] = e2
    BY <1>1, <1>2, <1>3, <1>5, TrailGrows
  <2> HIDE DEF ob2
  <2>2. /\ TrailSteps(ob3) /\ ob3 \in Seq(Event) /\ Len(ob3) = jb.version + 3
        /\ ob3[Len(ob3)] = e3
    BY <1>1, <1>2, <1>3, <2>1, TrailGrows
  <2>3. ob3 = ob \o es
    BY <1>1, <1>6 DEF ob1, ob2
  <2> HIDE DEF ob3
  <2> QED
    BY <1>1, <1>6, <2>2, <2>3 DEF Trail
<1>7. CASE /\ es = << e1, d2 >>
           /\ nb.state = "DEAD_LETTER" /\ nb.version = jb.version + 2
  <2> DEFINE ob2 == Append(ob1, d2)
  <2>1. /\ TrailSteps(ob2) /\ ob2 \in Seq(Event) /\ Len(ob2) = jb.version + 2
        /\ ob2[Len(ob2)] = d2
    BY <1>1, <1>2, <1>3, <1>5, TrailGrows
  <2>2. ob2 = ob \o es
    BY <1>1, <1>7 DEF ob1
  <2> HIDE DEF ob2
  <2> QED
    BY <1>1, <1>7, <2>1, <2>2 DEF Trail
<1> QED
  BY <1>4, <1>6, <1>7

-----------------------------------------------------------------------------
(* What one step of the queue may do to row j: the row is written with its *)
(* events, retired, or left alone.                                         *)
Writes(j, next, events) == job'[j] = next /\ outbox'[j] = outbox[j] \o events

Rests(j) ==
    /\ job'[j] = job[j] /\ outbox'[j] = outbox[j]
    /\ lease'[j].token = lease[j].token /\ issued'[j] = issued[j]

Retires(j) ==
    /\ job[j].state \in Terminal /\ job'[j] = [job[j] EXCEPT !.state = "PRUNED"]
    /\ outbox'[j] = outbox[j] /\ issued'[j] = issued[j]

Arrives(j) ==
    /\ job[j].state = "ABSENT" /\ issued'[j] = issued[j]
    /\ \E k \in Keys, now \in Nat :
          \/ Writes(j, CreateJob(k, now), << CreatedEvent >>)
          \/ \E type \in EventType :
                Writes(j, Move(CreateJob(k, now), "QUEUED", now, now),
                       << CreatedEvent, Ev("PENDING", "QUEUED", type) >>)

Moves(j) ==
    /\ issued'[j] = issued[j]
    /\ \E to \in {"QUEUED", "CANCELLED"}, now \in Nat, type \in EventType :
          /\ CanMove(job[j], to, now)
          /\ Writes(j, Move(job[j], to, now, job[j].available_at),
                    << Ev(job[j].state, to, type) >>)

Postponed(j) ==
    /\ job[j].state = "QUEUED" /\ issued'[j] = issued[j]
    /\ \E available, now \in Nat :
          /\ job[j].created_at <= available /\ job[j].updated_at <= now
          /\ Writes(j, NextVersion(job[j], "QUEUED", job[j].attempts, available, now),
                    << Ev("QUEUED", "QUEUED", "transition") >>)

Ends(j) ==
    /\ issued'[j] = issued[j]
    /\ \E to \in {"SUCCEEDED", "CANCELLED"}, now, finished \in Nat,
          type \in EventType \ {"lease_expired"} :
          /\ CanFinishAttempt(job[j], now, finished)
          /\ Writes(j, FinishAttempt(job[j], to, now, finished, FALSE),
                    << Ev("RUNNING", to, type) >>)

Fails(j) ==
    /\ issued'[j] = issued[j]
    /\ \E now \in Nat, r \in BOOLEAN, type \in EventType :
          /\ CanFinishAttempt(job[j], now, now)
          /\ type = "lease_expired" => lease[j].until <= clock
          /\ Writes(j, AfterFailure(job[j], now, r), FailureEvents(job[j], r, type))

Begins(j) ==
    /\ issued'[j] = issued[j] + 1
    /\ \E w \in WorkerIds, now \in Nat :
          /\ CanStartAttempt(job[j], now)
          /\ Writes(j, StartAttempt(job[j], w, now), << Ev("QUEUED", "RUNNING", "claimed") >>)

(* The claim that recovers a row may also start it again.                  *)
BeginsAgain(j) ==
    /\ issued'[j] = issued[j] + 1 /\ lease[j].until <= clock
    /\ \E w \in WorkerIds, now, then \in Nat :
          LET failed == AfterFailure(job[j], then, TRUE) IN
          /\ CanFinishAttempt(job[j], then, then)
          /\ CanStartAttempt(failed, now)
          /\ job'[j] = StartAttempt(failed, w, now)
          /\ outbox'[j] = (outbox[j] \o FailureEvents(job[j], TRUE, "lease_expired"))
                             \o << Ev("QUEUED", "RUNNING", "claimed") >>

Resumes(j) ==
    /\ issued'[j] = issued[j] + 1 /\ lease[j].until <= clock
    /\ job[j].state = "RUNNING"
    /\ \E now \in Nat :
          /\ job[j].updated_at <= now
          /\ Writes(j, NextVersion(job[j], "RUNNING", job[j].attempts,
                                   job[j].available_at, now),
                    << Ev("RUNNING", "RUNNING", "checkpoint_resumed") >>)

RowStep(j) ==
    \/ Rests(j) \/ Retires(j) \/ Arrives(j) \/ Moves(j) \/ Postponed(j)
    \/ Ends(j) \/ Fails(j) \/ Begins(j) \/ BeginsAgain(j) \/ Resumes(j)

(* What a row carries along.                                               *)
LEMMA RowFacts ==
    ASSUME QueueInv, NEW j \in JobIds
    PROVE  /\ job[j] \in Job /\ outbox[j] \in Seq(Event) /\ Trail(job[j], outbox[j])
           /\ job[j].state \in JobState \cup NoRow
           /\ job[j].state = "ABSENT" => job[j] = NoJob
           /\ job[j].state \in JobState => RowSound(job[j]) /\ Decodes(job[j])
           /\ issued[j] \in Nat /\ lease[j].until \in Nat /\ clock \in Nat
<1>1. job[j] \in Job /\ lease[j] \in Lease
  BY DEF QueueInv, OwnershipInv, TypeOK
<1>2. outbox[j] \in Seq(Event) /\ issued[j] \in Nat /\ clock \in Nat
  BY DEF QueueInv, OwnershipInv, TypeOK
<1>3. lease[j].until \in Nat
  BY <1>1 DEF Lease
<1>4. RowInv(j) /\ job[j].state \in JobState \cup NoRow
  BY <1>1, JobFields DEF QueueInv
<1>5. job[j].state \in JobState => HasRow(j)
  BY DEF HasRow, JobState, NoRow
<1> QED
  BY <1>1, <1>2, <1>3, <1>4, <1>5 DEF RowInv, RowSound

(* Every such step keeps the row sound and its trail complete.             *)
LEMMA RowStepKeepsInv ==
    ASSUME QueueInv, NEW j \in JobIds, RowStep(j)
    PROVE  RowInv(j)'
<1> DEFINE jb == job[j]
           ob == outbox[j]
<1>1. /\ jb \in Job /\ ob \in Seq(Event) /\ Trail(jb, ob)
      /\ jb.state = "ABSENT" => jb = NoJob
      /\ jb.state \in JobState => RowSound(jb) /\ Decodes(jb)
  BY RowFacts
<1>2. ASSUME NEW nb, job'[j] = nb, nb.state \in JobState, RowSound(nb), Trail(nb, outbox'[j])
      PROVE  RowInv(j)'
  <2>1. nb.state # "ABSENT"
    BY <1>2 DEF JobState
  <2> QED
    BY <1>2, <2>1 DEF RowInv, HasRow
<1>3. CASE Rests(j)
  BY <1>3 DEF Rests, QueueInv, RowInv, HasRow
<1>4. CASE Retires(j)
  <2>1. job'[j].state = "PRUNED" /\ job'[j].version = job[j].version
    <3>1. \A b \in Job : /\ [b EXCEPT !.state = "PRUNED"].state = "PRUNED"
                         /\ [b EXCEPT !.state = "PRUNED"].version = b.version
      BY DEF Job
    <3> QED
      BY <1>1, <1>4, <3>1 DEF Retires
  <2> QED
    BY <1>1, <1>4, <2>1 DEF Retires, RowInv, HasRow, NoRow, Trail
<1>5. CASE Arrives(j)
  <2>1. ob = << >>
    BY <1>1, <1>5 DEF Arrives, Trail, NoJob
  <2>2. ASSUME NEW k \in Keys, NEW now \in Nat,
               Writes(j, CreateJob(k, now), << CreatedEvent >>)
        PROVE  RowInv(j)'
    <3> DEFINE nb == CreateJob(k, now)
    <3>1. /\ Decodes(nb) /\ nb.state = "PENDING" /\ nb.version = 1
      BY CreateSound
    <3>2. job'[j] = nb /\ outbox'[j] = << CreatedEvent >>
      BY <2>1, <2>2, TrailStarts DEF Writes
    <3>3. Trail(nb, << CreatedEvent >>)
      BY <3>1, TrailStarts DEF Trail
    <3> HIDE DEF nb
    <3>4. RowSound(nb) /\ nb.state \in JobState
      BY <3>1 DEF RowSound, JobState
    <3> QED
      BY <1>2, <3>2, <3>3, <3>4
  <2>3. ASSUME NEW k \in Keys, NEW now \in Nat, NEW type \in EventType,
               Writes(j, Move(CreateJob(k, now), "QUEUED", now, now),
                      << CreatedEvent, Ev("PENDING", "QUEUED", type) >>)
        PROVE  RowInv(j)'
    <3> DEFINE cb == CreateJob(k, now)
               nb == Move(cb, "QUEUED", now, now)
               es == << Ev(cb.state, "QUEUED", type) >>
    <3>1. /\ cb \in Job /\ Decodes(cb) /\ cb.state = "PENDING" /\ cb.version = 1
          /\ cb.available_at = now /\ cb.updated_at = now
      BY CreateSound, CreateJobType
    <3>2. Trail(cb, << CreatedEvent >>)
      BY <3>1, TrailStarts DEF Trail
    <3>3. CanMove(cb, "QUEUED", now) /\ CanTransition(cb.state, "QUEUED")
      BY <3>1 DEF CanMove, CanTransition, AllowedTransitions
    <3>4. /\ Ev("PENDING", "QUEUED", type) \in Event /\ CreatedEvent \in Event
      BY DEF Ev, Event, CreatedEvent, EventType, JobState, NoRow
    <3>5. job'[j] = nb /\ outbox'[j] = << CreatedEvent >> \o es
      BY <2>1, <2>3, <3>1, <3>4 DEF Writes
    <3> HIDE DEF cb
    <3>6. RowSound(nb) /\ nb.state = "QUEUED" /\ nb.version = cb.version + 1
      BY <3>1, <3>3, MoveSound
    <3> HIDE DEF nb
    <3>7. "QUEUED" \in JobState /\ cb.state \in JobState
      BY <3>1 DEF JobState
    <3>8. Trail(nb, << CreatedEvent >> \o es)
      BY <3>1, <3>2, <3>3, <3>6, <3>7, TrailStarts, TrailFollows
    <3> QED
      BY <1>2, <3>5, <3>6, <3>7, <3>8
  <2> QED
    BY <1>5, <2>2, <2>3 DEF Arrives
<1>6. CASE Moves(j)
  <2> PICK to \in {"QUEUED", "CANCELLED"}, now \in Nat, type \in EventType :
          /\ CanMove(jb, to, now)
          /\ Writes(j, Move(jb, to, now, jb.available_at), << Ev(jb.state, to, type) >>)
    BY <1>6 DEF Moves
  <2> DEFINE nb == Move(jb, to, now, jb.available_at)
  <2>1. jb.state \in JobState /\ to \in JobState /\ CanTransition(jb.state, to)
    BY DEF CanMove, CanTransition, AllowedTransitions, JobState
  <2>2. job'[j] = nb /\ outbox'[j] = ob \o << Ev(jb.state, to, type) >>
    BY DEF Writes
  <2>3. RowSound(nb) /\ nb.state = to /\ nb.version = jb.version + 1
    BY <1>1, <2>1, MoveSound
  <2> HIDE DEF nb, jb, ob
  <2>4. Trail(nb, outbox'[j])
    BY <1>1, <2>1, <2>2, <2>3, TrailFollows
  <2> QED
    BY <1>2, <2>1, <2>2, <2>3, <2>4
<1>7. CASE Postponed(j)
  <2> PICK available \in Nat, now \in Nat :
          /\ jb.created_at <= available /\ jb.updated_at <= now
          /\ Writes(j, NextVersion(jb, "QUEUED", jb.attempts, available, now),
                    << Ev("QUEUED", "QUEUED", "transition") >>)
    BY <1>7 DEF Postponed
  <2> DEFINE nb == NextVersion(jb, "QUEUED", jb.attempts, available, now)
  <2>1. jb.state = "QUEUED" /\ "QUEUED" \in JobState /\ "transition" \in EventType
    BY <1>7 DEF Postponed, JobState, EventType
  <2>2. job'[j] = nb /\ outbox'[j] = ob \o << Ev(jb.state, "QUEUED", "transition") >>
    BY <2>1 DEF Writes
  <2>3. /\ nb.state = "QUEUED" /\ nb.version = jb.version + 1
        /\ AttemptCount(nb) = AttemptCount(jb) /\ LastAttempt(nb) = LastAttempt(jb)
    BY NextVersionFields DEF AttemptCount, LastAttempt
  <2>4. StateMatchesHistory(nb)
    BY <1>1, <2>1, <2>3 DEF Decodes, StateMatchesHistory
  <2>5. RowSound(nb)
    <3>1. Decodes(nb)
      BY <1>1, <2>1, <2>4, CopyDecodes
    <3> QED
      BY <2>3, <3>1 DEF RowSound
  <2> HIDE DEF nb, jb, ob
  <2>6. Trail(nb, outbox'[j])
    BY <1>1, <2>1, <2>2, <2>3, TrailFollows
  <2> QED
    BY <1>2, <2>1, <2>2, <2>3, <2>5, <2>6
<1>8. CASE Ends(j)
  <2> PICK to \in {"SUCCEEDED", "CANCELLED"}, now \in Nat, finished \in Nat,
           type \in EventType \ {"lease_expired"} :
          /\ CanFinishAttempt(jb, now, finished)
          /\ Writes(j, FinishAttempt(jb, to, now, finished, FALSE),
                    << Ev("RUNNING", to, type) >>)
    BY <1>8 DEF Ends
  <2> DEFINE nb == FinishAttempt(jb, to, now, finished, FALSE)
  <2>1. /\ jb.state = "RUNNING" /\ jb.state \in JobState /\ to \in JobState
        /\ CanTransition(jb.state, to)
    BY DEF CanFinishAttempt, CanTransition, AllowedTransitions, JobState
  <2>2. job'[j] = nb /\ outbox'[j] = ob \o << Ev(jb.state, to, type) >>
    BY <2>1 DEF Writes
  <2>3. nb.state = to /\ nb.version = jb.version + 1
    BY DEF FinishAttempt, NextVersion
  <2>4. RowSound(nb)
    <3>1. Decodes(nb)
      BY <1>1, <2>1, FinishDecodes
    <3> QED
      BY <2>3, <3>1 DEF RowSound
  <2> HIDE DEF nb, jb, ob
  <2>5. Trail(nb, outbox'[j])
    BY <1>1, <2>1, <2>2, <2>3, TrailFollows
  <2> QED
    BY <1>2, <2>1, <2>2, <2>3, <2>4, <2>5
<1>9. CASE Fails(j)
  <2> PICK now \in Nat, r \in BOOLEAN, type \in EventType :
          /\ CanFinishAttempt(jb, now, now)
          /\ Writes(j, AfterFailure(jb, now, r), FailureEvents(jb, r, type))
    BY <1>9 DEF Fails
  <2> DEFINE nb == AfterFailure(jb, now, r)
  <2>1. jb.state \in JobState
    BY DEF CanFinishAttempt, JobState
  <2>2. job'[j] = nb /\ outbox'[j] = ob \o FailureEvents(jb, r, type)
    BY DEF Writes
  <2>3. RowSound(nb) /\ nb.state \in JobState
    BY <1>1, <2>1, FailureSound DEF JobState
  <2>4. Trail(nb, outbox'[j])
    BY <1>1, <2>1, <2>2, FailureTrail
  <2> HIDE DEF nb
  <2> QED
    BY <1>2, <2>2, <2>3, <2>4
<1>10. CASE Begins(j)
  <2> PICK w \in WorkerIds, now \in Nat :
          /\ CanStartAttempt(jb, now)
          /\ Writes(j, StartAttempt(jb, w, now), << Ev("QUEUED", "RUNNING", "claimed") >>)
    BY <1>10 DEF Begins
  <2> DEFINE nb == StartAttempt(jb, w, now)
  <2>1. /\ jb.state = "QUEUED" /\ jb.state \in JobState /\ "RUNNING" \in JobState
        /\ CanTransition(jb.state, "RUNNING") /\ "claimed" \in EventType
    BY DEF CanStartAttempt, CanTransition, AllowedTransitions, JobState, EventType
  <2>2. job'[j] = nb /\ outbox'[j] = ob \o << Ev(jb.state, "RUNNING", "claimed") >>
    BY <2>1 DEF Writes
  <2>3. nb.state = "RUNNING" /\ nb.version = jb.version + 1
    BY DEF StartAttempt, NextVersion
  <2>4. RowSound(nb)
    <3>1. Decodes(nb)
      BY <1>1, <2>1, StartDecodes
    <3> QED
      BY <2>3, <3>1 DEF RowSound
  <2> HIDE DEF nb, jb, ob
  <2>5. Trail(nb, outbox'[j])
    BY <1>1, <2>1, <2>2, <2>3, TrailFollows
  <2> QED
    BY <1>2, <2>1, <2>2, <2>3, <2>4, <2>5
<1>11. CASE BeginsAgain(j)
  <2> PICK w \in WorkerIds, now \in Nat, then \in Nat :
          /\ CanFinishAttempt(jb, then, then)
          /\ CanStartAttempt(AfterFailure(jb, then, TRUE), now)
          /\ job'[j] = StartAttempt(AfterFailure(jb, then, TRUE), w, now)
          /\ outbox'[j] = (ob \o FailureEvents(jb, TRUE, "lease_expired"))
                             \o << Ev("QUEUED", "RUNNING", "claimed") >>
    BY <1>11 DEF BeginsAgain
  <2> DEFINE fb == AfterFailure(jb, then, TRUE)
             fo == ob \o FailureEvents(jb, TRUE, "lease_expired")
             nb == StartAttempt(fb, w, now)
  <2>1. jb.state \in JobState /\ "lease_expired" \in EventType
    BY DEF CanFinishAttempt, JobState, EventType
  <2>2. RowSound(fb) /\ Decodes(fb) /\ fb \in Job
    BY <1>1, <2>1, FailureSound DEF RowSound
  <2>3. Trail(fb, fo) /\ fo \in Seq(Event)
    <3> HIDE DEF jb, ob
    <3>1. /\ jb \in Job /\ Decodes(jb) /\ ob \in Seq(Event) /\ Trail(jb, ob)
          /\ CanFinishAttempt(jb, then, then) /\ TRUE \in BOOLEAN
      BY <1>1, <2>1
    <3> QED
      BY ONLY <2>1, <3>1, then \in Nat, FailureTrail
  <2>4. /\ job'[j] = nb /\ outbox'[j] = fo \o << Ev("QUEUED", "RUNNING", "claimed") >>
        /\ CanStartAttempt(fb, now)
    OBVIOUS
  <2> HIDE DEF fb, fo, jb, ob
  <2>5. /\ fb.state = "QUEUED" /\ fb.state \in JobState /\ "RUNNING" \in JobState
        /\ CanTransition(fb.state, "RUNNING") /\ "claimed" \in EventType
    BY <2>4 DEF CanStartAttempt, CanTransition, AllowedTransitions, JobState, EventType
  <2>6. nb.state = "RUNNING" /\ nb.version = fb.version + 1
    BY DEF StartAttempt, NextVersion
  <2>7. RowSound(nb)
    <3>1. Decodes(nb)
      BY <2>2, <2>4, StartDecodes
    <3> QED
      BY <2>6, <3>1 DEF RowSound
  <2> HIDE DEF nb
  <2>8. Trail(nb, outbox'[j])
    BY <2>2, <2>3, <2>4, <2>5, <2>6, TrailFollows
  <2> QED
    BY <1>2, <2>4, <2>5, <2>6, <2>7, <2>8
<1>12. CASE Resumes(j)
  <2> PICK now \in Nat :
          /\ jb.updated_at <= now
          /\ Writes(j, NextVersion(jb, "RUNNING", jb.attempts, jb.available_at, now),
                    << Ev("RUNNING", "RUNNING", "checkpoint_resumed") >>)
    BY <1>12 DEF Resumes
  <2> DEFINE nb == NextVersion(jb, "RUNNING", jb.attempts, jb.available_at, now)
  <2>1. jb.state = "RUNNING" /\ "RUNNING" \in JobState /\ "checkpoint_resumed" \in EventType
    BY <1>12 DEF Resumes, JobState, EventType
  <2>2. job'[j] = nb /\ outbox'[j] = ob \o << Ev(jb.state, "RUNNING", "checkpoint_resumed") >>
    BY <2>1 DEF Writes
  <2>3. /\ nb.state = "RUNNING" /\ nb.version = jb.version + 1
        /\ AttemptCount(nb) = AttemptCount(jb) /\ LastAttempt(nb) = LastAttempt(jb)
    BY NextVersionFields DEF AttemptCount, LastAttempt
  <2>4. StateMatchesHistory(nb)
    BY <1>1, <2>1, <2>3 DEF Decodes, StateMatchesHistory, LastAttemptIn
  <2>5. RowSound(nb)
    <3>1. jb.available_at \in Nat /\ jb.created_at <= jb.available_at
      BY <1>1, <2>1, JobFields DEF Decodes
    <3>2. Decodes(nb)
      BY <1>1, <2>1, <2>4, <3>1, CopyDecodes
    <3> QED
      BY <2>3, <3>2 DEF RowSound
  <2> HIDE DEF nb, jb, ob
  <2>6. Trail(nb, outbox'[j])
    BY <1>1, <2>1, <2>2, <2>3, TrailFollows
  <2> QED
    BY <1>2, <2>1, <2>2, <2>3, <2>5, <2>6
<1> QED
  BY <1>3, <1>4, <1>5, <1>6, <1>7, <1>8, <1>9, <1>10, <1>11, <1>12 DEF RowStep

-----------------------------------------------------------------------------
(* What such a step may not do. *)

(* The state a step leaves and the state it enters.                        *)
LEMMA RowStates ==
    ASSUME QueueInv, NEW j \in JobIds
    PROVE  /\ Moves(j) => job[j].state \in {"PENDING", "QUEUED", "RETRYING"}
           /\ Ends(j) \/ Fails(j) \/ BeginsAgain(j) => job[j].state = "RUNNING"
           /\ Begins(j) => job[j].state = "QUEUED"
<1>1. Moves(j) => job[j].state \in {"PENDING", "QUEUED", "RETRYING"}
  BY DEF Moves, CanMove, CanTransition, AllowedTransitions
<1> QED
  BY <1>1 DEF Ends, Fails, BeginsAgain, Begins, CanFinishAttempt, CanStartAttempt

LEMMA RowStepIsFinal ==
    ASSUME QueueInv, NEW j \in JobIds, RowStep(j)
    PROVE  /\ job[j].state \in Terminal =>
                 job'[j] = job[j] \/ job'[j] = [job[j] EXCEPT !.state = "PRUNED"]
           /\ job[j].state = "PRUNED" => job'[j] = job[j]
BY RowStates DEF RowStep, Rests, Retires, Arrives, Postponed, Resumes, Terminal

(* The first event of a write is the one at the next version.              *)
LEMMA NextEvent ==
    ASSUME NEW jb \in Job, NEW ob \in Seq(Event), Trail(jb, ob),
           NEW es \in Seq(Event), es # << >>
    PROVE  (ob \o es)[jb.version + 1] = es[1]
<1>1. Len(ob) = jb.version /\ jb.version \in Nat /\ Len(es) \in Nat /\ Len(es) > 0
  BY JobFields, LenProperties, EmptySeq DEF Trail
<1> QED
  BY <1>1, ConcatProperties

LEMMA RowStepRespectsLease ==
    ASSUME QueueInv, NEW j \in JobIds, RowStep(j), Running(j), lease[j].until > clock
    PROVE  /\ Running(j)' => /\ lease'[j].token = lease[j].token
                             /\ job'[j].version = job[j].version
           /\ ~Running(j)' => outbox'[j][job[j].version + 1].type # "lease_expired"
<1> DEFINE jb == job[j]
           ob == outbox[j]
<1>1. /\ jb \in Job /\ ob \in Seq(Event) /\ Trail(jb, ob) /\ jb.state = "RUNNING"
      /\ Decodes(jb) /\ ~(lease[j].until <= clock)
  BY RowFacts DEF Running, JobState
<1>2. CASE Rests(j)
  BY <1>1, <1>2 DEF Rests, Running
<1>3. CASE Ends(j)
  <2> PICK to \in {"SUCCEEDED", "CANCELLED"}, now \in Nat, finished \in Nat,
           type \in EventType \ {"lease_expired"} :
          Writes(j, FinishAttempt(jb, to, now, finished, FALSE), << Ev("RUNNING", to, type) >>)
    BY <1>3 DEF Ends
  <2>1. job'[j].state = to
    BY DEF Writes, FinishAttempt, NextVersion
  <2> DEFINE e == Ev("RUNNING", to, type)
  <2>2. e \in Event /\ e.type # "lease_expired" /\ outbox'[j] = ob \o << e >>
    BY DEF Ev, Event, JobState, Writes
  <2> HIDE DEF e, jb, ob
  <2>3. (ob \o << e >>)[jb.version + 1] = << e >>[1]
    <3>1. << e >> \in Seq(Event) /\ << e >> # << >>
      BY <2>2
    <3> QED
      BY <1>1, <3>1, NextEvent
  <2> QED
    BY <2>1, <2>2, <2>3 DEF Running, jb
<1>4. CASE Fails(j)
  <2> PICK now \in Nat, r \in BOOLEAN, type \in EventType :
          /\ CanFinishAttempt(jb, now, now) /\ type # "lease_expired"
          /\ Writes(j, AfterFailure(jb, now, r), FailureEvents(jb, r, type))
    BY <1>1, <1>4 DEF Fails
  <2> DEFINE es == FailureEvents(jb, r, type)
             nb == AfterFailure(jb, now, r)
  <2>1. job'[j] = nb /\ outbox'[j] = ob \o es
    BY DEF Writes
  <2>2. nb.state # "RUNNING"
    BY <1>1, AfterFailureType
  <2>3. es \in Seq(Event) /\ es # << >> /\ es[1].type # "lease_expired"
    BY <1>1, FailureTrail
  <2> HIDE DEF es, nb, jb, ob
  <2>4. (ob \o es)[jb.version + 1] = es[1]
    BY <1>1, <2>3, NextEvent
  <2> QED
    BY <2>1, <2>2, <2>3, <2>4 DEF Running, jb
<1> QED
  BY <1>1, <1>2, <1>3, <1>4, RowStates
     DEF RowStep, Retires, Arrives, Postponed, BeginsAgain, Resumes, Terminal

(* The attempts a row keeps.                                               *)
KeepsHistory(jb, nb) ==
    /\ Len(nb.attempts) >= Len(jb.attempts)
    /\ \A n \in 1..Len(jb.attempts) :
          IF jb.attempts[n].state = "RUNNING"
            THEN /\ jb.attempts[n].worker_id = nb.attempts[n].worker_id
                 /\ jb.attempts[n].started_at = nb.attempts[n].started_at
            ELSE jb.attempts[n] = nb.attempts[n]

LEMMA SameAttempts ==
    ASSUME NEW jb \in Job, NEW nb, nb.attempts = jb.attempts
    PROVE  KeepsHistory(jb, nb)
BY JobFields DEF KeepsHistory, AttemptCount

(* An attempt that ends was the last, and running.                         *)
LEMMA EndedAttempt ==
    ASSUME NEW jb \in Job, Decodes(jb), jb.state = "RUNNING", NEW nb,
           AttemptCount(nb) = AttemptCount(jb), NEW to, NEW finished, NEW r,
           nb.attempts[AttemptCount(jb)] = FinishedAttempt(LastAttempt(jb), to, finished, r),
           \A n \in 1..AttemptCount(jb) :
              n # AttemptCount(jb) => nb.attempts[n] = jb.attempts[n]
    PROVE  KeepsHistory(jb, nb)
<1> DEFINE n == AttemptCount(jb)
<1>1. n \in Nat /\ jb.attempts[n].state = "RUNNING"
  BY JobFields DEF Decodes, StateMatchesHistory, LastAttemptIn, LastAttempt, AttemptCount
<1>2. /\ nb.attempts[n].worker_id = jb.attempts[n].worker_id
      /\ nb.attempts[n].started_at = jb.attempts[n].started_at
  BY DEF FinishedAttempt, LastAttempt, AttemptCount
<1>3. ASSUME NEW i \in 1..n
      PROVE  IF jb.attempts[i].state = "RUNNING"
               THEN /\ jb.attempts[i].worker_id = nb.attempts[i].worker_id
                    /\ jb.attempts[i].started_at = nb.attempts[i].started_at
               ELSE jb.attempts[i] = nb.attempts[i]
  BY <1>1, <1>2
<1> QED
  BY <1>1, <1>3 DEF KeepsHistory, AttemptCount

LEMMA CopyKeepsHistory ==
    ASSUME NEW jb \in Job, NEW to, NEW available, NEW now
    PROVE  /\ KeepsHistory(jb, NextVersion(jb, to, jb.attempts, available, now))
           /\ KeepsHistory(jb, Move(jb, to, now, available))
<1> DEFINE nb == NextVersion(jb, to, jb.attempts, available, now)
<1>1. nb.attempts = jb.attempts
  BY DEF NextVersion
<1> HIDE DEF nb
<1>2. KeepsHistory(jb, nb)
  BY <1>1, SameAttempts
<1> QED
  BY <1>2 DEF Move, nb

LEMMA FinishKeepsHistory ==
    ASSUME NEW jb \in Job, Decodes(jb), jb.state = "RUNNING",
           NEW to, NEW now, NEW finished, NEW r
    PROVE  KeepsHistory(jb, FinishAttempt(jb, to, now, finished, r))
<1> DEFINE nb == FinishAttempt(jb, to, now, finished, r)
<1>1. AttemptCount(jb) > 0
  BY DEF Decodes, StateMatchesHistory, LastAttemptIn
<1>2. /\ AttemptCount(nb) = AttemptCount(jb)
      /\ nb.attempts[AttemptCount(jb)] = FinishedAttempt(LastAttempt(jb), to, finished, r)
      /\ \A n \in 1..AttemptCount(jb) :
            n # AttemptCount(jb) => nb.attempts[n] = jb.attempts[n]
  BY <1>1, FinishFields
<1> HIDE DEF nb
<1>3. KeepsHistory(jb, nb)
  BY <1>2, EndedAttempt
<1> QED
  BY <1>3 DEF nb

LEMMA FailureKeepsHistory ==
    ASSUME NEW jb \in Job, Decodes(jb), NEW now \in Nat, CanFinishAttempt(jb, now, now),
           NEW r \in BOOLEAN
    PROVE  KeepsHistory(jb, AfterFailure(jb, now, r)) /\ AfterFailure(jb, now, r) \in Job
<1> DEFINE nb == AfterFailure(jb, now, r)
<1>1. jb.state = "RUNNING"
  BY DEF CanFinishAttempt
<1>2. /\ nb \in Job /\ AttemptCount(nb) = AttemptCount(jb)
      /\ nb.attempts[AttemptCount(jb)] = FinishedAttempt(LastAttempt(jb), "FAILED", now, r)
      /\ \A n \in 1..AttemptCount(jb) :
            n # AttemptCount(jb) => nb.attempts[n] = jb.attempts[n]
  BY FailureSound
<1> HIDE DEF nb
<1>3. KeepsHistory(jb, nb)
  BY <1>1, <1>2, EndedAttempt
<1> QED
  BY <1>2, <1>3 DEF nb

LEMMA StartKeepsHistory ==
    ASSUME NEW jb \in Job, NEW sb \in Job, KeepsHistory(jb, sb),
           NEW w \in WorkerIds, NEW now \in Nat
    PROVE  KeepsHistory(jb, StartAttempt(sb, w, now))
<1>1. /\ sb.attempts \in Seq(JobAttempt) /\ AttemptCount(sb) = Len(sb.attempts)
      /\ Len(sb.attempts) \in Nat /\ Len(jb.attempts) \in Nat
  BY JobFields DEF AttemptCount
<1> DEFINE nb == StartAttempt(sb, w, now)
           a == [worker_id |-> w, state |-> "RUNNING", started_at |-> now,
                 finished_at |-> 0, retryable |-> FALSE]
<1>2. nb.attempts = Append(sb.attempts, a)
  BY DEF StartAttempt, NextVersion
<1> HIDE DEF nb, a
<1>3. /\ Len(nb.attempts) = Len(sb.attempts) + 1
      /\ \A n \in 1..Len(sb.attempts) : nb.attempts[n] = sb.attempts[n]
  BY <1>1, <1>2
<1>4. KeepsHistory(jb, nb)
  BY <1>1, <1>3 DEF KeepsHistory
<1> QED
  BY <1>4 DEF nb

LEMMA RowStepKeepsHistory ==
    ASSUME QueueInv, NEW j \in JobIds, RowStep(j)
    PROVE  KeepsHistory(job[j], job'[j])
<1> DEFINE jb == job[j]
<1>1. /\ jb \in Job
      /\ jb.state \in JobState => Decodes(jb)
      /\ jb.state = "ABSENT" => jb = NoJob
  BY RowFacts
<1>2. /\ jb.state = "RUNNING" => Decodes(jb)
      /\ \A now \in Nat : CanFinishAttempt(jb, now, now) => jb.state = "RUNNING"
      /\ TRUE \in BOOLEAN
  BY <1>1 DEF JobState, CanFinishAttempt
<1>3. KeepsHistory(jb, jb)
  BY <1>1, SameAttempts
<1>4. CASE Retires(j)
  <2>1. \A b \in Job : [b EXCEPT !.state = "PRUNED"].attempts = b.attempts
    BY DEF Job
  <2> QED
    BY <1>1, <1>4, <2>1, SameAttempts DEF Retires
<1>5. CASE Arrives(j)
  <2>1. jb.attempts = << >>
    BY <1>1, <1>5 DEF Arrives, NoJob
  <2>2. \A b : KeepsHistory(jb, b) <=> Len(b.attempts) >= 0
    BY <2>1 DEF KeepsHistory
  <2>3. ASSUME NEW k, NEW now
        PROVE  /\ KeepsHistory(jb, CreateJob(k, now))
               /\ KeepsHistory(jb, Move(CreateJob(k, now), "QUEUED", now, now))
    <3>1. /\ CreateJob(k, now).attempts = << >>
          /\ Move(CreateJob(k, now), "QUEUED", now, now).attempts = << >>
      BY DEF CreateJob, Move, NextVersion
    <3> QED
      BY <2>2, <3>1
  <2> QED
    BY <1>5, <2>3 DEF Arrives, Writes
<1>6. CASE Moves(j) \/ Postponed(j) \/ Resumes(j)
  BY <1>1, <1>6, CopyKeepsHistory DEF Moves, Postponed, Resumes, Writes
<1>7. CASE Ends(j)
  <2>1. PICK to \in {"SUCCEEDED", "CANCELLED"}, now \in Nat, finished \in Nat :
            job'[j] = FinishAttempt(jb, to, now, finished, FALSE)
    BY <1>7 DEF Ends, Writes
  <2>2. jb.state = "RUNNING" /\ Decodes(jb)
    BY <1>2, <1>7, RowStates
  <2> QED
    BY <1>1, <2>1, <2>2, FinishKeepsHistory
<1>8. CASE Fails(j)
  BY <1>1, <1>2, <1>8, RowStates, FailureKeepsHistory DEF Fails, Writes
<1>9. CASE Begins(j)
  BY <1>1, <1>3, <1>9, StartKeepsHistory DEF Begins, Writes
<1>10. CASE BeginsAgain(j)
  <2> PICK w \in WorkerIds, now \in Nat, then \in Nat :
          /\ CanFinishAttempt(jb, then, then)
          /\ job'[j] = StartAttempt(AfterFailure(jb, then, TRUE), w, now)
    BY <1>10 DEF BeginsAgain
  <2> DEFINE fb == AfterFailure(jb, then, TRUE)
  <2>1. KeepsHistory(jb, fb) /\ fb \in Job
    BY <1>1, <1>2, FailureKeepsHistory
  <2> HIDE DEF fb
  <2>2. KeepsHistory(jb, StartAttempt(fb, w, now))
    BY <1>1, <2>1, StartKeepsHistory
  <2> QED
    BY <2>2 DEF fb
<1> QED
  BY <1>3, <1>4, <1>5, <1>6, <1>7, <1>8, <1>9, <1>10 DEF RowStep, Rests

-----------------------------------------------------------------------------
(* Every step of the queue is such a step of every row. *)
LEMMA PersistIsRowStep ==
    ASSUME QueueInv, NEW j \in JobIds, NEW next, NEW events, NEW nextLease,
           Persist(j, next, events, nextLease), UNCHANGED issued
    PROVE  /\ Writes(j, next, events) /\ issued'[j] = issued[j]
           /\ \A i \in JobIds \ {j} : Rests(i)
<1>1. job \in [JobIds -> Job] /\ lease \in [JobIds -> Lease]
      /\ outbox \in [JobIds -> Seq(Event)]
  BY DEF QueueInv, OwnershipInv, TypeOK
<1>2. /\ job'[j] = next /\ outbox'[j] = outbox[j] \o events
      /\ \A i \in JobIds \ {j} : /\ job'[i] = job[i] /\ outbox'[i] = outbox[i]
                                 /\ lease'[i] = lease[i]
  BY <1>1 DEF Persist
<1> QED
  BY <1>2 DEF Writes, Rests

LEMMA QuietIsRowStep ==
    ASSUME UNCHANGED <<job, outbox, issued>>,
           \A i \in JobIds : lease'[i].token = lease[i].token
    PROVE  \A i \in JobIds : RowStep(i)
BY DEF RowStep, Rests

(* The attempt of a running row can be ended now, or when the authority    *)
(* says that it ended.                                                     *)
LEMMA RunningCanFinish ==
    ASSUME QueueInv, NEW j \in JobIds, Running(j), NEW t \in Nat, job[j].updated_at <= t
    PROVE  /\ CanFinishAttempt(job[j], t, t)
           /\ \A f \in Nat : LastAttempt(job[j]).started_at <= f /\ f <= t
                                => CanFinishAttempt(job[j], t, f)
<1> DEFINE jb == job[j]
           n == AttemptCount(jb)
<1>1. jb \in Job /\ jb.state = "RUNNING" /\ Decodes(jb)
  BY RowFacts DEF Running, JobState
<1>2. n \in Nat /\ n > 0 /\ LastAttempt(jb) = jb.attempts[n]
  BY <1>1, JobFields DEF Decodes, StateMatchesHistory, LastAttemptIn, LastAttempt, AttemptCount
<1>3. /\ jb.attempts[n].started_at \in Nat /\ jb.updated_at \in Nat
      /\ jb.attempts[n].started_at <= jb.updated_at
  BY <1>1, <1>2, JobFields DEF Decodes, AttemptsInLifetime
<1> HIDE DEF n, jb
<1>4. LastAttempt(jb).started_at <= t /\ t >= jb.updated_at
  BY <1>2, <1>3 DEF jb
<1> QED
  BY <1>1, <1>4 DEF CanFinishAttempt, jb

LEMMA AuthorityEnds ==
    ASSUME QueueInv, NEW j \in JobIds, Running(j), NEW now \in Nat, NEW ans \in Answer,
           Authoritative(job[j], ans)
    PROVE  \E to \in {"SUCCEEDED", "CANCELLED"}, t, finished \in Nat :
              /\ to = "SUCCEEDED" <=> ans.kind = "published"
              /\ CanFinishAttempt(job[j], t, finished)
              /\ PublicationCompletion(job[j], ans, now) =
                    FinishAttempt(job[j], to, t, finished, FALSE)
<1> DEFINE to == IF ans.kind = "published" THEN "SUCCEEDED" ELSE "CANCELLED"
           t == MaxOf(MaxOf(now, job[j].updated_at), ans.at)
<1>1. job[j].updated_at \in Nat /\ ans.at \in Nat
  BY RowFacts, JobFields DEF Answer
<1>2. t \in Nat /\ job[j].updated_at <= t /\ ans.at <= t
  BY <1>1 DEF MaxOf
<1>3. /\ to \in {"SUCCEEDED", "CANCELLED"}
      /\ to = "SUCCEEDED" <=> ans.kind = "published"
  OBVIOUS
<1>4. PublicationCompletion(job[j], ans, now) = FinishAttempt(job[j], to, t, ans.at, FALSE)
  BY DEF PublicationCompletion
<1> HIDE DEF to, t
<1>5. CanFinishAttempt(job[j], t, ans.at)
  BY <1>1, <1>2, RunningCanFinish DEF Authoritative
<1> QED
  BY <1>1, <1>2, <1>3, <1>4, <1>5

LEMMA ReconcileIsRowStep ==
    ASSUME QueueInv, NEW j \in JobIds, Running(j), NEW now \in Nat, NEW ans \in Answer,
           Reconcile(j, now, ans), UNCHANGED issued
    PROVE  \A i \in JobIds : RowStep(i)
<1>1. CASE /\ Authoritative(job[j], ans)
           /\ Persist(j, PublicationCompletion(job[j], ans, now),
                      CompletionEvents(ans), NoLease)
  <2>1. /\ Writes(j, PublicationCompletion(job[j], ans, now), CompletionEvents(ans))
        /\ issued'[j] = issued[j] /\ \A i \in JobIds \ {j} : Rests(i)
    BY <1>1, PersistIsRowStep
  <2>2. PICK to \in {"SUCCEEDED", "CANCELLED"}, t \in Nat, finished \in Nat :
              /\ to = "SUCCEEDED" <=> ans.kind = "published"
              /\ CanFinishAttempt(job[j], t, finished)
              /\ PublicationCompletion(job[j], ans, now) =
                    FinishAttempt(job[j], to, t, finished, FALSE)
    BY <1>1, AuthorityEnds
  <2>3. \E type \in EventType \ {"lease_expired"} :
            CompletionEvents(ans) = << Ev("RUNNING", to, type) >>
    BY <2>2 DEF CompletionEvents, EventType
  <2>4. Ends(j)
    BY <2>1, <2>2, <2>3 DEF Ends
  <2> QED
    BY <2>1, <2>4 DEF RowStep
<1>2. CASE UNCHANGED <<job, outbox, lease>>
  BY <1>2, QuietIsRowStep
<1> QED
  BY <1>1, <1>2 DEF Reconcile, Defer

LEMMA SubmitIsRowStep ==
    ASSUME QueueInv, Submit
    PROVE  \A i \in JobIds : RowStep(i)
<1>1. ASSUME NEW j \in JobIds, NEW next, NEW events, NEW nextLease,
             Persist(j, next, events, nextLease), UNCHANGED issued,
             (Writes(j, next, events) /\ issued'[j] = issued[j]) => RowStep(j)
      PROVE  \A i \in JobIds : RowStep(i)
  <2>1. Writes(j, next, events) /\ issued'[j] = issued[j] /\ \A i \in JobIds \ {j} : Rests(i)
    BY <1>1, PersistIsRowStep
  <2> QED
    BY <1>1, <2>1 DEF RowStep
<1>2. ASSUME NEW j \in JobIds, NEW k \in Keys, NEW now \in HostTimes,
             CreateOrReplay(j, k, now)
      PROVE  \A i \in JobIds : RowStep(i)
  <2>1. Writes(j, CreateJob(k, now), << CreatedEvent >>) /\ issued'[j] = issued[j] => Arrives(j)
    BY <1>2, HostTimesType DEF CreateOrReplay, Arrives
  <2>2. /\ Persist(j, CreateJob(k, now), << CreatedEvent >>, NoLease) /\ UNCHANGED issued
    BY <1>2 DEF CreateOrReplay
  <2> QED
    BY <1>1, <2>1, <2>2 DEF RowStep
<1>3. ASSUME NEW j \in JobIds, NEW k \in Keys, NEW now \in HostTimes,
             Enqueue(j, k, now) \/ \E d \in JobIds : ReplayDeadLetter(d, j, k, now)
      PROVE  \A i \in JobIds : RowStep(i)
  <2> DEFINE queued == Move(CreateJob(k, now), "QUEUED", now, now)
             es(type) == << CreatedEvent, Ev("PENDING", "QUEUED", type) >>
  <2>1. CreateJob(k, now).available_at = now
    BY DEF CreateJob
  <2>2. PICK type \in {"enqueued", "replay_enqueued"} :
            Persist(j, queued, es(type), NoLease) /\ UNCHANGED issued
    BY <1>3, <2>1 DEF Enqueue, ReplayDeadLetter
  <2>3. type \in EventType /\ job[j].state = "ABSENT"
    BY <1>3 DEF Enqueue, ReplayDeadLetter, EventType
  <2>4. Writes(j, queued, es(type)) /\ issued'[j] = issued[j] => Arrives(j)
    BY <2>3, HostTimesType DEF Arrives
  <2> HIDE DEF queued, es
  <2> QED
    BY <1>1, <2>2, <2>4 DEF RowStep
<1>4. ASSUME NEW j \in JobIds, EnqueuePending(j)
      PROVE  \A i \in JobIds : RowStep(i)
  <2> DEFINE t == job[j].updated_at
             next == Move(job[j], "QUEUED", t, job[j].available_at)
             es == << Ev(job[j].state, "QUEUED", "enqueued") >>
  <2>1. job[j].state = "PENDING" /\ Persist(j, next, es, NoLease) /\ UNCHANGED issued
    BY <1>4 DEF EnqueuePending
  <2>2. t \in Nat /\ "enqueued" \in EventType
    BY RowFacts, JobFields DEF EventType
  <2>3. CanMove(job[j], "QUEUED", t)
    BY <2>1, <2>2 DEF CanMove, CanTransition, AllowedTransitions
  <2>4. Writes(j, next, es) /\ issued'[j] = issued[j] => Moves(j)
    BY <2>2, <2>3 DEF Moves
  <2> HIDE DEF next, es
  <2> QED
    BY <1>1, <2>1, <2>4 DEF RowStep
<1>5. ASSUME NEW j \in JobIds, NEW to \in JobState, NEW now \in HostTimes,
             Transition(j, to, now)
      PROVE  \A i \in JobIds : RowStep(i)
  <2> DEFINE next == Move(job[j], to, now, job[j].available_at)
             es == << Ev(job[j].state, to, "transition") >>
  <2>1. /\ to \in {"QUEUED", "CANCELLED"} /\ CanMove(job[j], to, now)
        /\ Persist(j, next, es, NoLease) /\ UNCHANGED issued
    BY <1>5 DEF Transition
  <2>2. now \in Nat /\ "transition" \in EventType
    BY HostTimesType DEF EventType
  <2>3. Writes(j, next, es) /\ issued'[j] = issued[j] => Moves(j)
    BY <2>1, <2>2 DEF Moves
  <2> HIDE DEF next, es
  <2> QED
    BY <1>1, <2>1, <2>3 DEF RowStep
<1>6. ASSUME NEW j \in JobIds, NEW target \in 0..Horizon, Schedule(j, target)
      PROVE  \A i \in JobIds : RowStep(i)
  <2> DEFINE available == MaxOf(target, job[j].created_at)
             now == MaxOf(target, job[j].updated_at)
             next == NextVersion(job[j], "QUEUED", job[j].attempts, available, now)
             es == << Ev("QUEUED", "QUEUED", "transition") >>
  <2>1. job[j].state = "QUEUED" /\ Persist(j, next, es, lease[j]) /\ UNCHANGED issued
    BY <1>6 DEF Schedule
  <2>2. job[j].created_at \in Nat /\ job[j].updated_at \in Nat /\ target \in Nat
    BY RowFacts, JobFields, QueueAssumption
  <2>3. /\ available \in Nat /\ now \in Nat
        /\ job[j].created_at <= available /\ job[j].updated_at <= now
    BY <2>2 DEF MaxOf
  <2> HIDE DEF available, now
  <2>4. Writes(j, next, es) /\ issued'[j] = issued[j] => Postponed(j)
    BY <2>1, <2>3 DEF Postponed
  <2> HIDE DEF next, es
  <2> QED
    BY <1>1, <2>1, <2>4 DEF RowStep
<1> QED
  BY <1>2, <1>3, <1>4, <1>5, <1>6 DEF Submit

LEMMA ControlIsRowStep ==
    ASSUME QueueInv, Control
    PROVE  \A i \in JobIds : RowStep(i)
<1>1. ASSUME NEW j \in JobIds, Prune(j) PROVE \A i \in JobIds : RowStep(i)
  <2>1. job \in [JobIds -> Job] /\ lease \in [JobIds -> Lease]
    BY DEF QueueInv, OwnershipInv, TypeOK
  <2>2. /\ job'[j] = [job[j] EXCEPT !.state = "PRUNED"]
        /\ \A i \in JobIds \ {j} : job'[i] = job[i] /\ lease'[i] = lease[i]
    BY <1>1, <2>1 DEF Prune
  <2>3. Retires(j)
    BY <1>1, <2>2 DEF Prune, Retires
  <2>4. \A i \in JobIds \ {j} : Rests(i)
    BY <1>1, <2>2 DEF Prune, Rests
  <2> QED
    BY <2>3, <2>4 DEF RowStep
<1>2. ASSUME NEW j \in JobIds, NEW now \in HostTimes,
             NEW ans \in IF Running(j) THEN Answers(j) ELSE {[kind |-> "none", at |-> 0]},
             Cancel(j, now, ans) \/ RecoverPublication(j, now, ans)
      PROVE  \A i \in JobIds : RowStep(i)
  <2>1. ans \in Answer /\ now \in Nat /\ UNCHANGED issued
    BY <1>2, AnswersType, NoneType, HostTimesType DEF QueueInv, Cancel, RecoverPublication
  <2>2. CASE Running(j)
    <3>1. Reconcile(j, now, ans)
      BY <1>2, <2>2 DEF Cancel, RecoverPublication
    <3> QED
      BY <2>1, <2>2, <3>1, ReconcileIsRowStep
  <2>3. CASE ~Running(j)
    <3> DEFINE next == Move(job[j], "CANCELLED", now, job[j].available_at)
               es == << Ev(job[j].state, "CANCELLED", "cancelled") >>
    <3>1. CanMove(job[j], "CANCELLED", now) /\ Persist(j, next, es, NoLease)
      BY <1>2, <2>3 DEF Cancel, RecoverPublication
    <3>2. Writes(j, next, es) /\ issued'[j] = issued[j] /\ \A i \in JobIds \ {j} : Rests(i)
      <4> HIDE DEF next, es
      <4> QED
        BY <2>1, <3>1, PersistIsRowStep
    <3>3. "cancelled" \in EventType
      BY DEF EventType
    <3>4. Moves(j)
      BY <2>1, <3>1, <3>2, <3>3 DEF Moves
    <3> QED
      BY <3>2, <3>4 DEF RowStep
  <2> QED
    BY <2>2, <2>3
<1> QED
  BY <1>1, <1>2 DEF Control

LEMMA WorkIsRowStep ==
    ASSUME QueueInv, Work
    PROVE  \A i \in JobIds : RowStep(i)
<1>1. ASSUME NEW l \in held, Heartbeat(l) PROVE \A i \in JobIds : RowStep(i)
  <2>1. lease \in [JobIds -> Lease] /\ l.job \in JobIds
    BY DEF QueueInv, OwnershipInv, TypeOK, HeldLease
  <2>2. \A b \in Lease : \A t : [b EXCEPT !.until = t].token = b.token
    BY DEF Lease
  <2>3. \A i \in JobIds : lease'[i].token = lease[i].token
    <3> TAKE i \in JobIds
    <3>1. CASE i = l.job
      BY <1>1, <2>1, <2>2, <3>1 DEF Heartbeat
    <3>2. CASE i # l.job
      BY <1>1, <2>1, <3>2 DEF Heartbeat
    <3> QED
      BY <3>1, <3>2
  <2> QED
    BY <1>1, <2>3, QuietIsRowStep DEF Heartbeat
<1>2. ASSUME NEW l \in held, Forget(l) PROVE \A i \in JobIds : RowStep(i)
  BY <1>2, QuietIsRowStep DEF Forget
<1>3. ASSUME NEW l \in held, Running(l.job), NEW now \in HostTimes, NEW ans \in Answers(l.job),
             \/ Acknowledge(l, now, ans)
             \/ CancelLease(l, now, ans)
             \/ \E retryable \in BOOLEAN : Fail(l, retryable, now, ans)
      PROVE  \A i \in JobIds : RowStep(i)
  <2> PICK j : j = l.job
    OBVIOUS
  <2>1. j \in JobIds /\ Running(j)
    BY <1>3 DEF QueueInv, OwnershipInv, TypeOK, HeldLease
  <2>2. ans \in Answer /\ now \in Nat /\ UNCHANGED issued
    BY <1>3, <2>1, AnswersType, HostTimesType DEF QueueInv, Acknowledge, CancelLease, Fail
  <2>3. CASE Reconcile(j, now, ans)
    BY <2>1, <2>2, <2>3, ReconcileIsRowStep
  <2>4. CASE Defer(j)
    BY <2>2, <2>4, QuietIsRowStep DEF Defer
  <2>5. ASSUME NEW to \in {"SUCCEEDED", "CANCELLED"}, NEW t \in Nat, NEW finished \in Nat,
               NEW type \in {"acknowledged", "cancelled"}, NEW next,
               CanFinishAttempt(job[j], t, finished),
               next = FinishAttempt(job[j], to, t, finished, FALSE),
               Persist(j, next, << Ev("RUNNING", to, type) >>, NoLease)
        PROVE  \A i \in JobIds : RowStep(i)
    <3>1. /\ Writes(j, next, << Ev("RUNNING", to, type) >>) /\ issued'[j] = issued[j]
          /\ \A i \in JobIds \ {j} : Rests(i)
      BY <2>1, <2>2, <2>5, PersistIsRowStep
    <3>2. type \in EventType \ {"lease_expired"}
      BY DEF EventType
    <3>3. Ends(j)
      BY <2>5, <3>1, <3>2 DEF Ends
    <3> QED
      BY <3>1, <3>3 DEF RowStep
  <2>6. ASSUME NEW retryable \in BOOLEAN, CanFinishAttempt(job[j], now, now),
               Persist(j, AfterFailure(job[j], now, retryable),
                       FailureEvents(job[j], retryable, "failed"), NoLease)
        PROVE  \A i \in JobIds : RowStep(i)
    <3>1. /\ Writes(j, AfterFailure(job[j], now, retryable),
                    FailureEvents(job[j], retryable, "failed"))
          /\ issued'[j] = issued[j] /\ \A i \in JobIds \ {j} : Rests(i)
      BY <2>1, <2>2, <2>6, PersistIsRowStep
    <3>2. "failed" \in EventType
      BY DEF EventType
    <3>3. Fails(j)
      BY <2>2, <2>6, <3>1, <3>2 DEF Fails
    <3> QED
      BY <3>1, <3>3 DEF RowStep
  <2>7. CASE /\ ans.kind = "published" /\ Authoritative(job[j], ans)
             /\ Persist(j, PublicationCompletion(job[j], ans, now),
                        << Ev("RUNNING", "SUCCEEDED", "acknowledged") >>, NoLease)
    <3>1. PICK to \in {"SUCCEEDED", "CANCELLED"}, t \in Nat, finished \in Nat :
              /\ to = "SUCCEEDED" <=> ans.kind = "published"
              /\ CanFinishAttempt(job[j], t, finished)
              /\ PublicationCompletion(job[j], ans, now) =
                    FinishAttempt(job[j], to, t, finished, FALSE)
      BY <2>1, <2>2, <2>7, AuthorityEnds
    <3> QED
      BY <2>5, <2>7, <3>1
  <2>8. CASE Acknowledge(l, now, ans)
    <3>1. CASE /\ CanFinishAttempt(job[j], now, now)
               /\ Persist(j, FinishAttempt(job[j], "SUCCEEDED", now, now, FALSE),
                          << Ev("RUNNING", "SUCCEEDED", "acknowledged") >>, NoLease)
      BY <2>2, <2>5, <3>1
    <3> QED
      BY <2>4, <2>7, <2>8, <3>1 DEF Acknowledge
  <2>9. CASE CancelLease(l, now, ans)
    <3>1. CASE /\ CanFinishAttempt(job[j], now, now)
               /\ Persist(j, FinishAttempt(job[j], "CANCELLED", now, now, FALSE),
                          << Ev("RUNNING", "CANCELLED", "cancelled") >>, NoLease)
      BY <2>2, <2>5, <3>1
    <3> QED
      BY <2>3, <2>9, <3>1 DEF CancelLease
  <2>10. CASE \E retryable \in BOOLEAN : Fail(l, retryable, now, ans)
    BY <2>3, <2>6, <2>10 DEF Fail
  <2> QED
    BY <1>3, <2>8, <2>9, <2>10
<1> QED
  BY <1>1, <1>2, <1>3 DEF Work

(* What the recovery sweep makes of a row: it is put off or resumed, it    *)
(* fails, or it ends as the publication says.                              *)
Sweeps(j, now, ans) ==
    \/ /\ Recovered(j, now, ans) = job[j] /\ RecoveryEvents(j, ans) = << >>
       /\ ans.kind # "none"
    \/ \E t \in Nat :
          /\ CanFinishAttempt(job[j], t, t)
          /\ Recovered(j, now, ans) = AfterFailure(job[j], t, TRUE)
          /\ RecoveryEvents(j, ans) = FailureEvents(job[j], TRUE, "lease_expired")
          /\ ans.kind = "none"
    \/ \E to \in {"SUCCEEDED", "CANCELLED"}, t, finished \in Nat,
          type \in EventType \ {"lease_expired"} :
          /\ CanFinishAttempt(job[j], t, finished)
          /\ Recovered(j, now, ans) = FinishAttempt(job[j], to, t, finished, FALSE)
          /\ RecoveryEvents(j, ans) = << Ev("RUNNING", to, type) >>
          /\ ans.kind # "continue"

LEMMA SweptRow ==
    ASSUME QueueInv, NEW j \in JobIds, Running(j), lease[j].until <= clock,
           NEW now \in Nat, NEW ans \in Answer
    PROVE  Sweeps(j, now, ans)
<1> DEFINE t == MaxOf(now, job[j].updated_at)
<1>1. t \in Nat /\ job[j].updated_at <= t
  BY RowFacts, JobFields DEF MaxOf
<1>2. CASE ans.kind = "none"
  <2>1. /\ Recovered(j, now, ans) = AfterFailure(job[j], t, TRUE)
        /\ RecoveryEvents(j, ans) = FailureEvents(job[j], TRUE, "lease_expired")
    BY <1>2 DEF Recovered, RecoveryEvents, Authoritative
  <2> HIDE DEF t
  <2>2. CanFinishAttempt(job[j], t, t)
    BY <1>1, RunningCanFinish
  <2> QED
    BY <1>1, <1>2, <2>1, <2>2 DEF Sweeps
<1>3. CASE Authoritative(job[j], ans)
  <2>1. /\ Recovered(j, now, ans) = PublicationCompletion(job[j], ans, t)
        /\ RecoveryEvents(j, ans) = CompletionEvents(ans)
        /\ ans.kind # "continue"
    BY <1>3 DEF Recovered, RecoveryEvents, Authoritative
  <2> HIDE DEF t
  <2>2. PICK to \in {"SUCCEEDED", "CANCELLED"}, u \in Nat, finished \in Nat :
              /\ to = "SUCCEEDED" <=> ans.kind = "published"
              /\ CanFinishAttempt(job[j], u, finished)
              /\ PublicationCompletion(job[j], ans, t) =
                    FinishAttempt(job[j], to, u, finished, FALSE)
    BY <1>1, <1>3, AuthorityEnds
  <2>3. \E type \in EventType \ {"lease_expired"} :
            CompletionEvents(ans) = << Ev("RUNNING", to, type) >>
    BY <2>2 DEF CompletionEvents, EventType
  <2> QED
    BY <2>1, <2>2, <2>3 DEF Sweeps
<1>4. CASE ans.kind # "none" /\ ~Authoritative(job[j], ans)
  BY <1>4 DEF Recovered, RecoveryEvents, Sweeps
<1> QED
  BY <1>2, <1>3, <1>4

LEMMA ClaimIsRowStep ==
    ASSUME QueueInv, NEW w \in WorkerIds, NEW now \in Nat, NEW seen \in SUBSET JobIds,
           NEW ans \in [JobIds -> Answer], Claim(w, now, seen, ans)
    PROVE  \A i \in JobIds : RowStep(i)
<1> DEFINE expired == {j \in seen : Expired(j)}
           resumable == {j \in expired : ans[j].kind = "continue"}
           swept == [j \in JobIds |->
                       IF j \in expired THEN Recovered(j, now, ans[j]) ELSE job[j]]
           due == {j \in seen : swept[j].state = "QUEUED" /\ swept[j].available_at <= clock}
           chosen == Oldest(resumable, due, ClaimLimit)
           freed == {j \in expired : swept[j].state # "RUNNING"}
           resumed == chosen \cap resumable
           begun == chosen \ resumable
           sweepEvents(j) == IF j \in expired THEN RecoveryEvents(j, ans[j]) ELSE << >>
           claimEvents(j) ==
               CASE j \in begun   -> << Ev("QUEUED", "RUNNING", "claimed") >>
                 [] j \in resumed -> << Ev("RUNNING", "RUNNING", "checkpoint_resumed") >>
                 [] OTHER         -> << >>
<1>1. /\ \A j \in begun : CanStartAttempt(swept[j], now)
      /\ job' = [j \in JobIds |->
            CASE j \in begun   -> StartAttempt(swept[j], w, now)
              [] j \in resumed -> ResumeAttempt(job[j], now)
              [] OTHER         -> swept[j]]
      /\ outbox' = [j \in JobIds |-> outbox[j] \o sweepEvents(j) \o claimEvents(j)]
      /\ lease' = [j \in JobIds |->
            CASE j \in chosen -> [worker |-> w, token |-> issued[j] + 1,
                                  until |-> clock + LeaseSeconds]
              [] j \in freed \ chosen -> NoLease
              [] OTHER        -> lease[j]]
      /\ issued' = [j \in JobIds |-> IF j \in chosen THEN issued[j] + 1 ELSE issued[j]]
  BY DEF Claim
<1> SUFFICES ASSUME NEW j \in JobIds PROVE RowStep(j)
  OBVIOUS
<1>2. /\ resumable \subseteq expired /\ chosen \subseteq resumable \cup due
      /\ j \in expired => Running(j) /\ lease[j].until <= clock
  BY DEF Oldest, Expired
<1>3. /\ swept[j] = IF j \in expired THEN Recovered(j, now, ans[j]) ELSE job[j]
      /\ job'[j] = CASE j \in begun   -> StartAttempt(swept[j], w, now)
                     [] j \in resumed -> ResumeAttempt(job[j], now)
                     [] OTHER         -> swept[j]
      /\ outbox'[j] = outbox[j] \o sweepEvents(j) \o claimEvents(j)
      /\ issued'[j] = IF j \in chosen THEN issued[j] + 1 ELSE issued[j]
      /\ ans[j] \in Answer /\ (j \in resumable => ans[j].kind = "continue")
      /\ j \in begun => CanStartAttempt(swept[j], now)
  BY <1>1
<1>4. j \notin chosen /\ j \notin freed => lease'[j] = lease[j]
  BY <1>1
<1>5. j \in freed <=> (j \in expired /\ swept[j].state # "RUNNING")
  OBVIOUS
<1>6. outbox[j] \in Seq(Event) /\ outbox[j] \o << >> = outbox[j]
      /\ \A es \in Seq(Event) : outbox[j] \o es \in Seq(Event)
                                /\ (outbox[j] \o es) \o << >> = outbox[j] \o es
  BY RowFacts, ConcatEmptySeq
<1>7. /\ j \in expired => sweepEvents(j) = RecoveryEvents(j, ans[j])
      /\ j \notin expired => sweepEvents(j) = << >>
      /\ j \in begun => claimEvents(j) = << Ev("QUEUED", "RUNNING", "claimed") >>
      /\ j \in resumed => claimEvents(j) = << Ev("RUNNING", "RUNNING", "checkpoint_resumed") >>
      /\ j \notin chosen => claimEvents(j) = << >>
  OBVIOUS
<1>8. RecoveryEvents(j, ans[j]) \in Seq(Event)
  BY RecoveryEventsType
<1> HIDE DEF expired, resumable, swept, due, chosen, freed, sweepEvents, claimEvents
<1>9. CASE j \in expired
  <2>1. CASE /\ Recovered(j, now, ans[j]) = job[j] /\ RecoveryEvents(j, ans[j]) = << >>
    <3>1. swept[j] = job[j] /\ job[j].state = "RUNNING"
      BY <1>2, <1>3, <1>9, <2>1 DEF Running
    <3>2. j \notin begun /\ j \notin freed
      BY <1>3, <1>5, <3>1 DEF CanStartAttempt
    <3>3. CASE j \in chosen
      <4>1. job[j].updated_at \in Nat
        BY RowFacts, JobFields
      <4> DEFINE t == MaxOf(now, job[j].updated_at)
      <4>2. t \in Nat /\ job[j].updated_at <= t
        BY <4>1 DEF MaxOf
      <4>3. job'[j] = NextVersion(job[j], "RUNNING", job[j].attempts, job[j].available_at, t)
        BY <1>3, <3>2, <3>3 DEF ResumeAttempt
      <4>4. /\ outbox'[j] = outbox[j] \o << Ev("RUNNING", "RUNNING", "checkpoint_resumed") >>
            /\ issued'[j] = issued[j] + 1
        BY <1>3, <1>6, <1>7, <1>9, <2>1, <3>2, <3>3
      <4> HIDE DEF t
      <4> QED
        BY <1>2, <1>9, <3>1, <4>2, <4>3, <4>4 DEF RowStep, Resumes, Writes
    <3>4. CASE j \notin chosen
      <4>1. job'[j] = job[j] /\ issued'[j] = issued[j] /\ lease'[j] = lease[j]
        BY <1>3, <1>4, <3>1, <3>2, <3>4
      <4>2. outbox'[j] = outbox[j]
        BY <1>3, <1>6, <1>7, <1>9, <2>1, <3>4
      <4> QED
        BY <4>1, <4>2 DEF RowStep, Rests
    <3> QED
      BY <3>3, <3>4
  <2>2. ASSUME NEW t \in Nat, CanFinishAttempt(job[j], t, t),
               Recovered(j, now, ans[j]) = AfterFailure(job[j], t, TRUE),
               RecoveryEvents(j, ans[j]) = FailureEvents(job[j], TRUE, "lease_expired"),
               ans[j].kind = "none"
        PROVE  RowStep(j)
    <3>1. /\ swept[j] = AfterFailure(job[j], t, TRUE) /\ j \notin resumable
          /\ sweepEvents(j) = FailureEvents(job[j], TRUE, "lease_expired")
      BY <1>3, <1>7, <1>9, <2>2
    <3>2. CASE j \in chosen
      <4>1. /\ job'[j] = StartAttempt(swept[j], w, now) /\ CanStartAttempt(swept[j], now)
            /\ issued'[j] = issued[j] + 1
            /\ outbox'[j] = (outbox[j] \o sweepEvents(j)) \o << Ev("QUEUED", "RUNNING", "claimed") >>
        BY <1>3, <1>7, <3>1, <3>2
      <4>2. BeginsAgain(j)
        BY <1>2, <1>9, <2>2, <3>1, <4>1 DEF BeginsAgain
      <4> QED
        BY <4>2 DEF RowStep
    <3>3. CASE j \notin chosen
      <4>1. job'[j] = swept[j] /\ issued'[j] = issued[j]
        BY <1>3, <3>3
      <4>2. outbox'[j] = outbox[j] \o sweepEvents(j)
        BY <1>3, <1>6, <1>7, <1>8, <1>9, <3>3
      <4>3. "lease_expired" \in EventType /\ TRUE \in BOOLEAN
        BY DEF EventType
      <4>4. Fails(j)
        BY <1>2, <1>9, <2>2, <3>1, <4>1, <4>2, <4>3 DEF Fails, Writes
      <4> QED
        BY <4>4 DEF RowStep
    <3> QED
      BY <3>2, <3>3
  <2>3. ASSUME NEW to \in {"SUCCEEDED", "CANCELLED"}, NEW t \in Nat, NEW finished \in Nat,
               NEW type \in EventType \ {"lease_expired"},
               CanFinishAttempt(job[j], t, finished),
               Recovered(j, now, ans[j]) = FinishAttempt(job[j], to, t, finished, FALSE),
               RecoveryEvents(j, ans[j]) = << Ev("RUNNING", to, type) >>,
               ans[j].kind # "continue"
        PROVE  RowStep(j)
    <3>1. /\ swept[j] = FinishAttempt(job[j], to, t, finished, FALSE) /\ j \notin resumable
          /\ sweepEvents(j) = << Ev("RUNNING", to, type) >>
      BY <1>3, <1>7, <1>9, <2>3
    <3>2. swept[j].state = to
      BY <3>1 DEF FinishAttempt, NextVersion
    <3>3. j \notin chosen
      BY <1>3, <3>1, <3>2 DEF CanStartAttempt
    <3>4. job'[j] = swept[j] /\ issued'[j] = issued[j]
      BY <1>3, <3>3
    <3>5. outbox'[j] = outbox[j] \o sweepEvents(j)
      BY <1>3, <1>6, <1>7, <1>8, <1>9, <3>3
    <3>6. Ends(j)
      BY <2>3, <3>1, <3>4, <3>5 DEF Ends, Writes
    <3> QED
      BY <3>6 DEF RowStep
  <2>4. Sweeps(j, now, ans[j])
    BY <1>2, <1>3, <1>9, SweptRow
  <2> QED
    BY <2>1, <2>2, <2>3, <2>4 DEF Sweeps
<1>10. CASE j \notin expired
  <2>1. swept[j] = job[j] /\ j \notin resumable /\ j \notin freed
    BY <1>2, <1>3, <1>5, <1>10
  <2>2. outbox[j] \o sweepEvents(j) = outbox[j]
    BY <1>6, <1>7, <1>10
  <2>3. CASE j \in chosen
    <3>1. /\ job'[j] = StartAttempt(job[j], w, now) /\ CanStartAttempt(job[j], now)
          /\ issued'[j] = issued[j] + 1
          /\ outbox'[j] = outbox[j] \o << Ev("QUEUED", "RUNNING", "claimed") >>
      BY <1>3, <1>7, <2>1, <2>2, <2>3
    <3> QED
      BY <3>1 DEF RowStep, Begins, Writes
  <2>4. CASE j \notin chosen
    <3>1. /\ job'[j] = job[j] /\ issued'[j] = issued[j] /\ lease'[j] = lease[j]
      BY <1>3, <1>4, <2>1, <2>4
    <3>2. outbox'[j] = outbox[j]
      BY <1>3, <1>6, <1>7, <2>2, <2>4
    <3> QED
      BY <3>1, <3>2 DEF RowStep, Rests
  <2> QED
    BY <2>3, <2>4
<1> QED
  BY <1>9, <1>10

LEMMA NextIsRowStep ==
    ASSUME QueueInv, [Next]_vars
    PROVE  \A i \in JobIds : RowStep(i)
<1>1. CASE ClaimSome
  <2>1. ASSUME NEW w \in WorkerIds, NEW now \in HostTimes, NEW seen \in SUBSET JobIds,
               NEW ans \in ClaimAnswers(seen), Claim(w, now, seen, ans)
        PROVE  \A i \in JobIds : RowStep(i)
    <3>1. \A j \in JobIds : ans[j] \in Answer
      BY AnswersType, NoneType DEF QueueInv, ClaimAnswers, Expired
    <3>2. ans = [j \in JobIds |-> ans[j]]
      BY DEF ClaimAnswers
    <3>3. ans \in [JobIds -> Answer]
      BY <3>1, <3>2
    <3> QED
      BY <2>1, <3>3, HostTimesType, ClaimIsRowStep
  <2> QED
    BY <1>1, <2>1 DEF ClaimSome
<1>2. CASE Tick \/ UNCHANGED vars
  BY <1>2, QuietIsRowStep DEF Tick, vars
<1> QED
  BY <1>1, <1>2, SubmitIsRowStep, ControlIsRowStep, WorkIsRowStep DEF Next

-----------------------------------------------------------------------------
(* The invariant of rows: every stored row can be decoded, every dead job  *)
(* has a reason, and the outbox accounts for every version of every row.   *)
THEOREM QueueInvariant == Spec => []QueueInv
<1>1. Init => QueueInv
  <2> SUFFICES ASSUME Init PROVE QueueInv
    OBVIOUS
  <2>1. OwnershipInv
    BY OwnershipStarts
  <2>2. ASSUME NEW j \in JobIds PROVE RowInv(j)
    <3>1. /\ job[j] = NoJob /\ outbox[j] = << >> /\ NoJob.state = "ABSENT"
          /\ NoJob.version = 0
      BY DEF Init, NoJob
    <3>2. TrailSteps(<< >>)
      BY DEF TrailSteps
    <3> QED
      BY <3>1, <3>2 DEF RowInv, HasRow, NoRow, Trail
  <2> QED
    BY <2>1, <2>2 DEF QueueInv
<1>2. QueueInv /\ OwnershipInv' /\ [Next]_vars => QueueInv'
  BY NextIsRowStep, RowStepKeepsInv DEF QueueInv
<1> QED
  BY <1>1, <1>2, OwnershipInvariant, PTL DEF Spec

(* No interleaving stores a row that _decode would reject.                 *)
THEOREM RowsDecode == Spec => []EveryRowDecodes
<1>1. QueueInv => EveryRowDecodes
  BY DEF QueueInv, RowInv, RowSound, EveryRowDecodes
<1> QED
  BY <1>1, QueueInvariant, PTL

(* A job is given up only for a reason.                                    *)
THEOREM DeathIsJustified == Spec => []DeadLetterJustified
<1>1. QueueInv => DeadLetterJustified
  <2>1. \A j \in JobIds : job[j].state = "DEAD_LETTER" => HasRow(j)
    BY DEF HasRow, NoRow
  <2> QED
    BY <2>1 DEF QueueInv, RowInv, RowSound, DeadLetterJustified
<1> QED
  BY <1>1, QueueInvariant, PTL

(* The outbox holds one event per version, each where the last one ended.  *)
THEOREM OutboxIsComplete == Spec => []AuditTrailComplete
<1>1. QueueInv => AuditTrailComplete
  BY DEF QueueInv, RowInv, Trail, TrailSteps, HasRow, AuditTrailComplete
<1> QED
  BY <1>1, QueueInvariant, PTL

(* While a lease is live nobody else is given the job, and only its holder *)
(* or publication authority ends the attempt.                              *)
THEOREM LeaseIsRespected == Spec => LiveLeaseUndisturbed
<1>1. QueueInv /\ [Next]_vars =>
        [\A j \in JobIds :
           Running(j) /\ lease[j].until > clock =>
              /\ Running(j)' => /\ lease'[j].token = lease[j].token
                                /\ job'[j].version = job[j].version
              /\ ~Running(j)' =>
                    outbox'[j][job[j].version + 1].type # "lease_expired"]_vars
  BY NextIsRowStep, RowStepRespectsLease
<1> QED
  BY <1>1, QueueInvariant, PTL DEF Spec, LiveLeaseUndisturbed

(* Finished attempts never change, and the running one keeps its worker    *)
(* and its start.                                                          *)
THEOREM HistoryIsImmutable == Spec => AttemptHistoryImmutable
<1>1. ASSUME QueueInv, [Next]_vars, NEW j \in JobIds
      PROVE  /\ Len(job'[j].attempts) >= Len(job[j].attempts)
             /\ \A n \in 1..Len(job[j].attempts) :
                   LET old == job[j].attempts[n]
                       new == job'[j].attempts[n]
                   IN  IF old.state = "RUNNING"
                         THEN old.worker_id = new.worker_id /\ old.started_at = new.started_at
                         ELSE old = new
  BY <1>1, NextIsRowStep, RowStepKeepsHistory DEF KeepsHistory
<1>2. QueueInv /\ [Next]_vars =>
        [\A j \in JobIds :
           /\ Len(job'[j].attempts) >= Len(job[j].attempts)
           /\ \A n \in 1..Len(job[j].attempts) :
                 LET old == job[j].attempts[n]
                     new == job'[j].attempts[n]
                 IN  IF old.state = "RUNNING"
                       THEN old.worker_id = new.worker_id /\ old.started_at = new.started_at
                       ELSE old = new]_vars
  BY <1>1
<1> QED
  BY <1>2, QueueInvariant, PTL DEF Spec, AttemptHistoryImmutable

(* A settled job is never reopened, and a pruned one never comes back.     *)
THEOREM SettledStaysSettled == Spec => SettledIsFinal
<1>1. QueueInv /\ [Next]_vars =>
        [\A j \in JobIds :
           /\ job[j].state \in Terminal =>
                 job'[j] = job[j] \/ job'[j] = [job[j] EXCEPT !.state = "PRUNED"]
           /\ job[j].state = "PRUNED" => job'[j] = job[j]]_vars
  BY NextIsRowStep, RowStepIsFinal
<1> QED
  BY <1>1, QueueInvariant, PTL DEF Spec, SettledIsFinal

-----------------------------------------------------------------------------
(* The queue implements its lifecycle. *)
LEMMA RowStepIsLifecycle ==
    ASSUME QueueInv, NEW j \in JobIds, RowStep(j)
    PROVE  \/ Lifecycle!Accept(j) \/ Lifecycle!Grant(j) \/ Lifecycle!Transfer(j)
           \/ Lifecycle!Return(j) \/ Lifecycle!Settle(j) \/ Lifecycle!Retire(j)
           \/ Lifecycle!Rest(j)
<1> DEFINE jb == job[j]
<1>1. /\ jb \in Job /\ AttemptCount(jb) \in Nat
      /\ jb.state = "ABSENT" => jb = NoJob
      /\ jb.state \in JobState => Decodes(jb)
      /\ issued[j] \in Nat
  BY RowFacts, JobFields
<1>2. \A b : /\ b.state = "ABSENT" => PhaseOf(b) = "absent"
             /\ b.state \in {"PENDING", "QUEUED", "RETRYING"} => PhaseOf(b) = "waiting"
             /\ b.state = "RUNNING" => PhaseOf(b) = "owned"
             /\ b.state = "SUCCEEDED" => PhaseOf(b) = "succeeded"
             /\ b.state = "CANCELLED" => PhaseOf(b) = "cancelled"
             /\ b.state = "DEAD_LETTER" => PhaseOf(b) = "dead"
             /\ b.state = "PRUNED" => PhaseOf(b) = "gone"
  BY DEF PhaseOf
<1>3. CASE Rests(j)
  BY <1>3 DEF Rests, Lifecycle!Rest
<1>4. CASE Retires(j)
  <2>1. \A b \in Job : LET p == [b EXCEPT !.state = "PRUNED"] IN
                       p.attempts = b.attempts /\ p.state = "PRUNED"
    BY DEF Job
  <2>2. job'[j].state = "PRUNED" /\ AttemptCount(job'[j]) = AttemptCount(jb)
    BY <1>1, <1>4, <2>1 DEF Retires, AttemptCount
  <2>3. PhaseOf(job'[j]) = "gone" /\ PhaseOf(jb) \in {"succeeded", "cancelled", "dead"}
    BY <1>2, <1>4, <2>2 DEF Retires, Terminal
  <2> QED
    BY <1>4, <2>2, <2>3 DEF Retires, Lifecycle!Retire, Lifecycle!Settled
<1>5. CASE Arrives(j)
  <2>1. jb.state = "ABSENT" /\ AttemptCount(jb) = 0
    BY <1>1, <1>5 DEF Arrives, NoJob, AttemptCount
  <2>2. ASSUME NEW k, NEW now, NEW nb,
               nb = CreateJob(k, now) \/ nb = Move(CreateJob(k, now), "QUEUED", now, now)
        PROVE  nb.state \in {"PENDING", "QUEUED"} /\ AttemptCount(nb) = 0
    <3>1. nb.state \in {"PENDING", "QUEUED"} /\ nb.attempts = << >>
      BY <2>2 DEF CreateJob, Move, NextVersion
    <3> QED
      BY <3>1 DEF AttemptCount
  <2>3. job'[j].state \in {"PENDING", "QUEUED"} /\ AttemptCount(job'[j]) = 0
    BY <1>5, <2>2 DEF Arrives, Writes
  <2>4. PhaseOf(jb) = "absent" /\ PhaseOf(job'[j]) = "waiting"
    BY <1>2, <2>1, <2>3
  <2> QED
    BY <1>5, <2>1, <2>3, <2>4 DEF Arrives, Lifecycle!Accept
<1>6. CASE Moves(j)
  <2> PICK to \in {"QUEUED", "CANCELLED"}, now \in Nat :
        CanMove(jb, to, now) /\ job'[j] = Move(jb, to, now, jb.available_at)
    BY <1>6 DEF Moves, Writes
  <2>1. job'[j].state = to /\ AttemptCount(job'[j]) = AttemptCount(jb)
    BY DEF Move, NextVersion, AttemptCount
  <2>2. /\ PhaseOf(jb) = "waiting" /\ to = "QUEUED" => PhaseOf(job'[j]) = "waiting"
        /\ to = "CANCELLED" => PhaseOf(job'[j]) = "cancelled"
    BY <1>2, <1>6, <2>1, RowStates
  <2> QED
    BY <1>2, <1>6, <2>1, <2>2, RowStates DEF Moves, Lifecycle!Rest, Lifecycle!Settle
<1>7. CASE Postponed(j)
  <2>1. jb.state = "QUEUED" /\ job'[j].state = "QUEUED" /\ AttemptCount(job'[j]) = AttemptCount(jb)
    BY <1>7 DEF Postponed, Writes, NextVersion, AttemptCount
  <2>2. PhaseOf(jb) = "waiting" /\ PhaseOf(job'[j]) = "waiting"
    BY <1>2, <2>1
  <2> QED
    BY <1>7, <2>1, <2>2 DEF Postponed, Lifecycle!Rest
<1>8. CASE Ends(j)
  <2> PICK to \in {"SUCCEEDED", "CANCELLED"}, now \in Nat, finished \in Nat :
        job'[j] = FinishAttempt(jb, to, now, finished, FALSE)
    BY <1>8 DEF Ends, Writes
  <2>1. jb.state = "RUNNING" /\ Decodes(jb)
    BY <1>1, <1>8, RowStates DEF JobState
  <2> DEFINE nb == FinishAttempt(jb, to, now, finished, FALSE)
  <2>2. AttemptCount(jb) > 0
    BY <2>1 DEF Decodes, StateMatchesHistory, LastAttemptIn
  <2>3. nb.state = to /\ AttemptCount(nb) = AttemptCount(jb)
    <3> DEFINE n == Len(jb.attempts)
               f == FinishedAttempt(jb.attempts[n], to, finished, FALSE)
    <3>1. nb.state = to /\ nb.attempts = [jb.attempts EXCEPT ![n] = f]
      BY DEF FinishAttempt, NextVersion
    <3>2. jb.attempts \in Seq(JobAttempt)
      BY <1>1, JobFields
    <3> HIDE DEF f, nb, jb
    <3> QED
      BY <3>1, <3>2 DEF AttemptCount
  <2>4. job'[j].state = to /\ AttemptCount(job'[j]) = AttemptCount(jb)
    BY <2>3
  <2>5. PhaseOf(jb) = "owned" /\ PhaseOf(job'[j]) \in {"succeeded", "cancelled"}
    BY <1>2, <2>1, <2>4
  <2> QED
    BY <1>8, <2>4, <2>5 DEF Ends, Lifecycle!Settle, Lifecycle!Settled
<1>9. ASSUME NEW now \in Nat, NEW r \in BOOLEAN, CanFinishAttempt(jb, now, now)
      PROVE  LET fb == AfterFailure(jb, now, r) IN
             /\ fb \in Job /\ AttemptCount(fb) = AttemptCount(jb) /\ jb.state = "RUNNING"
             /\ \/ fb.state = "QUEUED" /\ AttemptCount(jb) < MaxAttempts
                \/ fb.state = "DEAD_LETTER"
  <2>1. jb.state = "RUNNING" /\ Decodes(jb)
    BY <1>1, <1>9 DEF CanFinishAttempt, JobState
  <2> QED
    BY <1>1, <1>9, <2>1, FailureSound
<1>10. CASE Fails(j)
  <2> PICK now \in Nat, r \in BOOLEAN :
        CanFinishAttempt(jb, now, now) /\ job'[j] = AfterFailure(jb, now, r)
    BY <1>10 DEF Fails, Writes
  <2>1. /\ AttemptCount(job'[j]) = AttemptCount(jb) /\ jb.state = "RUNNING"
        /\ \/ job'[j].state = "QUEUED" /\ AttemptCount(jb) < MaxAttempts
           \/ job'[j].state = "DEAD_LETTER"
    BY <1>9
  <2>2. /\ PhaseOf(jb) = "owned"
        /\ \/ PhaseOf(job'[j]) = "waiting" /\ AttemptCount(jb) < MaxAttempts
           \/ PhaseOf(job'[j]) = "dead"
    BY <1>2, <2>1
  <2> QED
    BY <1>10, <2>1, <2>2 DEF Fails, Lifecycle!Settle, Lifecycle!Return, Lifecycle!Settled
<1>11. ASSUME NEW sb \in Job, NEW w \in WorkerIds, NEW now \in Nat, CanStartAttempt(sb, now)
       PROVE  LET nb == StartAttempt(sb, w, now) IN
              /\ nb.state = "RUNNING" /\ AttemptCount(nb) = AttemptCount(sb) + 1
              /\ AttemptCount(sb) < MaxAttempts /\ sb.state = "QUEUED"
  <2> DEFINE a == [worker_id |-> w, state |-> "RUNNING", started_at |-> now,
                   finished_at |-> 0, retryable |-> FALSE]
             nb == StartAttempt(sb, w, now)
  <2>1. sb.attempts \in Seq(JobAttempt)
    BY JobFields
  <2>2. nb.state = "RUNNING" /\ nb.attempts = Append(sb.attempts, a)
    BY DEF StartAttempt, NextVersion
  <2> HIDE DEF a, nb
  <2>3. AttemptCount(nb) = AttemptCount(sb) + 1
    BY <2>1, <2>2 DEF AttemptCount
  <2> QED
    BY <1>11, <2>2, <2>3 DEF CanStartAttempt, nb
<1>12. CASE Begins(j)
  <2>1. /\ job'[j].state = "RUNNING" /\ AttemptCount(job'[j]) = AttemptCount(jb) + 1
        /\ AttemptCount(jb) < MaxAttempts /\ jb.state = "QUEUED"
    BY <1>1, <1>11, <1>12 DEF Begins, Writes
  <2>2. PhaseOf(jb) = "waiting" /\ PhaseOf(job'[j]) = "owned"
    BY <1>2, <2>1
  <2> QED
    BY <1>12, <2>1, <2>2 DEF Begins, Lifecycle!Grant
<1>13. CASE BeginsAgain(j)
  <2> PICK w \in WorkerIds, now \in Nat, then \in Nat :
          /\ CanFinishAttempt(jb, then, then)
          /\ CanStartAttempt(AfterFailure(jb, then, TRUE), now)
          /\ job'[j] = StartAttempt(AfterFailure(jb, then, TRUE), w, now)
    BY <1>13 DEF BeginsAgain
  <2> DEFINE fb == AfterFailure(jb, then, TRUE)
  <2>1. fb \in Job /\ AttemptCount(fb) = AttemptCount(jb) /\ jb.state = "RUNNING"
    <3>1. TRUE \in BOOLEAN
      OBVIOUS
    <3> QED
      BY <1>9, <3>1
  <2> HIDE DEF fb
  <2>2. /\ job'[j].state = "RUNNING" /\ AttemptCount(job'[j]) = AttemptCount(fb) + 1
        /\ AttemptCount(fb) < MaxAttempts
    <3>1. CanStartAttempt(fb, now) /\ job'[j] = StartAttempt(fb, w, now)
      BY DEF fb
    <3>2. /\ StartAttempt(fb, w, now).state = "RUNNING"
          /\ AttemptCount(StartAttempt(fb, w, now)) = AttemptCount(fb) + 1
          /\ AttemptCount(fb) < MaxAttempts
      <4> HIDE DEF jb
      <4> QED
        BY <1>11, <2>1, <3>1, Zenon
    <3> QED
      BY <3>1, <3>2
  <2>3. PhaseOf(jb) = "owned" /\ PhaseOf(job'[j]) = "owned"
    BY <1>2, <2>1, <2>2
  <2> QED
    BY <1>13, <2>1, <2>2, <2>3 DEF BeginsAgain, Lifecycle!Transfer
<1>14. CASE Resumes(j)
  <2>1. jb.state = "RUNNING" /\ job'[j].state = "RUNNING" /\ AttemptCount(job'[j]) = AttemptCount(jb)
    BY <1>14 DEF Resumes, Writes, NextVersion, AttemptCount
  <2>2. PhaseOf(jb) = "owned" /\ PhaseOf(job'[j]) = "owned"
    BY <1>2, <2>1
  <2> QED
    BY <1>14, <2>1, <2>2 DEF Resumes, Lifecycle!Transfer
<1> QED
  BY <1>3, <1>4, <1>5, <1>6, <1>7, <1>8, <1>10, <1>12, <1>13, <1>14 DEF RowStep

(* Whatever the interleaving of submitters, workers, recovery and          *)
(* retention, a client sees the lifecycle of JobLifecycle.                 *)
THEOREM QueueRefinesLifecycle == Spec => ImplementsLifecycle
<1>1. Init => Lifecycle!Init
  <2> SUFFICES ASSUME Init PROVE Lifecycle!Init
    OBVIOUS
  <2>1. PhaseOf(NoJob) = "absent" /\ AttemptCount(NoJob) = 0
    BY DEF NoJob, PhaseOf, AttemptCount
  <2> QED
    BY <2>1 DEF Init, Lifecycle!Init
<1>2. QueueInv /\ [Next]_vars => [Lifecycle!Next]_<<[j \in JobIds |-> PhaseOf(job[j])],
                                                   [j \in JobIds |-> AttemptCount(job[j])],
                                                   issued>>
  BY NextIsRowStep, RowStepIsLifecycle DEF Lifecycle!Next
<1> QED
  BY <1>1, <1>2, QueueInvariant, PTL DEF Spec, ImplementsLifecycle, Lifecycle!Spec
=============================================================================
