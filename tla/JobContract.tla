----------------------------- MODULE JobContract -----------------------------
(***************************************************************************)
(* The canonical job contract of packages/jobs (rick_jobs.contracts): the  *)
(* state machine a job obeys, its attempt history, and the functions that  *)
(* compute the next Job value.  Everything here is pure; the queue that    *)
(* persists Job values is JobQueue.                                        *)
(*                                                                         *)
(* A Job is a record.  The payload, the operation and the result document  *)
(* are left out: no function below branches on them.  The failure of a     *)
(* FAILED, RETRYING or DEAD_LETTER job is by contract the failure of its   *)
(* last attempt, and all that matters of it is whether it is retryable.    *)
(***************************************************************************)
EXTENDS Integers, Sequences

CONSTANTS
    WorkerIds,      \* worker identities that may own an attempt
    Keys,           \* idempotency keys of one scope
    MaxAttempts     \* Job.max_attempts, the attempt budget

ASSUME MaxAttemptsAssumption == MaxAttempts \in Nat \ {0}

(* JobState; ABSENT is a job id that was never inserted and PRUNED one     *)
(* whose row retention has deleted.                                        *)
JobState == {"PENDING", "QUEUED", "RUNNING", "SUCCEEDED", "FAILED",
             "CANCELLED", "RETRYING", "DEAD_LETTER"}

NoRow == {"ABSENT", "PRUNED"}

Terminal == {"SUCCEEDED", "CANCELLED", "DEAD_LETTER"}

AttemptState == {"RUNNING", "SUCCEEDED", "FAILED", "CANCELLED"}

(* finished_at is 0 while the attempt runs.                                *)
JobAttempt == [worker_id : WorkerIds, state : AttemptState,
               started_at : Nat, finished_at : Nat, retryable : BOOLEAN]

NoKey == "none"

Job == [state : JobState \cup NoRow, key : Keys \cup {NoKey}, attempts : Seq(JobAttempt),
        available_at : Nat, created_at : Nat, updated_at : Nat,
        version : Nat]

(* The transition table.                                                   *)
AllowedTransitions(state) ==
    CASE state = "PENDING"  -> {"QUEUED", "CANCELLED"}
      [] state = "QUEUED"   -> {"RUNNING", "CANCELLED"}
      [] state = "RUNNING"  -> {"SUCCEEDED", "FAILED", "CANCELLED"}
      [] state = "FAILED"   -> {"RETRYING", "DEAD_LETTER"}
      [] state = "RETRYING" -> {"QUEUED", "DEAD_LETTER", "CANCELLED"}
      [] OTHER              -> {}

CanTransition(from, to) == to \in AllowedTransitions(from)

MaxOf(a, b) == IF a >= b THEN a ELSE b

AttemptCount(job) == Len(job.attempts)

LastAttempt(job) == job.attempts[Len(job.attempts)]

(* Job.create: a PENDING job at version 1.                                 *)
CreateJob(key, now) ==
    [state |-> "PENDING", key |-> key, attempts |-> << >>,
     available_at |-> now, created_at |-> now, updated_at |-> now,
     version |-> 1]

(* Every function below returns a copy of its job, one version later.      *)
NextVersion(job, state, attempts, available, now) ==
    [state |-> state, key |-> job.key, attempts |-> attempts,
     available_at |-> available, created_at |-> job.created_at,
     updated_at |-> now, version |-> job.version + 1]

(* Mutant: the budget is exceeded by one.                                  *)
RetryEligibleOnceMore(job) ==
    /\ AttemptCount(job) <= MaxAttempts
    /\ job.state \in {"FAILED", "RETRYING"}
    /\ LastAttempt(job).retryable

RetryEligible(job) ==
    /\ AttemptCount(job) < MaxAttempts
    /\ job.state \in {"FAILED", "RETRYING"}
    /\ LastAttempt(job).retryable

(* Job.start_attempt: its early returns, then the value it builds.         *)
CanStartAttempt(job, now) ==
    /\ job.state = "QUEUED"
    /\ AttemptCount(job) < MaxAttempts
    /\ now >= job.updated_at

StartAttempt(job, worker, now) ==
    NextVersion(job, "RUNNING",
                Append(job.attempts, [worker_id |-> worker, state |-> "RUNNING",
                                      started_at |-> now, finished_at |-> 0,
                                      retryable |-> FALSE]),
                job.available_at, now)

(* Job.finish_attempt: `finished` is its finished_at argument, or `now`    *)
(* when the caller gives none.                                             *)
CanFinishAttempt(job, now, finished) ==
    /\ job.state = "RUNNING"
    /\ now >= job.updated_at
    /\ LastAttempt(job).started_at <= finished
    /\ finished <= now

FinishedAttempt(a, to, finished, retryable) ==
    [worker_id |-> a.worker_id, state |-> to, started_at |-> a.started_at,
     finished_at |-> finished, retryable |-> retryable]

FinishAttempt(job, to, now, finished, retryable) ==
    NextVersion(job, to,
                [job.attempts EXCEPT ![Len(job.attempts)] =
                     FinishedAttempt(@, to, finished, retryable)],
                job.available_at, now)

(* Job.transition from a state other than RUNNING.                         *)
CanMove(job, to, now) ==
    /\ CanTransition(job.state, to)
    /\ job.state # "RUNNING" /\ to \notin {"RUNNING", "SUCCEEDED"}
    /\ to = "RETRYING" => RetryEligible(job)
    /\ now >= job.updated_at

Move(job, to, now, available) ==
    NextVersion(job, to, job.attempts, available, now)

-----------------------------------------------------------------------------
(* Job.__post_init__, the conditions under which a Job value can be built. *)
(* A stored row that violates one of them cannot be decoded: every read,   *)
(* claim and recovery of it raises data corruption.                        *)

ChronologicalAttempts(job) ==
    \A n \in 1..(AttemptCount(job) - 1) :
        /\ job.attempts[n].state # "RUNNING"
        /\ job.attempts[n].finished_at <= job.attempts[n + 1].started_at

AttemptsInLifetime(job) ==
    \A n \in 1..AttemptCount(job) :
        LET a == job.attempts[n] IN
        /\ job.created_at <= a.started_at /\ a.started_at <= job.updated_at
        /\ a.state # "RUNNING" =>
              a.started_at <= a.finished_at /\ a.finished_at <= job.updated_at
        /\ a.state # "FAILED" => ~a.retryable

LastAttemptIn(job, states) ==
    AttemptCount(job) > 0 /\ LastAttempt(job).state \in states

StateMatchesHistory(job) ==
    CASE job.state = "PENDING"   -> AttemptCount(job) = 0
      [] job.state = "QUEUED"    -> AttemptCount(job) > 0 =>
                                       /\ LastAttempt(job).state = "FAILED"
                                       /\ LastAttempt(job).retryable
                                       /\ AttemptCount(job) < MaxAttempts
      [] job.state = "RUNNING"   -> LastAttemptIn(job, {"RUNNING"})
      [] job.state = "SUCCEEDED" -> LastAttemptIn(job, {"SUCCEEDED"})
      [] job.state = "CANCELLED" -> AttemptCount(job) > 0 =>
                                       LastAttempt(job).state
                                           \in {"FAILED", "CANCELLED"}
      [] job.state = "RETRYING"  -> /\ LastAttemptIn(job, {"FAILED"})
                                    /\ LastAttempt(job).retryable
                                    /\ AttemptCount(job) < MaxAttempts
      [] OTHER                   -> LastAttemptIn(job, {"FAILED"})

Decodes(job) ==
    /\ AttemptCount(job) <= MaxAttempts
    /\ ChronologicalAttempts(job)
    /\ job.created_at <= job.available_at
    /\ job.created_at <= job.updated_at
    /\ job.version >= 1
    /\ AttemptsInLifetime(job)
    /\ StateMatchesHistory(job)
=============================================================================
