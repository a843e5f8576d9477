# A formal model of RICK Intelligence's concurrent services

RICK Intelligence is a multi-tenant knowledge assistant: a FastAPI service
(`apps/api`), a fleet of background workers (`apps/worker`), a Next.js front end
(`apps/web`) and a set of Python packages (`packages/*`) they share.  Documents
are uploaded, ingested asynchronously by workers, published as versions in
PostgreSQL and a vector index, and answered from in conversations.  This
directory holds a TLA+ model of the parts of the system where concurrency,
failure and time decide whether it is correct, the TLC configurations that check
it, and TLAPS proofs.

## 1. Inventory

| Component | Source | State it keeps | Operations | What is hard | What makes it correct |
|---|---|---|---|---|---|
| Job contract | `packages/jobs/.../contracts.py` | none: pure `Job`, `JobAttempt`, `JobLease` values | create, start/finish attempt, transition, post-init validation | attempt history, three clocks, attempt budget | whatever is written can be read again |
| Durable queue | `apps/worker/postgres_jobs.py` | rows, attempts, leases, events and outbox in PostgreSQL | enqueue, create, claim, heartbeat, acknowledge, fail, cancel, cancel_lease, transition, schedule, replay, prune, recover | many processes, lost leases, late calls, host clocks that disagree, publication recovery | one owner per job, nothing lost, nothing finished twice, complete audit trail |
| Publication store | `packages/knowledge/.../publication.py`, `fencing.py`, `postgres_store.py` | checkpoints, receipts, active version | begin, save, finish, commit, cancel | the receipt is the authority both the worker and recovery obey | a committed publication is never undone or run again; cancel and commit have one winner |
| External ingestion | `apps/worker/external_ingestion.py` | none | handler, `recover_job`, `request_publication_cancel` | runs outside any queue transaction | what recovery reports is what the store says |
| Ingestion pipeline | `packages/ingestion/.../pipeline.py` | nothing durable of its own: it drives the publication store and the vector index | ingest, recover_publication, reindex | a long sequence with one failing step, several executions of one attempt, two stores without a common transaction | a failed or cancelled attempt leaves nothing behind; a committed one is never compensated |
| Worker runtime | `apps/worker/runtime.py`, `deployment_composition.py` | execution table, claimed batch, flags, error counters | run_once, heartbeat monitor, reap, cancel, request_stop, shutdown, closing of providers | threads, two monitoring passes at once, timeouts racing answers, shutdown racing a cycle | one report per lease, bounded threads, one thread per job, every execution settles |
| Queue façade | `apps/worker/canonical_queue.py` | none | enqueue, cancel, reconcile for the API | reads a snapshot, then acts on it | stale requests fail closed |
| API ingestion service | `apps/api/src/services/ingestion_service.py`, `job_journal.py` | jobs, staged files, documents, journal, cleanup leases, an executor | submit, upload, retry, reindex, delete, cancel, reconcile, shutdown, restart | files, journal and publication change in sequence; a crash between any two | the journal agrees with the publication, no staged file is forgotten, a stopped service is quiet |
| Audited operations | `apps/api/src/services/audit_operations.py` | the operation journal and its outbox in PostgreSQL, an advisory execution guard | run_operation, replay, reconcile | the effect is outside the journal's transaction; a session may end while its callback runs | at most one effect, a recorded outcome is true |
| Audit outbox | `apps/worker/admin_audit_outbox.py` | delivery state of outbox rows | process_once, failure record, dead letter, manual retry | one bad row in a batch, a commit without acknowledgement | no event lost, none twice |
| Conversation lease | `packages/locking/.../redis.py`, `redis_config.py`, `client.py`; `packages/professor/.../orchestration.py` | the lease in Redis, the circuit breaker | acquire, renew, release around a turn | lost answers, late commands, retries, a half-open probe | turns of a conversation exclude each other; the probe is not lost |
| Identity store | `apps/api/src/services/postgres_identity.py`, `packages/identity/.../postgres.py`, `provider.py` | accounts, memberships, sessions, recovery tokens | login, validate, revoke, create, update, deactivate, reset, grant, recover | transactions that overlap with different lock orders | an administrator remains; a replaced password is dead |
| Chat and history | `apps/api/src/services/chat_service.py`, `chat_history.py`, `postgres_chat_history.py` | conversations and turns in PostgreSQL, SQLite or memory | chat, stream (live and buffered), append, replay, replace, archive | retries with one key overlap, a client leaves a stream at any await | an answer given is stored; a stream leaves an outcome |
| SQLite queue, legacy PostgreSQL queue | `apps/worker/durable_queue.py`, `runner.py`, `postgres_queue.py`, `postgres_runner.py` | single-host queues | enqueue, claim, ack, fail, recover | process crash, capacity | same promises as the durable queue |
| Provider clients | `packages/providers/.../client.py`, `anthropic.py`, `resilience.py`, `cleanup.py` | the attempts of a request, two stream decoders, circuit breaker | completion, stream, embedding, retry, close | a stream fails, is cancelled or ends anywhere; retries of what was partly given | a finished stream is one whole response; only the provider's errors open the circuit |
| Installation operations | `infrastructure/vps/deploy.py`, `db_guard.py`, `fresh_inventory.py`, `infrastructure/scripts/migrate.py` | the schema's history, the running services, reviewed plans and policies | preflight, install, upgrade, migrate, rollback | commands that time out and leave a job at work, plans used late, partial stops and starts | the schema changes only as reviewed, no service runs on a schema it does not know |
| Clinical cases | `apps/api/src/services/case_store.py` | versioned cases and reviews in SQLite | create, update, review | one transaction per operation | versions increase, reviews refer to what was reviewed |
| Rate limits, in-memory locks | `packages/locking` | a window counter, a lease table | one atomic step each | little | - |
| Retrieval, evidence, decision, professor, authorization, storage, contracts, observability | `packages/*` | request-local | request handling | data-heavy, little concurrency | unit-testable |
| API application, web, images, gates | `apps/api/src`, `apps/web`, `infrastructure/docker`, `scripts` | none of their own at run time | routing, UI, deployment, CI | out of scope | - |

### How the parts interact

*Background work.* API processes submit, poll and cancel jobs through the
façade; workers claim them.  Both sides talk to one PostgreSQL table through
`PostgresJobQueue`.  A claimed job runs in a thread of `RealWorkerRuntime`,
which sends heartbeats for it and sets its cancellation token when a heartbeat
fails, the deadline passes or the process shuts down.  The thread runs
`ExternalIngestionHandler`, which runs the ingestion pipeline.  The pipeline
keeps its progress in a *checkpoint* (one per job) and decides publication with
a *receipt* (one per job), both in the publication store, and writes points to a
vector index that shares no transaction with it.

Whenever the queue is about to end an attempt (expiry, failure, acknowledgement,
cancellation) or is polled, it asks the publication store, through `recover_job`,
what became of the attempt.  The answer, not the thread's report, decides: a
committed receipt makes the job succeed, a cancelled one cancels it, an active
checkpoint passes the lease of the *same* attempt to another worker, an
unavailable authority puts the decision off.  So two workers can execute one
attempt, and a recovery can publish what a worker prepared.  The row of the job
is locked meanwhile, but the store is asked in transactions of its own, and the
threads do not look at the row.  This loop is the hard part of the system and
the centre of this model.

*Without a queue*, the API runs the same pipeline itself: the API ingestion
service stages the upload as a private file, journals a row, and ingests in its
one executor thread.  Its journal, not a queue, survives a restart.

*Administration* goes through audited operations: a request is journaled, its
effect (for instance a change of an account in the identity store) happens in a
callback, and the outcome is journaled with an outbox row that the audit outbox
worker projects into the audit trail.

*Conversations.* A chat request looks for its turn in the history, the professor
takes the lease of the conversation while it generates, and the history stores
the turn.  The lease keeps generations apart, the history's transactions keep
the turns of one idempotency key apart.  The generation itself is a request to a
model provider, through the façade with the circuit breaker.

*Operations.* An operator installs and upgrades releases with `deploy.py`, which
stops and starts the services and runs the migration job in a container of its
own.

## 2. Modules

| Module | Models | State | Actions |
|---|---|---|---|
| `JobContract` | `contracts.py` | constants and operators only | `StartAttempt`, `FinishAttempt`, `Move`, `RetryEligible`, `Decodes` follow the methods of `Job` |
| `JobLifecycle` | what a client of the queue may rely on | `phase`, `tries`, `grants` per job | accept, grant, transfer, return, settle, retire |
| `JobQueue` | `postgres_jobs.py` | rows, leases, outbox, the database clock, leases in the workers' memory (`held`) | one per public method; `Claim` includes expiry recovery, as the code does |
| `PublicationStore` | `publication.py`, `fencing.py`, `postgres_store.py`, `recover_publication` | `checkpoint`, `receipt`, `document`, `points`, `collection`, `guard`, `marking` | operators: one per transaction |
| `IngestionRun` | `_ingest` and its `except` block, `external_ingestion.__call__` | `run`: program counter and locals of every thread | one per access to shared state |
| `QueuePublication` | `recover_job`, `_reconcile_publication` and the calls around them | the queue as in `JobLifecycle`, `call`: the call that holds each row, and `deleting`: a deletion between its halves | submit, claim, the calls, `Read`/`Ask`/`Apply` as their stages, maintenance |
| `WorkerRuntime` | `runtime.py`, the closing of `deployment_composition.py` | executions, `active`, the two monitoring threads, the claimed batch, flags and error counters, an abstract queue | one per lock section and per queue call |
| `UploadService` | `ingestion_service.py`, `job_journal.py`, the pipeline as they call it | `app`: what `_lock` protects and the disk; the operation, the executor thread, a cancellation, shutdown, restart | one per lock section |
| `OperationLedger` | `audit_operations.py`, `admin_audit_outbox.py` | `ledger`, `guard`, `request`, `operator`, `outbox`, `audit`, `projector`, the effects that happened | one per transaction and per callback |
| `ConversationLease` | `redis.py`, `redis_config.py`, `client.py`, the lease part of `orchestration.py` | the key in Redis with its remaining time, the turns, commands given up but not yet run, the breaker | begin, execute, receive, fail, retry, reconcile, cancel, tick |
| `AccountStore` | `postgres_identity.py`, `postgres.py`, `provider.py` | accounts, sessions, recovery tokens, transactions under way with their locks and reads | begin, read, lock, commit, rollback; login in two steps |
| `ChatTurn` | `chat_service.py` over three histories | the conversation, its turns, the requests | lookup, prepare, read context, generate, append, insert, deliver, and the outcome of a failed stream |
| `ProviderStream` | `client.py`, `anthropic.py`, `resilience.py`, `cleanup.py` | the requests with their attempt and decoder, what was sent and given, the circuit | begin, connect, receive or refuse a frame, end, release, retry, abandon |
| `Deployment` | `deploy.py`, `db_guard.py`, `fresh_inventory.py`, `migrate.py` | schema, stores, running releases, plans, policies, the operation, the migration jobs | review, one per stage of an operation, one per transaction of a job, host restart |
| `MCJobQueue`, `MCQueuePublication`, `MCOperations`, `MCServices` | instances for TLC | | |
| `JobQueueProofs` | theorems about `JobQueue` | | |
| `PublicationProofs` | theorems about `QueuePublication` with `IngestionRun` and `PublicationStore` | | |
| `RuntimeProofs`, `UploadProofs`, `LeaseProofs`, `AccountProofs` | theorems about `WorkerRuntime`, `UploadService`, `ConversationLease`, `AccountStore` | | |
| `OperationProofs` | theorems about `OperationLedger` and `Deployment` | | |
| `ServiceProofs` | theorems about `ChatTurn` and `ProviderStream` | | |

`QueuePublication` composes `JobLifecycle` (by INSTANCE), `IngestionRun` and
`PublicationStore` (by EXTENDS).  It uses the queue at the level of
`JobLifecycle`, which `JobQueue` is shown to implement (`one_job`), and is shown
to implement `JobLifecycle` itself (`publish_takeover`): the answers that
`JobQueue` leaves arbitrary are produced by the store there.  Both refinements
are also proved.

`MCServices` holds five components that share no state with one another, and
`MCOperations` three; their initial state chooses the one that runs and the
others stand still, so that the states are the union of theirs and not their
product.

### Correspondence and abstractions

*Queue.* A public method is one transaction, hence one action; a method that
raises rolls back and is a stuttering step.  A worker may use a lease from
`held` late, twice or never, which covers delayed, duplicated and lost calls,
crashed workers and commits whose answer was lost.  Tokens are counted per job
(the code draws fresh random ones).  `now` is a host clock within `Skew` of
`clock`, the database clock, which lease expiry uses.  FAILED and RETRYING are
passed through inside one transaction.  One scope (tenant, workspace, collection)
is modelled, since every statement filters by it.  A continuation that does not
match the row's facts behaves like "defer".

`save` accepts any candidate for a row that is not RUNNING; only what
`schedule` makes of it is modelled (`Schedule`), the one caller.

*Publication store.* One document in one collection; every job was submitted for
its content.  `<<job, attempt>>` is the attempt token.  Provider outputs and the
point manifest are named by the thread that produced them, because two runs of
a provider need not agree; `lineage` is the thread whose version of the row
(timestamps and names) the document has, which the payload of a point repeats.
`guard` is the advisory lock of the document, with that of the collection where
both are taken: one guard for the two, since there is one of each.  `marking` is the checkpoint guard of a cancellation
request, whose two halves are separate steps.  Times are left out here.
The first unguarded reads of `recover_publication` are merged with the
decision, which reads again under the guards; the reads of `recover_job` before
it, which are *not* repeated, are a step of their own (`Read`).

*Ingestion threads.* A handler thread is the only one of its process, so that
`_operation_lock` shows as the guard `OperationLock`: a runtime that gives up a
thread and asks for its publication waits for it.  `lost` is the cancellation
token.  `Enter` takes the guard and checks owner, token and collection; the
effect is a later step, so a lease may be lost between the two.  `Except` is the
moment the `except` block looks at the lease; the compensation is a later step
that does not look again, under the guard of the document, and it may be
incomplete (`Cleanup`: points that could not be deleted, a row that could not be
hidden, or, as the last resort, a tombstone).  The deletion of a document by the
API has its two halves as two steps: points without a guard, then the row.
`Begin` reads the checkpoint and begins it in one step.  Left out because the store
states they lead to are reached otherwise, or because the queue asks the authority
anyway: the second look at the lease through `cancel_check` in the `except` block,
which may flag the checkpoint (`Raised`), and an ingest that raises after its own
commit (`Settle`), whose consequences for the API are in `UploadService`.

*Worker runtime.* A section under `_lock` or under the lock of an execution is a
step, and so is a call of the queue; everything between interleaves.  The daemon
thread and the caller of `shutdown` run the same monitoring pass over the same
executions (`Monitor(d)`).  The queue is abstract: it may end a lease at any
moment, and a call may fail with or without effect (`Rows`, `Answers`).  A call that ends
an attempt waits for the ingestion of this process (`operation`), as
`_operation_lock` makes it.  A heartbeat may be due at any pass; a deadline
passes at some moment.  An execution is named by the number of its claim.
`Live`, `Rows`, `Answers` and `LeaseEnds` allow more than `postgres_jobs.py` does.
`CancelActive` signals all executions at once where the code takes the lock of
each in turn; the reap of a cancelled thread is part of a later pass; closers that
fail, and the join of the audit thread, are inside `CloseResources`.

*Upload service.* A section under `_lock` is a step.  A synchronous operation
holds `_lock` from its staging to its result; it is two steps because the
process may die in between.  Helpers that may fail half way (`Removed`,
`Upserted`, `CleanupJobSource`, `EvictOneSource`, ...) map a state to the *set*
of states they may leave, and are chained with `Each` and `While` in the code's
order.  The publication authority is the receipt of each job.  `Restart` forgets
the memory and rebuilds it from the journal and the leases as `__init__` does,
in its order.

`Ingested` is the pipeline as the service calls it.  It first recovers what an
earlier attempt left (`Recovered`: a pending receipt is settled, a read may fail
before that or after it), or cancels a checkpoint that was asked to
(`CancelledCheckpoint`); else the attempt fails, or publishes (`Attempted`): the
receipt is committed and read back, or the commit or its acknowledgement fails and
`recover_attempt` finds out, or that fails too and the job stays unknown.  It may
raise at each of these points, after its own commit too (`Unheard`): the service
then marks the job failed.  `unheard` in a receipt remembers that this happened; no
action reads it.  `FlagCancel` is the call of `ingestion.cancel`, which writes the
checkpoint while the worker ingests (`asked`, with the document it names).  An
ingest is one step otherwise, so a signal that comes between its commit and its
return is ordered after it.  `again` holds the jobs whose failed attempt was
recorded in the checkpoint and not in the journal when the process died: they run
as the next attempt, and the journal, which still has the former one open,
refuses their rows (`AttemptRefused`).  A failed receipt beside a newer checkpoint that was
asked to cancel is not reached.  `"journal"` stands for a failing write of the journal, for a
failing read of the receipt before it, and `"store"` for a failing call of the
publication store or a lost acknowledgement.

*Operation ledger.* `run_operation` is one action per transaction; a transaction
can be rolled back, committed, or committed without acknowledgement (`Commits`).
A workflow's effect happens in `Callback`, outside any transaction; an atomic
operation's effect is in the owner's transaction (`RunAtomic`).  The execution
guard is a database session that may end while its callback is running
(`SessionLost`).  An operator reconciles under the same guard.  The projector's
batch is one transaction; `Blamed` says which rows lose an attempt when it fails.
There is one projector, and the transaction in which it records a failure
(`RecordFailure`) does not fail itself.

*Conversation lease.* Redis runs a command when it runs it: the answer may be
lost, and a command given up stays on the `wire` and may run later.  Time is
relative (what is left of a lease, a call, a sleep, the cooldown) and advances
for all at once (`Tick`).  `Timely` is the one timing assumption: the event loop ends a
call at its timeout and starts a heartbeat when it is due.  It is what the
exclusion rests on; a loop blocked for longer than the lease breaks it.  A turn is
one that its task can be cancelled in (`_run_request`).  A streamed turn
(`_stream_with_lease_heartbeat`) looks at its heartbeat only when its consumer asks
for the next event: while it is suspended at its `yield` a lost lease goes
unnoticed, for as long as the reasoning timeout allows, and this is not modelled.

*Account store.* A transaction takes its locks, reads, and then writes and
commits in one step.  `SnapshotReads` says what PostgreSQL's READ COMMITTED does
when `FOR UPDATE OF m` has waited: the locked table is read again, the joined
one is not.  `Rollback` is a refusal, a failure, or the victim of a deadlock.
`BeginAdmin` validates the session and takes the administrators' lock in one step.

*Chat.* Every await between two accesses to the history is a boundary between
steps.  A request can be left by its client or fail at each of them; then
`stream_events` stores an outcome, `chat` does not.  The three histories differ
in what an append checks (`KeyFound`, `AppendFound`, `AppendMissing`) and in the
order in which the messages of a turn are read back (`MessageRows`).  The await
of `_refresh_context` is merged with its neighbours, which leave the same turns.
`Insert` appends: that `created_at` is the start of a transaction, so that two
turns may be read in another order than they were stored, and that the
in-memory deque drops its oldest turns, is left out; both leave every pair as it is.

*Provider streams.* A step is what happens between two awaits.  The frames are
the classes that the two decoders tell apart: with and without a choice, text, a
tool call that is new or one that goes on (the budget counts distinct indices), a
conclusion, accounting, the end marker; the events of a message, whose blocks of
text may start empty or not.  Frames that the decoders skip without a trace
(`ping`, an empty delta of text) are left out.
What a validator of a field refuses, a bad status, a timeout or a lost connection
is `AttemptError`, retryable or not, at any read.  A terminal chunk is held until
the response is validated and closed (`release`).  `sent` and `got` are ghosts:
what the server sent in the present attempt, and which frames, of which attempt,
reached the consumer; they are forgotten when a request fails.  The circuit has
no half-open state: looking at it after the cooldown closes it.

*Deployment.* The releases extend one another's migrations, so a schema is the
number of migrations applied.  A command of `deploy.py` is a step, and any of
them may refuse or time out (`RefuseOperation`); what it started in a container
goes on, and a stop or start may have done a part of its work.  The runbook
(`docs/operations/vps-github-images.md`) has operators exclude one another, so one
operation runs at a time, beside any jobs that earlier ones left; `deploy.py` itself
holds no lock.  `migrate.py --apply` without an authorisation is outside the model.  The job
observes the database itself, and once more under the migrations' advisory lock in the
transaction that applies all of the SQL; both are steps.

*Environments.* Constants such as `Failures`, `Calls`, `Maintenance`, `Events`,
`Faults`, `LedgerFaults` and `ChatFaults` say what may fail and which calls are
made.  They select environments, never definitions.

## 3. Properties and runs

Each run takes between a few seconds and four minutes with two TLC workers.  Deadlock is not
checked because the models stop at their bounds (a settled job, the horizon, a
finished request).

| Run | Instance | Shows |
|---|---|---|
| `one_job` | 1 job, 2 attempts, 2 workers, all answers, host clocks one unit early or late, horizon 2 | `TypeOK`, `LeaseIffRunning`, `OnlyNewestLeasePasses`, `EveryRowDecodes`, `DeadLetterJustified`, `AuditTrailComplete`, `LiveLeaseUndisturbed`, `AttemptHistoryImmutable`, `SettledIsFinal`; `ImplementsLifecycle` |
| `two_jobs` | 2 jobs with replay, an authority that may defer or resume, capacity 1, one place per claim | under fairness `DueIsClaimed`, `ExpiredIsRecovered` |
| `publish_retry` | 1 job, 2 attempts, 2 threads, all failures but a lost intent, all calls but expiry | `SettledIsUnpublished`, `CommittedIsKept`, `CancelledLeavesNothing`, `DecisionIsFinal`, `CommitWasNotCancelled` |
| `publish_takeover` | 1 attempt that changes hands, whether or not the former worker has noticed; failing steps, crashes, a lost acknowledgement of the commit, cancellation | `SucceededIsPublished`, `ImplementsLifecycle` |
| `publish_shared` | 2 jobs for the same content, failing steps, cancellation | `PublishedIsWhole` |
| `runtime_progress` | 2 jobs, one of them poisoned, 1 slot, failing calls and launches, lost leases, deadlines, cancel, stop | `CapacityHeld`; under fairness `RegisteredSettles` |
| `services`, runtime | 1 job claimed twice, 2 slots, deadlines, shutdown, lost leases, cancel, stop | `OneReportPerLease`, `OneThreadPerJob`, `SuccessIsDurable` |
| `services`, uploads | 2 uploads or reindexes, room for 1 job, 1 restart, failing files and store; every call but retry and shutdown, or submissions, synchronous uploads, retries, cancellation and shutdown | `RowAgreesWithReceipt`, `QuietAfterShutdown`, `SourceNeverForgotten` |
| `services`, lease | 2 turns, a lease of three intervals, 2 tries, threshold 2 | `TurnsExclude`, `ProbeIsHeld` |
| `services`, accounts | 2 accounts, 1 of them the bootstrap administrator, 2 connections, 1 login at a time, 2 passwords and role versions each | `AdminRemains`, `SessionsKnowPassword` |
| `services`, chat | 2 requests, 1 key, 2 texts, all modes, histories and faults | `AnswerIsStored`, `OutcomeIsDurable` |
| `operations`, ledger | 1 workflow, 1 atomic operation the projector refuses, 2 requests, 2 processes, batches of 2 | `AtMostOnce`, `OutcomeIsTrue`, `TrailMatchesLedger` |
| `operations`, providers | a stream of any kind beside a whole request, or 3 whole requests; 2 attempts, threshold 2, 1 tool, up to 4 frames of a completion or 7 of a message | `OneWholeResponse`, `CircuitCountsFailures` |
| `operations`, deployment | 3 releases with one migration each, the second is the floor, 2 services, 2 jobs, 3 plans, 1 policy | `DeploysAsReviewed` |
| `late_compensation`, `unpaired_history`, `ledger_overwrite`, `undone_recovery` | the smallest environments | the disagreements of section 4 |

What they say, in one line each, is in the comment above each definition; the
hazard each one is for is in `PROJECT.json`.  Most are also proved for all
instances (section 5).

Bounds.  Two workers suffice for the races between an owner and one successor or
recovery; two attempts for a retry with a budget to exhaust; a lease of one
time unit and a horizon of two let a lease expire and a recovery be put off.
`two_jobs` stops after one unit: a job comes back there by continuation of its
attempt or by replay, neither of which waits for a backoff.  `MaxVersion` bounds
only reschedules, `MaxGrants` the leases of a job in `QueuePublication`.
`MaxClaims` is two because the races of the runtime are between an execution and
the next claim of its job or its slot.  `MaxIds` is two: one upload to be evicted,
retried or superseded by another.  Two turns, two transactions, two requests are
the two sides of each race.  Four frames are a whole completion with a text or a
tool call, its conclusion, its accounting and its marker; seven are a whole message
with one block of two pieces; longer ones repeat their frames, and the theorem of
section 5 is about streams of any length.  Three plans let an abandoned
job meet the plan that overtakes it.  `ConversationLease` was also explored with three
turns, `ChatTurn` with three requests (2.5 million states) and `AccountStore`
with two logins at a time (7.6 million) or three passwords and role versions
(6.4 million): nothing new.  With `SnapshotReads` FALSE `PasswordStaysReplaced`
holds.  Symmetry is used for
workers, keys, threads, jobs, requests and processes, which nothing orders
there, and in safety runs only.

The environments are divided so that each property is checked where the code
keeps it.  `publish_takeover` leaves out the properties about settlement, cleanup
and wholeness, because with a lease that changes hands within an attempt those
do not hold (section 4).  `publish_retry` has a second attempt instead of an
expiring lease, and leaves out the lost acknowledgement of the intent.
`operations` leaves out a failure of the first journal transaction (`"admission"`),
which is `ledger_overwrite`.  `services`
checks the upload service in two environments (`UploadStep`), because reconciliation, deletion and
shutdown around a restart multiply its states; every call but retry, with a restart
and shutdown, was explored on its own (3.3 million states), and so were
submissions and their retry with reconciliation (1.4 million).  It leaves out failing writes
of the journal and of the cleanup leases, which multiply them again: with those
`RowAgreesWithReceipt` is proved (section 5), and the other two properties are not
checked.  `RowAgreesWithReceipt` excepts a row whose ingest raised after its intent
(*Unreported commit* in section 4), and `QuietAfterShutdown` the rows of the jobs
in `again`, which the journal refuses to close.

Fairness.  `JobQueue!FairSpec` assumes weak fairness of `Poll`, a claim that sees
every row.  `run_forever` keeps polling until it is stopped, and the locks that
`SKIP LOCKED` passes over belong to transactions with statement timeouts, so a
claim that sees all due rows comes again.  Nothing is assumed of handlers,
heartbeats or submitters.  The clock stops at `Horizon`, so liveness is checked
for what is due up to then.

`WorkerRuntime!FairSpec` assumes that both monitoring threads keep running, that
the launcher calls `shutdown` when `run_forever` has returned, that started
threads are scheduled, that deadlines pass, and that handlers return, since the
calls they make time out.  The last one is needed: under `ProgressSpec`, where a
handler returns only once its token is set, `RegisteredSettles` fails, because a
finalisation may wait for the ingestion of another thread whose token nobody
sets meanwhile (the monitor that would set it is the one that waits; ADR-023
accepts this).

## 4. Where code and comments disagree

Four runs expect a violation:

1. **A former worker can empty the document its successor publishes**
   (`late_compensation`, `PublishedIsWhole`).  The lease is looked at once, at the
   start of the `except` block (`pipeline.py:1725`); the compensation that follows
   is fenced by the attempt, which a continuation keeps.  The plan of phase 2
   (`docs/plans/phase-2-production-intelligence-runtime.md:275`) wants every job
   mutation bound to owner and lease.
2. **PostgreSQL gives a generation every answer before its question**
   (`unpaired_history`, `HistoryIsPaired`).  The two messages of a turn carry the
   time of their transaction, so that `get_context`
   (`postgres_chat_history.py:289`) orders them by id, and `msg-` comes before
   `user-`.  The tests that expect question and answer run on the in-memory
   history; for that and for SQLite the property holds.
3. **A failed retry overwrites the record of an effect** (`ledger_overwrite`,
   `OutcomeIsTrue`).  The exception handler of `run_operation`
   (`audit_operations.py:564`) replaces any unresolved record, also the
   dispatched one of an execution that crashed after its effect, with "failed,
   not started".
4. **A collection grant undoes a password recovery** (`undone_recovery`,
   `PasswordStaysReplaced`).  It saves the whole record it read without the lock
   on the user's row (`postgres_identity.py:956`).

The models show more that is not worth a run of its own, or that no text of the
repository speaks about.  The first was a run beside the others, with the invariant that a
committed receipt has no failed or cancelled row; the next five were runs of an earlier version
of this project; their environments are named by the constants.

- *Unreported commit* (`Faults` with `"store"`, one submission): when the receipt cannot be
  read after the commit, `recover_attempt` skips its three guarded reads, because it
  knows of the commit, and reads once more without a guard (`pipeline.py:1410`,
  `1278`, `1263`).  A second failure leaves `ingest`, `_complete_async_attempt`
  marks the job failed (`ingestion_service.py:1759-1773`), and the row says failed
  and the source is removed although the document is published.
  `packages/ingestion/README.md:57-61` promises that the job stays `verifying` and
  that no failed read proves rollback.
- *Lost intent* (`Failures` with the loss of the intent's acknowledgement):
  `publication_attempted` is set after `begin_publication` returns
  (`pipeline.py:1709`).  If the receipt was stored but the call failed, a status
  poll publishes it, and the worker's compensation, which does not read the
  receipt, removes the points and marks the document failed.
- *Cancelled takeover*: cleanup is skipped when *this execution* wrote nothing
  (`pipeline.py:838`), also when an earlier execution of the attempt did.
- *Late finish*: a former worker of the attempt can close the checkpoint
  (`publication.py:189`), which makes `recover_job` answer None for an attempt
  whose current worker is about to publish; the dead-lettered job then publishes.
- *Duplicate and cancellation*: `publish_duplicate` checks the flag before the row
  lock and `resolve_publication` does not check it again (`pipeline.py:1343`).
- *Unresolved commit*: after a crash between the commit and the registration of
  an asynchronous upload the journal row names no document, `recover_publication`
  refuses the receipt as that of another document (`pipeline.py:446`), and
  `_restore_journal` (`ingestion_service.py:903`) keeps the job in verification
  although its document is published.
- *Blocked monitor* and *early close*: see `ProgressSpec` above; a second
  `shutdown` after one that timed out reports "drained" and lets the providers
  be closed while a thread is still running (`runtime.py:1664`).
- *Upload service*: a job whose failed attempt was not journaled before a crash runs
  again as the next attempt, and the journal refuses every row of it until it is
  published (`job_journal.py:656`); a transient failure of the store at restart marks a job
  unknown; reconciling an old published job registers again a path that was
  removed; a deletion whose unlink failed is undone by a restart; a cancellation
  journals the row without its source before the unlink, so that a crash between
  the two leaves a file nobody knows; a terminal row makes an upsert report
  success without storing the retained source; a retry clears the source of the
  row; the staged file of a synchronous upload is not journaled at all;
  `_record_result` may evict the job it records.
- *Conversation lease*: an acquisition that was given up may run late and hold
  the conversation for nobody until it expires.
- *Accounts*: a grant and a recovery lock the two rows in opposite orders; the
  database ends the deadlock by rolling one of them back.
- *Chat*: the databases replace an excluded outcome in an archived conversation,
  the in-memory history refuses; the in-memory history stores a second,
  cancelled entry for a stream without a key that its client leaves after its
  turn was stored; a failed commit leaves the SQLite connection in its
  transaction.
- *Deployment*: a job that its operation has given up may still apply its plan
  after the services were started again; the plan's promise of backward
  compatibility is what makes this harmless.

## 5. What is proved

A theorem holds for every value of the constants: any number of jobs, threads,
requests, attempts and frames, any environment the constants can describe.
Each rests on an inductive invariant that TLC checked first; what the
invariants need beyond the properties is the following.

**`JobQueueProofs`.**  That only the newest lease passes is not inductive: nothing
in it excludes a row whose token a later claim would issue again, or a lease in
memory from the future.  `OwnershipInv` adds what the code maintains: a RUNNING
row has the newest token issued for its job (`RowOwned`) and an attempt that can be
finished, every other row has no lease, and the leases in memory carry distinct
issued tokens (`TokensFresh`).  `QueueTypeCorrect`, `LeaseExactlyWhileRunning` and
`FencingIsSound` follow.  `QueueInv` adds, per row, that it decodes, that a dead
job has a reason and that the outbox accounts for every version.  Its proof
goes through one relation between a row before and after a step, which every
operation satisfies; `RowsDecode`, `DeathIsJustified` and `OutboxIsComplete`, the
action properties `LeaseIsRespected`, `HistoryIsImmutable` and
`SettledStaysSettled`, and the refinement `QueueRefinesLifecycle` are all read off
that relation.  A claim, which recovers, resumes and starts rows in one step, is the
long case.

**`PublicationProofs`.**  `PublicationInv` says what each thread knows: which guard
it holds at which step (`Holders`), that the document is its own when it intends to
publish, that the receipt is pending and its own when it publishes, and committed
once it has published.  It also says what the call that holds a row has learnt and
may still rely on, although the store moves on (`Holding`).  Every action is shown to
change every receipt only in the few ways of `Evolves`; from this follow
`SuccessIsPublished`, `DecisionsAreFinal` and `CompositionRefinesLifecycle`, in every
environment: with expiry, takeover, crashes, lost acknowledgements and deletions.

`AuthorityInv` adds who may publish: the owner of a published document is a committed
attempt that wrote it, only such an attempt declares a receipt ready, and a
thread that commits a duplicate holds the guards of a published document.  It
holds in every environment (`AuthorityInvariant`), and the lemma `NextRightful` about its
steps shows that a
receipt asked to cancel is committed only as a duplicate of what was published
before (`CancelledCommitIsDuplicate`): `publish_duplicate` does not read the flag
again.  So `CancelledStaysUncommitted` has the hypothesis that there is one job.
`AttemptsInv` adds that an attempt has one thread and that a thread that has not tried
to publish has no receipt of its attempt; a thread that compensates therefore
never finds its own attempt committed, and `CommitsAreKept` follows.  An expired
lease gives an attempt a second thread and a lost acknowledgement of the
intent leaves a receipt to a thread that knows nothing of it, so that theorem assumes
neither happens.

How a job ends is the longest argument, and needs that no lease expires under a
thread: an attempt then has one thread from its claim to its report.  `EndsInv` has
four parts.  The traces of each job (`Traces`): the document never names a later
attempt than the checkpoint does, and a cancelled checkpoint or receipt has
left nothing.  The soundness of each thread (`Sound`): what it may assume of the receipt
and the checkpoint (`Heeds`), whether it has written (`Wrote`), what it holds
(`Grips`), and that the chunks and points it has written are still there unless its
attempt was asked to cancel (`Filled`).  Former attempts (`Alone`): their threads know
that the lease is lost and stand before a check, so they change nothing more
(`Harmless`).  And what a call on a job has found out stays true until the call is
applied (`Ruled`), so that a job that ends is over, or shut by a cancellation that came
before the commit (`Closed`).  Each action is shown once to serve the store
(`Serves`: checkpoints and receipts change in a few ways, and the document is swept only
in the name of an attempt that cannot publish) and to let every thread endure
(`Endures`); the invariant is preserved by whatever does both.  `EndsInvariant`,
`SettledStaysUnpublished` and `CancellationLeavesNothing` follow, with crashes, lost
acknowledgements of every kind, timeouts, releases and deletions.
`PublishedStaysWhole` joins `EndsInv` with `AttemptsInv`: the thread that publishes
has written every batch of the version it publishes, and nobody sweeps a document
whose attempt is committed.  It also assumes that nothing is deleted, since the
points go before the tombstone, and inherits the assumption on intents.  The run
`late_compensation` shows that expiry has to be excluded.

**`RuntimeProofs`.**  `RuntimeInv` says that an execution is in one place only (in the
claimed batch, registered, or looked at by a monitoring thread), that a report was
made only by an owner, and that the jobs admitted for a claim bound the active
executions and the batch together.  Hence `LeaseReportedOnce`, `CapacityIsHeld`,
`JobRunsOnce` and `SuccessIsStored`.

**`UploadProofs`.**  Most of the upload service is cleanup, eviction and journalling, in
helpers that may fail half way and call one another.  `Near(s)` is the set of states
that any of them may lead to from `s`: receipts, events, the queue and open jobs stay,
an ended job may be dropped, a row may get the status of its job, and failed
cleanup jobs may be added.  Each helper, and each loop of helpers, is shown once to
stay in `Near(s)`, and `NearKeeps` shows once that the invariant does not notice.
The invariant `UploadInv` says of every job that the job, its row and the pipeline's own
record fit the receipt, or that the receipt is marked `unheard` (`Fits`); that an open job has no receipt, unless the worker
holds its answer and is about to register it; and that a job still to be
ingested has no receipt and, once its cancellation is recorded, a set event.  The
last part is what keeps a worker from publishing a job that a caller has just
cancelled.  `OperationOK`, `WorkerOK` and `CancelOK` say what a caller, the worker and a
cancellation between its two lock sections may rely on, and `Counted` what
`_async_pending` counts.  `RowAgrees` and `SlotsCount` follow, with every fault of
`AllFaults`: only a row whose ingest raised after its intent may contradict the
receipt.  `StopOK` adds that a queue emptied by shutdown stays empty, since a
submission reads `_accepting_work` again before it queues; hence
`ShutdownIsIdle`.

**`OperationProofs`.**  For the audited operations, `ExecutorIsAlone`: before its callback a request holds the guard of
its operation and nobody else has run or will run it; hence `CallbackAtMostOnce`.
`JournalKnows` ties the recorded outcome to the effect; it needs an
environment without failures of the first journal transaction, so `JournalIsTrue`
has that hypothesis, and the run `ledger_overwrite` shows that it is needed.
`TrailIsComplete` rests on `TrailIsExact`.  For the installation, `DeploymentInv` says what
an operation may rely on at each stage; that the schema only grows makes what was
observed early still true.  `DeploymentIsReviewed` follows.

**`LeaseProofs`.**  `LeaseInv` accounts for time: the remaining life of the key is more
than what the turn at work has left before it notices the loss of its lease, also
when a renewal is under way or a command was given up and may run late.  It
needs that a command is given up before the next heartbeat is due (`OpTimeout <
Interval`); with the default lease of 120 seconds, renewed every 40, every timeout
that `redis_config.py` accepts (at most 30 seconds) satisfies that.  `ProbeInv` does
the same for the probe of the breaker.  `TurnsAreExclusive` and `OneRecoveryProbe`
follow.

**`AccountProofs`.**  `AccountInv` says what a transaction may assume of the rows it has
locked and read.  `AnAdminRemains` and `SessionsAreCurrent` follow without further
hypotheses.  `PasswordStaysReplaced` does not hold (`undone_recovery`);
`PasswordsStayReplaced` proves that there is one way only to lose a replacement: the
commit of a grant that read the account before it.  No update, reset,
deactivation, recovery or login undoes one, however they overlap.

**`ServiceProofs`.**  For chat, `ChatInv` and the relation of one step to the turns
(stored ones stay, a complete one is never changed) give `AnswersAreStored`
and `OutcomesAreDurable`.  For the providers, `ChatSeen` and `MessageSeen` say which
prefix of a response each state of a decoder stands for; `ResponsesAreWhole`
therefore holds for streams of any length.  `BreakerCountsFailures` counts over the
finite set of failed requests.

Assumptions on constants are named where the constants are declared, and TLC
evaluates them in every run: sizes and limits are positive where the code validates
that, sets of environment choices are subsets of those modelled, and markers such
as `NoHandler` or `"none"` are not among the things they stand beside.  There are no
others, except `OpTimeout < Interval` and the hypotheses of `JournalIsTrue`,
`CancelledStaysUncommitted`, `CommitsAreKept` and of the three
theorems on how a job ends, named above.

Only model-checked:

- liveness (`DueIsClaimed`, `ExpiredIsRecovered`, `RegisteredSettles`): fairness and
  ENABLED are beyond the prover;
- of the upload service, `QuietAfterShutdown` and `SourceNeverForgotten`;
- `HistoryIsPaired`, which depends on a fold over the turns: induction over data is
  beyond the prover;
- the types of `ChatTurn`.

## 6. Not modelled

In the modelled parts: the retirement of replaced documents; time facts of
publication (a receipt whose finish is unknown is deferred); loss of an advisory
lock when its connection breaks while its holder lives on (modelled in the
ledger, not in the publication store); restoring deleted documents; more than one
document or collection in the worker's ingestion; the runtime's metrics and
health; trimming of the upload journal; several workspaces of one user, expiry
of sessions, login rate limits and OIDC; citations; the payloads, single fields and token counts of
provider requests; signatures, checksums and admission policies of releases, and the
repair of historical migrations; SQL, encoding, payloads and telemetry.

Whole parts: the SQLite queue and its runner, the legacy PostgreSQL queue and
clinical cases are state machines that could be modelled and are not yet.  The rest is not the kind of code a state machine says
anything about: most of the implementation's lines are gates and scripts run by
CI (`scripts/`), parsers, retrieval, evidence and decision code that transforms
the data of one request, validation and formatting of contracts, HTTP routing
and the front end.  Nothing of it shares state between steps that interleave,
so mapping it would mean restating it.  The reasons are listed per component in
`PROJECT.json`.

## 7. Plan

Done, in this order: contract and queue; abstract lifecycle; ownership proofs;
publication store, ingestion and their composition with the queue; worker
runtime; upload service; audited operations with their outbox; conversation
lease with its breaker; accounts; chat and its histories; provider streams;
deployment and migrations; the theorems of section 5.

Models next: the SQLite queue as a second implementation of `JobLifecycle`;
clinical cases; the façade's cancel with its stale version; the points of a document under deletion; liveness
in `QueuePublication` (a settled receipt eventually settles its job).
