---------------------------- MODULE UploadService ----------------------------
(***************************************************************************)
(* IngestionApplicationService with its JobJournal (apps/api/src/services/ *)
(* ingestion_service.py, job_journal.py): uploads that are staged as       *)
(* private files, queued, ingested by one worker thread, cancelled,        *)
(* retried, reindexed, deleted, and restored after a restart.              *)
(*                                                                         *)
(* A section that holds `_lock` is one step.  A synchronous operation      *)
(* holds the operation guard and `_lock` from its staging to its result,   *)
(* which are two steps, since the process may die in between.  A helper    *)
(* that may fail half way maps a state to the set of states it may leave.  *)
(* Ids number the jobs and the staged files in the order of their creation *)
(* and byte budgets are not modelled, only the number of sources.          *)
(***************************************************************************)
EXTENDS Integers, Sequences, FiniteSets, SequencesExt

CONSTANTS
    MaxIds,        \* bound: uploads and reindexes
    MaxJobs,       \* max_jobs
    MaxRetries,    \* DEFAULT_MAX_RETRIES
    Documents,     \* contents, and the documents they become
    Calls,         \* operations the callers use, of AllCalls
    Faults,        \* what may fail, of AllFaults
    MaxRestarts    \* bound: restarts of the process

AllCalls == {"submit", "upload", "retry", "reindex", "delete", "cancel", "reconcile", "shutdown"}

(* A write of the journal (or the reading of the receipt for it), of a     *)
(* cleanup lease or of a staged file, an unlink, and a call of the         *)
(* publication store or its acknowledgement.                               *)
AllFaults == {"journal", "lease", "write", "unlink", "store"}

ASSUME UploadAssumption ==
    /\ MaxIds \in Nat /\ MaxJobs \in Nat \ {0} /\ MaxRetries \in Nat
    /\ MaxRestarts \in Nat /\ "none" \notin Documents
    /\ Calls \subseteq AllCalls /\ Faults \subseteq AllFaults

VARIABLES
    app,           \* what `_lock` protects, and the disk
    op,            \* the caller of an operation admitted by _admitted_operation
    wk,            \* the worker thread of the executor
    cn,            \* the caller of cancel between its two lock sections
    accepting,     \* _accepting_work
    stopper,       \* the caller of shutdown, and its answer
    boot,          \* __init__: restoring the cleanup leases, or done
    restarts       \* restarts so far

uploadVars == <<app, op, wk, cn, accepting, stopper, boot, restarts>>

-----------------------------------------------------------------------------
(* State *)

Paths == 1..MaxIds
Ids == 1..(2 * MaxIds)      \* the cleanup job of path p is MaxIds + p
Keep == -1                  \* an argument that is not given
Final == {"published", "failed", "cancelled"}
Recoverable == {"queued", "validating", "unknown"}
Status == {"none"} \cup Final \cup Recoverable
Names == Documents \cup {"none"}

(* A job in `_jobs`.  A job restored from the journal carries the retry    *)
(* count of its row; unknown is VERIFYING with publication_outcome_unknown. *)
NoJob == [status |-> "none", doc |-> "none", carried |-> Keep]
UploadJob == [status : Status, doc : Names, carried : -1..MaxRetries]

(* A row of the journal, and a receipt of the publication authority.  The  *)
(* mark unheard is history, read by no action: an ingest raised where this *)
(* receipt stood, so the service took its job for failed.                  *)
NoRow == [status |-> "none", doc |-> "none", source |-> 0, retries |-> 0]
JournalRow == [status : Status, doc : Names, source : Paths \cup {0}, retries : 0..MaxRetries]
NoReceipt == [outcome |-> "none", doc |-> "none", unheard |-> FALSE]
Receipt == [outcome : {"none", "pending", "committed", "failed", "cancelled"}, doc : Names,
            unheard : BOOLEAN]

(* What `_lock` protects, and the disk, which survives a restart.          *)
Blank ==
    [job |-> [i \in Ids |-> NoJob],              \* _jobs
     path |-> [i \in Ids |-> 0],                 \* _job_paths
     docs |-> << >>,                             \* _document_paths in _document_order
     event |-> [i \in Ids |-> "none"],           \* _cancel_events
     scheduled |-> {},                           \* _scheduled_jobs
     waiting |-> << >>,                          \* futures not started
     pending |-> 0,                              \* _async_pending
     retries |-> [i \in Ids |-> 0],              \* _retry_counts
     canon |-> [i \in Ids |-> NoJob],            \* the pipeline's own job registry
     file |-> {},                                \* staged files
     content |-> [p \in Paths |-> "none"],
     row |-> [i \in Ids |-> NoRow],              \* JobJournal
     lease |-> [i \in Ids |-> 0],                \* .cleanup-leases
     receipt |-> [i \in Ids |-> NoReceipt],      \* publication authority
     asked |-> [i \in Ids |-> {}],               \* the document of a checkpoint asked to cancel
     again |-> {},                               \* jobs that run again after a failed attempt
     live |-> {},                                \* published documents
     born |-> << >>,                             \* ids in the order of created_at
     last |-> 0]                                 \* the last id given out

UploadState ==
    [job : [Ids -> UploadJob], path : [Ids -> Paths \cup {0}], docs : Seq([doc : Names, path : Paths]),
     event : [Ids -> {"none", "clear", "set"}], scheduled : SUBSET Ids, waiting : Seq(Ids), pending : Int,
     retries : [Ids -> 0..MaxRetries], canon : [Ids -> UploadJob], file : SUBSET Paths,
     content : [Paths -> Names], row : [Ids -> JournalRow], lease : [Ids -> Paths \cup {0}],
     receipt : [Ids -> Receipt], asked : [Ids -> SUBSET Names], again : SUBSET Ids,
     live : SUBSET Names, born : Seq(Ids), last : 0..MaxIds]

(* A restart keeps what is durable.  The jobs of F run again although the  *)
(* checkpoint says that their attempt has failed.                          *)
Reborn(s, F) ==
    [Blank EXCEPT !.file = s.file, !.content = s.content, !.row = s.row, !.lease = s.lease,
                  !.receipt = s.receipt, !.asked = s.asked, !.again = s.again \cup F,
                  !.live = s.live, !.born = s.born, !.last = s.last]

NoOp == [kind |-> "none", pc |-> "none", id |-> 0, path |-> 0, prev |-> 0, doc |-> "none"]
NoWork == [pc |-> "idle", id |-> 0, path |-> 0, result |-> NoJob]
NoCancel == [id |-> 0, job |-> NoJob]

Operation == [kind : AllCalls \cup {"none"}, pc : {"none", "admitted", "running"}, id : Paths \cup {0},
              path : Paths \cup {0}, prev : Paths \cup {0}, doc : Names]
Worker == [pc : {"idle", "start", "attempt", "ingest", "register", "finish"}, id : Paths \cup {0},
           path : Paths \cup {0}, result : UploadJob]
Canceller == [id : Paths \cup {0}, job : UploadJob]

LockFree == op.pc # "running"
GuardFree == LockFree /\ wk.pc \notin {"ingest", "register"}

DocPaths(s) == {s.docs[k].path : k \in DOMAIN s.docs}
DocPath(s, d) == LET at == {k \in DOMAIN s.docs : s.docs[k].doc = d}
                 IN  IF at = {} THEN 0 ELSE s.docs[CHOOSE k \in at : TRUE].path

(* The elements of a sequence that are in S, in their order.               *)
Filter(seq, S) ==
    LET kept[k \in 0..Len(seq)] ==
            IF k = 0 THEN << >>
            ELSE IF seq[k] \in S THEN Append(kept[k - 1], seq[k]) ELSE kept[k - 1]
    IN  kept[Len(seq)]

WithoutDoc(s, d) == Filter(s.docs, {x \in Range(s.docs) : x.doc # d})
WithoutPath(s, p) == Filter(s.docs, {x \in Range(s.docs) : x.path # p})
Owning(s) == {i \in Ids : s.path[i] # 0}
Known(s) == {i \in Ids : s.job[i].status # "none"}
EndedJobs(s) == {i \in Range(s.born) : s.job[i].status \in Final}
Oldest(s, S) == s.born[Min({k \in DOMAIN s.born : s.born[k] \in S})]

(* Outcomes of a helper that reports success or failure.                   *)
Ok(S) == {[s |-> s, ok |-> TRUE] : s \in S}
Not(S) == {[s |-> s, ok |-> FALSE] : s \in S}
Reported == [s : UploadState, ok : BOOLEAN]
States(R) == {r.s : r \in R}
Unless(fault, S) == IF fault \in Faults THEN S ELSE {}

(* The helper F, a function, applied to every outcome for the elements of  *)
(* a sequence in turn; and a loop whose body F reports FALSE when it ends. *)
Each(S, seq, F) ==
    LET after[k \in 0..Len(seq)] ==
            IF k = 0 THEN S ELSE UNION {F[seq[k]][s] : s \in after[k - 1]}
    IN  after[Len(seq)]
While(s, F) ==
    States(Each(Ok({s}), [k \in Ids |-> k],
                [k \in Ids |-> [r \in Reported |-> IF r.ok THEN F[r.s] ELSE {r}]]))

-----------------------------------------------------------------------------
(* Files, journal and cleanup *)

(* _remove_path: a file that is already gone counts as removed.            *)
Removed(s, p) ==
    Ok({[s EXCEPT !.file = @ \ {p}]}) \cup
    IF p \in s.file THEN Unless("unlink", Not({s})) ELSE {}

(* JobJournal.upsert: a row that has ended keeps its status, and a write   *)
(* with another one is dropped, except that a committed receipt repairs a  *)
(* row to published.  The retry count is the argument, or the one the job  *)
(* carries, or the one of the row.                                         *)
NewRow(s, i, job, source, n) ==
    LET old == s.row[i]
        count == IF n # Keep THEN n ELSE IF job.carried # Keep THEN job.carried ELSE old.retries
        repair == job.status = "published" /\ s.receipt[i].outcome = "committed"
    IN  IF old.status \in Final /\ job.status # old.status /\ ~repair THEN old
        ELSE [status |-> job.status, source |-> source, retries |-> count,
              doc |-> IF old.status = job.status /\ old.status \in Final THEN old.doc ELSE job.doc]

(* upsert refuses an attempt that is not the one of an open row, unless a  *)
(* committed receipt repairs it.  A job whose attempt had failed when the  *)
(* process started runs again as the next attempt: the pipeline's job has  *)
(* its number, and the one restored from the row, which carries its retry  *)
(* count, the number of the row.                                           *)
AttemptRefused(s, i, job) ==
    /\ i \in s.again /\ job.carried = Keep
    /\ s.row[i].status \in Recoverable \cup {"published"}
    /\ ~(job.status = "published" /\ s.receipt[i].outcome = "committed")

Upserted(s, i, job, source, n) == [s EXCEPT !.row[i] = NewRow(s, i, job, source, n)]

(* _journal_upsert: a failed or cancelled job keeps no source unless asked *)
(* to; any failure of the write is swallowed.                              *)
JournalUpsert(s, i, job, p, n, retain) ==
    LET source == IF job.status \in {"failed", "cancelled"} /\ ~retain THEN 0 ELSE p
    IN  IF AttemptRefused(s, i, job) THEN Not({s})
        ELSE Ok({Upserted(s, i, job, source, n)}) \cup Unless("journal", Not({s}))

Journaled(s, i, job, p) == States(JournalUpsert(s, i, job, p, Keep, FALSE))

(* The reference of a file that could not be removed: in the journal, else *)
(* in a cleanup lease (_persist_cleanup_lease).                            *)
Retained(s, i, job, p) ==
    UNION {IF r.ok THEN {r.s}
           ELSE {[r.s EXCEPT !.lease[i] = p]} \cup Unless("lease", {r.s}) :
           r \in JournalUpsert(s, i, job, p, Keep, TRUE)}

(* A variant of CleanupJobSource for mutation: the references are dropped  *)
(* before the file is.                                                     *)
CleanupJobSourceFirst(s, i, job, p) ==
    UNION {Removed([t EXCEPT !.path[i] = 0], p) : t \in Journaled(s, i, job, 0)}

(* _cleanup_job_source; p is 0 where the source belongs to another owner.  *)
CleanupJobSource(s, i, job, p) ==
    IF p = 0 THEN Ok(Journaled(s, i, job, 0))
    ELSE UNION {IF r.ok THEN Ok(Journaled([r.s EXCEPT !.path[i] = 0], i, job, 0))
                ELSE Not(Retained([r.s EXCEPT !.path[i] = p], i, job, p)) :
                r \in Removed(s, p)}

(* _quarantine_unowned_source: a synthetic failed job owns the file.       *)
Quarantined(s, p) ==
    LET i == MaxIds + p
        job == [NoJob EXCEPT !.status = "failed"]
    IN  Retained([s EXCEPT !.job[i] = job, !.path[i] = p,
                           !.born = Append(Filter(@, Ids \ {i}), i)], i, job, p)

RemoveOrQuarantine(s, p) ==
    UNION {IF r.ok THEN {r.s} ELSE Quarantined(r.s, p) : r \in Removed(s, p)}

(* The jobs that owned a removed file lose their path and their row's; any *)
(* of the writes may fail.                                                 *)
Disowned(s, p) ==
    LET owners == {i \in Ids : s.path[i] = p}
        known == {i \in owners \cap Known(s) : ~AttemptRefused(s, i, s.job[i])}
    IN  {[s EXCEPT !.path = [i \in Ids |-> IF i \in owners THEN 0 ELSE @[i]],
                   !.row = [i \in Ids |-> IF i \in W THEN NewRow(s, i, s.job[i], 0, Keep) ELSE @[i]]] :
         W \in IF "journal" \in Faults THEN SUBSET known ELSE {known}}

-----------------------------------------------------------------------------
(* Capacity *)

(* _evict_one_source: the oldest retained document, else the oldest        *)
(* terminal job that still has a source.                                   *)
EvictOneSource(s) ==
    LET ended == {i \in EndedJobs(s) : s.path[i] # 0}
        p == IF s.docs # << >> THEN Head(s.docs).path ELSE s.path[Oldest(s, ended)]
    IN  IF s.docs = << >> /\ ended = {} THEN Not({s})
        ELSE UNION {IF ~r.ok THEN {r}
                    ELSE Ok(Disowned([r.s EXCEPT !.docs = WithoutPath(s, p)], p)) :
                    r \in Removed(s, p)}

(* _make_staging_capacity *)
MakeStagingCapacity(s) ==
    While(s, [t \in UploadState |->
                 IF Cardinality(Owning(t)) < MaxJobs THEN Not({t}) ELSE EvictOneSource(t)])

(* _evict_if_needed: the oldest terminal jobs leave `_jobs`.               *)
EvictJob(s) ==
    LET i == Oldest(s, EndedJobs(s))
        p == s.path[i]
        cleaned == IF p = 0 THEN Ok(Journaled(s, i, s.job[i], 0))
                   ELSE IF p \in DocPaths(s) THEN Ok({[s EXCEPT !.path[i] = 0]})
                   ELSE CleanupJobSource(s, i, s.job[i], p)
    IN  IF Cardinality(Known(s)) <= MaxJobs \/ EndedJobs(s) = {} THEN Not({s})
        ELSE {IF r.ok THEN [r EXCEPT !.s = [@ EXCEPT !.job[i] = NoJob, !.retries[i] = 0]] ELSE r : r \in cleaned}

EvictIfNeeded(s) == While(s, [t \in UploadState |-> EvictJob(t)])

(* _evict_document_sources_if_needed *)
EvictDocument(s) ==
    IF Len(s.docs) <= MaxJobs THEN Not({s})
    ELSE LET p == Head(s.docs).path
         IN  UNION {IF ~r.ok THEN {r} ELSE Ok(Disowned([r.s EXCEPT !.docs = Tail(@)], p)) :
                    r \in Removed(s, p)}

EvictDocumentSources(s) == While(s, [t \in UploadState |-> EvictDocument(t)])

(* _write_staged: the file, and whether it was staged.                     *)
WriteStaged(s, d) ==
    LET p == s.last + 1
        put(t) == [t EXCEPT !.file = @ \cup {p}, !.content[p] = d, !.last = p]
    IN  UNION {IF Cardinality(Owning(t)) >= MaxJobs THEN Not({t})
               ELSE Ok({put(t)}) \cup Unless("write", Not(RemoveOrQuarantine(put(t), p))) :
               t \in MakeStagingCapacity(s)}

Dropped(s, q, p) == IF q \in {0, p} THEN {s} ELSE RemoveOrQuarantine(s, q)

(* _record_result: the job and its path are remembered; a published source *)
(* replaces its document's, an unknown one is kept, any other is removed.  *)
RecordResult(s, i, job, p, prev) ==
    LET remembered == EvictIfNeeded([s EXCEPT !.job[i] = job, !.path[i] = p])
        replaced == DocPath(s, job.doc)
        obsolete(t) == IF replaced = prev THEN {t} ELSE Dropped(t, replaced, p)
        retained == UNION {EvictDocumentSources(
                              [t EXCEPT !.docs = Append(WithoutDoc(t, job.doc),
                                                        [doc |-> job.doc, path |-> p])]) :
                           t \in remembered}
    IN  CASE job.status = "published" ->
               UNION {UNION {UNION {Dropped(v, prev, p) : v \in obsolete(u)} :
                             u \in Journaled(t, i, job, p)} : t \in retained}
          [] job.status = "unknown" -> UNION {Journaled(t, i, job, p) : t \in remembered}
          [] OTHER -> UNION {States(CleanupJobSource(t, i, job, IF p = prev THEN 0 ELSE p)) :
                             t \in remembered}

-----------------------------------------------------------------------------
(* The pipeline, as the service uses it *)

(* The job of a receipt.                                                   *)
ReceiptJob(r) ==
    [status |-> CASE r.outcome = "committed" -> "published"
                  [] r.outcome = "pending" -> "unknown"
                  [] OTHER -> r.outcome,
     doc |-> r.doc, carried |-> Keep]

(* recover_publication of a checkpoint that was asked to cancel before any *)
(* receipt: refused when the snapshot names another document, else the job *)
(* is cancelled, or left unfinished when its effects cannot be removed.    *)
CancelledCheckpoint(s, i, snapshot) ==
    LET left(status) ==
            {[s EXCEPT !.canon[i] = [status |-> status, doc |-> d, carried |-> Keep]] : d \in s.asked[i]}
    IN  IF snapshot # NoJob /\ snapshot.doc \notin s.asked[i] THEN Not({s})
        ELSE Ok(left("cancelled")) \cup Unless("store", Ok(left("validating")))

(* The receipt of job i is read, or settled, with outcome o.               *)
Resolved(s, i, o) ==
    LET r == s.receipt[i]
    IN  [s EXCEPT !.receipt[i].outcome = o,
                  !.live = IF o = "committed" /\ o # r.outcome THEN @ \cup {r.doc} ELSE @,
                  !.canon[i] = ReceiptJob([r EXCEPT !.outcome = o])]

(* recover_publication, with the caller's snapshot of the job or NoJob     *)
(* without one.  It answers nothing without a receipt, raises when the     *)
(* snapshot names another document than the receipt, and may settle a      *)
(* pending one; a call of the store may fail before that, or after it.     *)
Recovered(s, i, snapshot) ==
    LET r == s.receipt[i]
        ends == IF r.outcome = "pending" THEN {"pending", "committed", "failed", "cancelled"}
                ELSE {r.outcome}
        unread(o) == [Resolved(s, i, o) EXCEPT !.canon[i].status = "unknown"]
    IN  Unless("store", Not({s})) \cup
        IF r.outcome = "none"
        THEN IF s.asked[i] = {} THEN Ok({s}) ELSE CancelledCheckpoint(s, i, snapshot)
        ELSE IF snapshot # NoJob /\ snapshot.doc # r.doc THEN Not({s})
        ELSE Ok({Resolved(s, i, o) : o \in ends}) \cup
             Unless("store", Not({unread(o) : o \in ends \ {"pending"}}))

RecoveredJob(s, i, job) ==
    IF s.receipt[i].outcome = "none" /\ s.asked[i] = {} THEN job ELSE s.canon[i]

(* What the service makes of the pipeline's answer: its job; and when it   *)
(* raised, or left the job unfinished, the job of `_jobs` marked failed.   *)
Replied(s, i) == [s |-> s, job |-> s.canon[i], raised |-> FALSE]
Unheard(s, i) ==
    [s |-> IF s.receipt[i].outcome = "none" THEN s ELSE [s EXCEPT !.receipt[i].unheard = TRUE],
     job |-> [s.job[i] EXCEPT !.status = "failed"], raised |-> TRUE]
Taken(R, i) ==
    {IF r.ok /\ r.s.canon[i].status # "validating" THEN Replied(r.s, i) ELSE Unheard(r.s, i) : r \in R}

(* The end of an attempt that publishes document d: the intent, the commit *)
(* and the reading of its receipt.  When the commit fails or its           *)
(* acknowledgement is lost recover_attempt reads the receipt, and settles  *)
(* a pending one; when the store fails again the job is left unknown, or   *)
(* the failure leaves ingest, after the commit too.                        *)
Attempted(s, i, d) ==
    LET named(status) == [status |-> status, doc |-> d, carried |-> Keep]
        at(o) == [s EXCEPT !.receipt[i] = [outcome |-> o, doc |-> d, unheard |-> FALSE],
                           !.live = IF o = "committed" THEN @ \cup {d} ELSE @]
        ends(o, status) == Replied([at(o) EXCEPT !.canon[i] = named(status)], i)
    IN  {ends("committed", "published")} \cup
        Unless("store", {ends(o, "unknown") : o \in {"pending", "committed"}} \cup
                        {Unheard(at("committed"), i)} \cup
                        Taken(Recovered(at("pending"), i, named("validating")), i))

(* ingest of file p for job i, which first recovers what an earlier        *)
(* attempt left.  An attempt that does not get to publish has failed, and  *)
(* its own bookkeeping may raise before or after it is marked so.          *)
Ingested(s, i, p) ==
    LET failed == [s EXCEPT !.canon[i] = [NoJob EXCEPT !.status = "failed"]]
    IN  Unless("store", {Unheard(s, i)}) \cup
        IF s.receipt[i].outcome \in {"pending", "committed", "cancelled"} \/ s.asked[i] # {}
        THEN Taken(Recovered(s, i, NoJob), i)
        ELSE {Replied(failed, i)} \cup
             Unless("store", {Unheard(failed, i)}) \cup
             IF s.event[i] = "set" \/ p \notin s.file THEN {}
             ELSE Attempted(s, i, s.content[p])

-----------------------------------------------------------------------------
(* Operations of the callers *)

UploadInit ==
    /\ app = Blank
    /\ op = NoOp /\ wk = NoWork /\ cn = NoCancel
    /\ accepting = TRUE /\ stopper = "none" /\ boot = "done" /\ restarts = 0

(* _admitted_operation: the operation is counted, then waits for the guard *)
(* and for `_lock`.                                                        *)
Admit(kind) ==
    /\ op = NoOp /\ boot = "done" /\ accepting /\ kind \in Calls \ {"cancel", "shutdown"}
    /\ kind \in {"submit", "upload", "retry", "reindex"} => app.last < MaxIds
    /\ op' = [NoOp EXCEPT !.kind = kind, !.pc = "admitted"]
    /\ UNCHANGED <<app, wk, cn, accepting, stopper, boot, restarts>>

(* Not found, in conflict, invalid, or refused by the second admission.    *)
Refuse ==
    /\ op.pc = "admitted" /\ op' = NoOp
    /\ UNCHANGED <<app, wk, cn, accepting, stopper, boot, restarts>>

Entered(kind) ==
    /\ op.kind = kind /\ op.pc = "admitted" /\ (kind # "submit" => GuardFree)
    /\ UNCHANGED <<wk, cn, accepting, stopper, boot, restarts>>

Running(kinds) ==
    /\ op.kind \in kinds /\ op.pc = "running" /\ op' = NoOp
    /\ UNCHANGED <<wk, cn, accepting, stopper, boot, restarts>>

(* submit_upload up to the submission of the future.                       *)
BeginSubmit(d) ==
    /\ Entered("submit") /\ accepting /\ app.pending < MaxJobs
    /\ \E r \in WriteStaged(app, d) :
          LET i == r.s.last
              job == [NoJob EXCEPT !.status = "queued"]
              t == [r.s EXCEPT !.job[i] = job, !.path[i] = i, !.event[i] = "clear",
                               !.pending = @ + 1, !.born = Append(@, i)]
          IN  IF r.ok
              THEN /\ op' = [op EXCEPT !.pc = "running", !.id = i, !.path = i]
                   /\ app' \in UNION {EvictIfNeeded(u) : u \in Journaled(t, i, job, i)}
              ELSE op' = NoOp /\ app' = r.s

(* _submit_async reads _accepting_work again: shutdown clears it without   *)
(* `_lock`.                                                                *)
FinishSubmit ==
    /\ Running({"submit"})
    /\ LET i == op.id
           job == [app.job[i] EXCEPT !.status = "failed"]
       IN  IF accepting
           THEN app' = [app EXCEPT !.scheduled = @ \cup {i}, !.waiting = Append(@, i)]
           ELSE \E r \in CleanupJobSource([app EXCEPT !.event[i] = "none", !.job[i] = job], i, job, op.path) :
                   app' = [r.s EXCEPT !.pending = @ - 1, !.job[i] = IF r.ok THEN NoJob ELSE @]

(* The source of a synchronous operation is staged under the guard.        *)
Staging(R, prev, doc) ==
    \E r \in R :
       IF r.ok THEN /\ op' = [op EXCEPT !.pc = "running", !.id = r.s.last, !.path = r.s.last,
                                        !.prev = prev, !.doc = doc]
                    /\ app' = [r.s EXCEPT !.born = Append(@, r.s.last)]
       ELSE op' = NoOp /\ app' = r.s

BeginUpload(d) == Entered("upload") /\ Staging(WriteStaged(app, d), 0, "none")

(* retry: the budget is consumed in the journal before the new attempt.    *)
BeginRetry(i, d) ==
    /\ Entered("retry") /\ app.job[i].status = "failed" /\ app.retries[i] < MaxRetries
    /\ \E r \in JournalUpsert(app, i, app.job[i], app.path[i], app.retries[i] + 1, FALSE) :
          IF r.ok THEN Staging(WriteStaged([r.s EXCEPT !.retries[i] = @ + 1], d), 0, "none")
          ELSE app' = r.s /\ op' = NoOp

(* reindex of document d with new content c, or with its retained source.  *)
BeginReindex(d, c) ==
    /\ Entered("reindex") /\ d \in app.live
    /\ IF c # "none" THEN Staging(WriteStaged(app, c), DocPath(app, d), d)
       ELSE LET i == app.last + 1
                p == DocPath(app, d)
            IN  /\ p \in app.file
                /\ op' = [op EXCEPT !.pc = "running", !.id = i, !.path = p, !.prev = p, !.doc = d]
                /\ app' = [app EXCEPT !.last = i, !.born = Append(@, i)]

(* _upload and _reindex after the pipeline answered.  A reindex refuses an *)
(* answer that names no document, and forgets the document it replaced.    *)
FinishSync ==
    /\ Running({"upload", "retry", "reindex"})
    /\ \E x \in Ingested(app, op.id, op.path) :
          LET again == op.kind = "reindex"
              refused == x.raised \/ (again /\ x.job.status \in {"failed", "cancelled"})
              replaced == again /\ x.job.status = "published" /\ x.job.doc # op.doc
          IN  \/ /\ refused
                 /\ app' \in IF op.path = op.prev THEN {x.s} ELSE RemoveOrQuarantine(x.s, op.path)
              \/ /\ ~x.raised
                 /\ \E t \in RecordResult(x.s, op.id, x.job, op.path, op.prev) :
                       app' = IF replaced THEN [t EXCEPT !.docs = WithoutDoc(t, op.doc), !.live = @ \ {op.doc}]
                              ELSE t

(* _delete_document: first the stores, which a failure leaves as they were *)
(* or hidden from the library, then the retained source.                   *)
BeginDelete(d) ==
    /\ Entered("delete") /\ d \in app.live
    /\ \/ /\ app' = [app EXCEPT !.live = @ \ {d}]
          /\ op' = [op EXCEPT !.pc = "running", !.doc = d]
       \/ /\ "store" \in Faults /\ op' = NoOp
          /\ app' \in {app, [app EXCEPT !.live = @ \ {d}]}

FinishDelete ==
    /\ Running({"delete"})
    /\ LET p == DocPath(app, op.doc)
           s == [app EXCEPT !.docs = WithoutDoc(app, op.doc)]
           owners == {i \in Known(s) : p # 0 /\ s.path[i] = p}
       IN  app' \in IF p = 0 THEN {s}
                    ELSE IF owners = {} THEN RemoveOrQuarantine(s, p)
                    ELSE IF p \in DocPaths(s) THEN Disowned(s, p)
                    ELSE Each({s}, SetToSeq(owners),
                              [i \in Ids |-> [t \in UploadState |-> States(CleanupJobSource(t, i, t.job[i], p))]])

(* reconcile_publication: an unknown commit is read again, from the        *)
(* pipeline's own record of the job when it has one, and its outcome       *)
(* registered.                                                             *)
ReconcilePublication(i) ==
    /\ Entered("reconcile") /\ i \in Known(app) /\ op' = NoOp
    /\ LET old == app.job[i]
           p == app.path[i]
           snapshot == IF app.canon[i] # NoJob THEN app.canon[i] ELSE old
           register(s, job) ==
               IF p = 0 THEN Journaled(s, i, job, 0)
               ELSE IF job.status = "published" /\ DocPath(s, old.doc) = p THEN {s}
               ELSE RecordResult(s, i, job, p, 0)
       IN  IF old.status # "unknown" THEN app' \in register(app, old)
           ELSE \E r \in Recovered(app, i, snapshot) :
                   LET job == RecoveredJob(r.s, i, old)
                       refused == \/ ~r.ok \/ job.status = "validating"
                                  \/ job.doc = "none" /\ job.status \notin {"failed", "cancelled"}
                   IN  app' \in IF refused THEN {r.s}
                                ELSE register([r.s EXCEPT !.job[i] = job], job)

(* cancel, first section: the cooperative signal.                          *)
SignalCancel(i) ==
    /\ "cancel" \in Calls /\ cn = NoCancel /\ boot = "done" /\ accepting /\ LockFree
    /\ i \in Known(app) /\ app.job[i].status \notin Final /\ app.event[i] # "none"
    /\ app' = [app EXCEPT !.event[i] = "set"]
    /\ cn' = [id |-> i, job |-> app.job[i]]
    /\ UNCHANGED <<op, wk, accepting, stopper, boot, restarts>>

(* The source of a job that was cancelled before its future ran.           *)
Released(s, i, job) ==
    LET p == s.path[i]
    IN  IF p # 0 /\ p \in DocPaths(s) THEN Journaled([s EXCEPT !.path[i] = 0], i, job, 0)
        ELSE States(CleanupJobSource(s, i, job, p))

(* A variant of CancelledJob for mutation: the answer of the pipeline is   *)
(* not read.                                                               *)
CancelledJobBlindly(s, i, job) == [job EXCEPT !.status = "cancelled"]

(* The job that cancel leaves: the pipeline's answer when it has ended, an *)
(* unknown publication as it is, and any other cancelled.                  *)
CancelledJob(s, i, job) ==
    IF s.canon[i].status \in Final THEN s.canon[i]
    ELSE IF job.status = "unknown" THEN job
    ELSE [job EXCEPT !.status = "cancelled"]

(* cancel, second section, under the guard.                                *)
ReconcileCancel ==
    /\ cn # NoCancel /\ GuardFree /\ cn' = NoCancel
    /\ LET i == cn.id
           job == CancelledJob(app, i, IF i \in Known(app) THEN app.job[i] ELSE cn.job)
           kept == IF i \in Known(app) \/ app.canon[i].status \in Final
                   THEN [app EXCEPT !.job[i] = job] ELSE app
           journaled == Journaled(kept, i, job, app.path[i])
       IN  app' \in IF i \in app.scheduled \/ job.status # "cancelled" THEN journaled
                    ELSE UNION {IF s.path[i] = 0 THEN {[s EXCEPT !.event[i] = "none"]}
                                ELSE Released([s EXCEPT !.event[i] = "none"], i, job) :
                                s \in journaled}
    /\ UNCHANGED <<op, wk, accepting, stopper, boot, restarts>>

-----------------------------------------------------------------------------
(* The worker thread of the executor *)

Working(from, to) ==
    /\ wk.pc = from
    /\ wk' = [wk EXCEPT !.pc = to]
    /\ UNCHANGED <<op, cn, accepting, stopper, boot, restarts>>

TakeFuture ==
    /\ wk = NoWork /\ app.waiting # << >>
    /\ wk' = [NoWork EXCEPT !.pc = "start", !.id = Head(app.waiting), !.path = Head(app.waiting)]
    /\ app' = [app EXCEPT !.waiting = Tail(@)]
    /\ UNCHANGED <<op, cn, accepting, stopper, boot, restarts>>

(* _complete_async_upload, first section: a job cancelled while it was     *)
(* queued is not ingested.                                                 *)
StartUpload ==
    /\ wk.pc = "start" /\ LockFree
    /\ LET i == wk.id
           status == IF app.event[i] = "set" THEN "cancelled" ELSE "validating"
           job == [app.job[i] EXCEPT !.status = status]
       IN  IF i \in Known(app)
           THEN /\ app' \in Journaled([app EXCEPT !.job[i] = job], i, job, wk.path)
                /\ wk' = [wk EXCEPT !.pc = "attempt", !.result = IF status = "cancelled" THEN job ELSE NoJob]
           ELSE wk' = [wk EXCEPT !.pc = "attempt"] /\ UNCHANGED app
    /\ UNCHANGED <<op, cn, accepting, stopper, boot, restarts>>

(* _complete_async_attempt: the guard, the pipeline, the registration.     *)
EnterAttempt ==
    /\ Working("attempt", IF wk.result = NoJob THEN "ingest" ELSE "register")
    /\ GuardFree /\ UNCHANGED app

(* While ingest runs a cancellation reaches its checkpoint: ingestion.cancel *)
(* writes it, called by cancel after its signal or by the attempt itself.  *)
(* The checkpoint names the document once the content has been read.       *)
FlagCancel ==
    /\ wk.pc = "ingest" /\ app.event[wk.id] = "set"
    /\ \E d \in {"none", app.content[wk.path]} : app' = [app EXCEPT !.asked[wk.id] = {d}]
    /\ UNCHANGED <<op, wk, cn, accepting, stopper, boot, restarts>>

(* A failure is marked on the job of `_jobs` itself, when there is one.    *)
IngestReturns ==
    /\ wk.pc = "ingest" /\ LockFree
    /\ \E x \in Ingested(app, wk.id, wk.path) :
          /\ app' = IF x.raised /\ wk.id \in Known(app) THEN [x.s EXCEPT !.job[wk.id] = x.job] ELSE x.s
          /\ wk' = [wk EXCEPT !.pc = "register", !.result = x.job]
    /\ UNCHANGED <<op, cn, accepting, stopper, boot, restarts>>

Register ==
    /\ Working("register", "finish") /\ LockFree
    /\ app' \in RecordResult(app, wk.id, wk.result, wk.path, 0)

FinishUpload ==
    /\ wk.pc = "finish" /\ LockFree /\ wk' = NoWork
    /\ app' = [app EXCEPT !.event[wk.id] = "none", !.scheduled = @ \ {wk.id}, !.pending = @ - 1]
    /\ UNCHANGED <<op, cn, accepting, stopper, boot, restarts>>

-----------------------------------------------------------------------------
(* shutdown *)

(* Admission is closed without `_lock`.                                    *)
StopAdmission ==
    /\ "shutdown" \in Calls /\ boot = "done" /\ stopper \in {"none", "timed out"}
    /\ accepting' = FALSE /\ stopper' = "stopping"
    /\ UNCHANGED <<app, op, wk, cn, boot, restarts>>

(* A queued future that could be cancelled.                                *)
CancelFuture(s, i) ==
    LET job == [s.job[i] EXCEPT !.status = "cancelled"]
        t == [s EXCEPT !.waiting = Tail(@), !.scheduled = @ \ {i},
                       !.event[i] = "none", !.pending = @ - 1]
    IN  IF i \in Known(s) THEN Released([t EXCEPT !.job[i] = job], i, job)
        ELSE States(Removed(t, s.path[i]))

Signalled(s, W) == [s EXCEPT !.event = [i \in Ids |-> IF i \in W /\ @[i] # "none" THEN "set" ELSE @[i]]]

(* _cancel_queued_for_shutdown: the running future is signalled and every  *)
(* queued one cancelled; when the deadline passes on the way the others    *)
(* are only signalled (_request_pending_shutdown_cancellation).            *)
CancelQueued(n) ==
    /\ stopper = "stopping" /\ LockFree /\ n <= Len(app.waiting)
    /\ stopper' = IF n = Len(app.waiting) THEN "joining" ELSE "timed out"
    /\ LET running == Signalled(app, app.scheduled \ Range(app.waiting))
           done == Each({running}, SubSeq(app.waiting, 1, n),
                       [i \in Ids |-> [s \in UploadState |-> CancelFuture(s, i)]])
       IN  app' \in done \cup {Signalled(s, s.scheduled) : s \in done}
    /\ UNCHANGED <<op, wk, cn, accepting, boot, restarts>>

(* A variant of StopReturns for mutation: it does not wait for operations. *)
StopReturnsAtOnce ==
    /\ stopper = "joining" /\ wk = NoWork
    /\ stopper' = "stopped"
    /\ UNCHANGED <<app, op, wk, cn, accepting, boot, restarts>>

(* The admitted operations and the worker have finished.                   *)
StopReturns ==
    /\ stopper = "joining" /\ wk = NoWork /\ op = NoOp /\ cn = NoCancel
    /\ stopper' = "stopped"
    /\ UNCHANGED <<app, op, wk, cn, accepting, boot, restarts>>

StopTimesOut ==
    /\ stopper \in {"stopping", "joining"} /\ stopper' = "timed out"
    /\ UNCHANGED <<app, op, wk, cn, accepting, boot, restarts>>

-----------------------------------------------------------------------------
(* Restart *)

(* _restore_journal for one row.  A row that may have published asks the   *)
(* authority; a source of an ended job is a cleanup to retry.              *)
RestoreSource(s, i, job, source) ==
    LET t == [s EXCEPT !.path[i] = source]
    IN  CASE source = 0 /\ job.status \in {"queued", "validating"} ->
               LET lost == [job EXCEPT !.status = "failed"]
               IN  Journaled([s EXCEPT !.job[i] = lost], i, lost, 0)
          [] source # 0 /\ job.status \in {"failed", "cancelled"} ->
               States(CleanupJobSource(t, i, job, source))
          [] source # 0 /\ job.status = "published" ->
               Journaled([t EXCEPT !.docs = Append(WithoutDoc(t, job.doc), [doc |-> job.doc, path |-> source])],
                         i, job, source)
          [] source # 0 /\ job.status \in Recoverable ->
               Journaled([t EXCEPT !.event[i] = "clear"], i, job, source)
          [] OTHER -> Journaled(s, i, job, source)

RestoreRow(s, i) ==
    LET r == s.row[i]
        old == [status |-> r.status, doc |-> r.doc, carried |-> r.retries]
        source == IF r.source \in s.file THEN r.source ELSE 0
        restored(t, job) ==
            RestoreSource([t EXCEPT !.job[i] = job, !.retries[i] = r.retries,
                                    !.event[i] = IF job.status = "unknown" THEN "clear" ELSE @],
                          i, job, source)
    IN  IF r.status = "none" THEN {s}
        ELSE IF r.status \in {"failed", "cancelled"} THEN restored(s, old)
        ELSE UNION {restored(q.s, IF q.ok THEN RecoveredJob(q.s, i, old)
                                  ELSE [old EXCEPT !.status = "unknown"]) :
                    q \in Recovered(s, i, old)}

(* The jobs to run again, at most max_jobs of them.                        *)
Resubmitted(s) ==
    LET all == Filter(s.born, {i \in Ids : s.job[i].status \in {"queued", "validating"} /\ s.path[i] # 0})
        chosen == SubSeq(all, 1, IF Len(all) < MaxJobs THEN Len(all) ELSE MaxJobs)
    IN  [s EXCEPT !.waiting = chosen, !.scheduled = Range(chosen), !.pending = Len(chosen)]

(* The process dies and starts again.  An attempt that failed may not have *)
(* been journaled yet, and its checkpoint may have been written or not.    *)
Restart ==
    /\ restarts < MaxRestarts /\ restarts' = restarts + 1
    /\ \E F \in SUBSET {i \in Ids : app.canon[i].status = "failed" /\ app.row[i].status \in Recoverable} :
       \E v \in Each({Reborn(app, F)}, app.born, [i \in Ids |-> [s \in UploadState |-> RestoreRow(s, i)]]) :
       \E u \in EvictIfNeeded(v) : \E t \in EvictDocumentSources(u) : app' = Resubmitted(t)
    /\ op' = NoOp /\ wk' = NoWork /\ cn' = NoCancel
    /\ accepting' = TRUE /\ stopper' = "none" /\ boot' = "leases"

(* _restore_cleanup_leases, while the worker may already run.              *)
RestoreLeases ==
    /\ boot = "leases" /\ boot' = "done"
    /\ LET leased == {i \in Ids : app.lease[i] # 0}
           present == {i \in leased : app.lease[i] \in app.file}
       IN  \E W \in IF "unlink" \in Faults THEN SUBSET present ELSE {{}} :
              app' = [app EXCEPT !.file = @ \ {app.lease[i] : i \in leased \ W},
                                 !.lease = [i \in Ids |-> IF i \in W THEN @[i] ELSE 0]]
    /\ UNCHANGED <<op, wk, cn, accepting, stopper, restarts>>

-----------------------------------------------------------------------------

Callers ==
    \/ \E kind \in AllCalls : Admit(kind)
    \/ Refuse
    \/ \E d \in Documents : BeginSubmit(d) \/ BeginUpload(d) \/ BeginDelete(d)
    \/ \E i \in Paths, d \in Documents : BeginRetry(i, d)
    \/ \E d \in Documents, c \in Names : BeginReindex(d, c)
    \/ FinishSubmit \/ FinishSync \/ FinishDelete
    \/ \E i \in Paths : ReconcilePublication(i) \/ SignalCancel(i)
    \/ ReconcileCancel

Executor ==
    \/ TakeFuture \/ StartUpload \/ EnterAttempt
    \/ FlagCancel \/ IngestReturns \/ Register \/ FinishUpload

Lifecycle ==
    \/ StopAdmission \/ StopReturns \/ StopTimesOut
    \/ \E n \in 0..MaxIds : CancelQueued(n)
    \/ Restart \/ RestoreLeases

UploadNext == Callers \/ Executor \/ Lifecycle
UploadSpec == UploadInit /\ [][UploadNext]_uploadVars

-----------------------------------------------------------------------------
(* Properties *)

(* The state has the shape the service gives it.                           *)
UploadTypeOK ==
    app \in UploadState /\ op \in Operation /\ wk \in Worker /\ cn \in Canceller

(* Who can still find the file p: a job, a document, the operation or the  *)
(* worker at work on it, a row of the journal or a cleanup lease.          *)
Referenced(p) ==
    \/ \E i \in Ids : p \in {app.path[i], app.row[i].source, app.lease[i]}
    \/ p \in DocPaths(app) \cup {op.path, wk.path}

(* As long as the process lives, no step loses the last reference to a     *)
(* staged file that is still on disk: every cleanup path keeps the         *)
(* reference until its unlink has succeeded, whatever else fails.          *)
SourceNeverForgotten ==
    [][restarts' = restarts =>
         \A p \in app'.file : Referenced(p) \/ p \notin app.file => Referenced(p)']_uploadVars

(* The journal contradicts the publication authority only where an ingest  *)
(* raised after its intent: every other row that says failed or cancelled  *)
(* has no committed receipt, and a row that says published has one.        *)
RowAgreesWithReceipt ==
    \A i \in Ids : LET row == app.row[i].status
                       receipt == app.receipt[i]
                   IN  /\ row \in {"failed", "cancelled"} => receipt.outcome # "committed" \/ receipt.unheard
                       /\ row = "published" => receipt.outcome = "committed"

(* When shutdown answers TRUE nothing moves any more: no operation, no     *)
(* cancellation, no worker, no scheduled job and no counted one; and no    *)
(* row is left that a restart would run again, if the journal was          *)
(* writable, but for jobs that this process ran as their second attempt.   *)
QuietAfterShutdown ==
    stopper = "stopped" =>
        /\ op = NoOp /\ cn = NoCancel /\ wk = NoWork /\ app.scheduled = {} /\ app.pending = 0
        /\ "journal" \notin Faults => \A i \in Ids \ app.again : app.row[i].status \notin {"queued", "validating"}
=============================================================================
