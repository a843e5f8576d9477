--------------------------- MODULE QueuePublication ---------------------------
(***************************************************************************)
(* The job queue composed with the handler threads it starts and with the  *)
(* publication authority both consult (apps/worker/postgres_jobs.py,       *)
(* external_ingestion.py recover_job, runtime.py).  The queue is taken at  *)
(* the level of JobLifecycle, which JobQueue implements; what is added is  *)
(* the part JobQueue leaves open: which answer the publication authority   *)
(* gives, and what the queue then does.                                    *)
(*                                                                         *)
(* A call on an owned job keeps the job's row locked while it asks the     *)
(* publication authority in transactions of their own, so its stages are   *)
(* steps: other calls on the job wait, handler threads do not.             *)
(***************************************************************************)
EXTENDS IngestionRun

CONSTANTS
    MaxGrants,   \* bound on the leases granted for a job
    Calls,       \* the calls made besides acknowledgements and failures
    Maintenance, \* what operators do meanwhile: archive, delete
    Prompt       \* a live thread has noticed the loss of a lease that is
                 \* taken from it (heartbeats keep running)

ASSUME QueuePublicationAssumption ==
    /\ MaxGrants \in Nat /\ Prompt \in BOOLEAN
    /\ Calls \subseteq {"expired", "poll", "cancel", "timeout", "release"}
    /\ Maintenance \subseteq {"archive", "delete"}

VARIABLES
    phase, tries, grants,   \* the queue, as in JobLifecycle
    call,                   \* the call that holds the row of each job
    deleting                \* a deletion is between its two halves

queue == <<phase, tries, grants>>

vars == <<checkpoint, receipt, document, points, collection, guard, marking, run,
          phase, tries, grants, call, deleting>>

Lifecycle == INSTANCE JobLifecycle

(* stage: what the call does next; note: what it learnt last.              *)
NoCall == [why |-> "none", stage |-> "none", note |-> "none"]

Call == [why : Calls \cup {"ack", "fail"}, stage : {"mark", "read", "ask", "apply"},
         note : {"none", "conflict", "cancelling", "active", "settled",
                 "defer", "continue", "cancelled", "published"}]

Calling(j, why, stage, note) ==
    call' = [call EXCEPT ![j] = [why |-> why, stage |-> stage, note |-> note]]

Live(h) == run[h].pc # "idle"

(* The thread's lease is the one the queue accepts.                        *)
Leased(h) == phase[run[h].job] = "owned" /\ run[h].grant = grants[run[h].job]

Init ==
    /\ checkpoint = [j \in Jobs |-> NoCheckpoint]
    /\ receipt = [j \in Jobs |-> NoReceipt]
    /\ document = NoDocument /\ points = NoPoints /\ collection = "active"
    /\ guard = NoHandler /\ marking = {}
    /\ run = [h \in Handlers |-> Idle]
    /\ Lifecycle!Init
    /\ call = [j \in Jobs |-> NoCall] /\ deleting = FALSE

(* One job of the queue takes one step of its life.                        *)
Queue(j, P, T, G) ==
    /\ phase' = [phase EXCEPT ![j] = P]
    /\ tries' = [tries EXCEPT ![j] = T]
    /\ grants' = [grants EXCEPT ![j] = G]

Become(j, P) == Queue(j, P, tries[j], grants[j])

-----------------------------------------------------------------------------
Submit(j) ==
    /\ phase[j] = "absent" /\ Become(j, "waiting")
    /\ UNCHANGED <<store, run, call, deleting>>

Withdrawn(j) ==
    /\ phase[j] = "waiting" /\ "cancel" \in Calls /\ Become(j, "cancelled")
    /\ UNCHANGED <<store, run, call, deleting>>

(* A claim starts a thread on a new attempt.                               *)
ClaimNew(j, h) ==
    /\ phase[j] = "waiting" /\ tries[j] < MaxTries /\ grants[j] < MaxGrants /\ ~Live(h)
    /\ Queue(j, "owned", tries[j] + 1, grants[j] + 1)
    /\ run' = [run EXCEPT ![h] = Started(j, tries[j] + 1, grants[j] + 1)]
    /\ UNCHANGED <<store, call, deleting>>

(* A heartbeat fails: the thread is told, the queue is not.                *)
LoseHeartbeat(h) ==
    /\ "heartbeat" \in Failures /\ Live(h) /\ ~run[h].lost
    /\ run' = [run EXCEPT ![h].lost = TRUE]
    /\ UNCHANGED <<store, queue, call, deleting>>

-----------------------------------------------------------------------------
(* Calls on an owned job *)

(* The lease ran out.  It may do so while the thread is still at work.     *)
Expire(j) ==
    /\ "expired" \in Calls /\ phase[j] = "owned" /\ call[j] = NoCall
    /\ Prompt => \A h \in Handlers : Live(h) /\ run[h].job = j => run[h].lost
    /\ Calling(j, "expired", "read", "none")
    /\ UNCHANGED <<store, run, queue, deleting>>

Poll(j) ==
    /\ "poll" \in Calls /\ phase[j] \in {"owned", "succeeded"} /\ call[j] = NoCall
    /\ Calling(j, "poll", "read", "none")
    /\ UNCHANGED <<store, run, queue, deleting>>

(* request_publication_cancel, of an operator or of the lease's owner.     *)
Request(j, why) ==
    IF receipt[j].outcome = "committed"
      THEN Calling(j, why, "read", "none") /\ UNCHANGED store
      ELSE Calling(j, why, "mark", "none") /\ RequestCancel(j)

Cancel(j) ==
    /\ "cancel" \in Calls /\ phase[j] = "owned" /\ call[j] = NoCall
    /\ Request(j, "cancel")
    /\ UNCHANGED <<run, queue, deleting>>

(* The runtime gives up a running thread: at its deadline, or because it   *)
(* was cancelled or shuts down.  The thread is told and goes on until its  *)
(* next check.                                                             *)
GiveUp(h) ==
    LET j == run[h].job IN
    /\ Live(h) /\ ~run[h].lost /\ Leased(h) /\ call[j] = NoCall
    /\ \/ /\ "timeout" \in Calls
          /\ Calling(j, "timeout", "read", "none") /\ UNCHANGED store
       \/ "release" \in Calls /\ Request(j, "release")
    /\ run' = [run EXCEPT ![h].lost = TRUE]
    /\ UNCHANGED <<queue, deleting>>

(* The thread is done: its report passes if its lease does.                *)
Report(h) ==
    LET j == run[h].job IN
    /\ run[h].pc \in {"published", "failed"} /\ End(h)
    /\ IF run[h].lost \/ ~Leased(h) THEN UNCHANGED call
       ELSE /\ call[j] = NoCall
            /\ Calling(j, IF At(h, "published") THEN "ack" ELSE "fail", "read", "none")
    /\ UNCHANGED <<store, queue, deleting>>

Mark(j) ==
    /\ call[j].stage = "mark"
    /\ IF CanBeginCheckpoint(j, tries[j]) THEN Calling(j, call[j].why, "read", "none")
       ELSE call' = [call EXCEPT ![j] = NoCall]
    /\ MarkCancel(j, tries[j])
    /\ UNCHANGED <<run, queue, deleting>>

(* recover_job: what the receipt and the checkpoint say before it asks.    *)
Classified(j) ==
    LET c == checkpoint[j] r == receipt[j]
        current == c.attempt = tries[j] /\ c.state # "none"
    IN  IF \/ c.state = "active" /\ ~current /\ r.outcome # "committed"
           \/ /\ r.outcome \notin {"none", "committed"} /\ r.attempt # tries[j]
              /\ ~(current /\ r.outcome = "failed" /\ r.attempt < tries[j])
        THEN "conflict"
        ELSE IF current /\ c.state = "active" THEN (IF c.cancel THEN "cancelling" ELSE "active")
        ELSE "settled"

Read(j) ==
    /\ call[j].stage = "read"
    /\ Calling(j, call[j].why, "ask", Classified(j))
    /\ UNCHANGED <<store, run, queue, deleting>>

(* Mutant: the receipt is not consulted.                                   *)
AnsweredBlindly(o, class, attempt, current) == "none"

(* What the queue makes of an answer: a result or a cancellation counts    *)
(* only with the facts of the current attempt.                             *)
Answered(o, class, attempt, current) ==
    CASE o = "published" -> IF attempt = current THEN "published" ELSE "defer"
      [] o = "cancelled" -> IF attempt = current THEN "cancelled" ELSE "defer"
      [] o \in {"none", "failed"} -> CASE class = "active"     -> "continue"
                                       [] class = "cancelling" -> "defer"
                                       [] OTHER                -> "none"
      [] OTHER -> "defer"

(* ingest and recover_publication of one process exclude each other        *)
(* (_operation_lock), so a runtime that gives up a thread waits for it.    *)
OperationLock(j) ==
    call[j].why \in {"timeout", "release"} =>
        \A h \in Handlers : run[h].job = j /\ run[h].grant = grants[j] =>
            run[h].pc \in {"recover", "published", "failed"}

Ask(j) ==
    /\ call[j].stage = "ask" /\ OperationLock(j)
    /\ \/ /\ call[j].note = "conflict"
          /\ Calling(j, call[j].why, "apply", "defer") /\ UNCHANGED store
       \/ /\ call[j].note # "conflict"
          /\ \E o \in {"none", "published", "failed", "cancelled", "verifying", "unavailable"} :
                /\ RecoverPublication(j, tries[j], FALSE, o)
                /\ LET attempt == IF o = "published" \/ receipt'[j].outcome = "cancelled"
                                    THEN receipt'[j].attempt ELSE checkpoint'[j].attempt
                   IN  Calling(j, call[j].why, "apply",
                               Answered(o, call[j].note, attempt, tries[j]))
    /\ UNCHANGED <<run, queue, deleting>>

(* Mutant: the attempt budget is not checked.                              *)
FailedForever(j, retryable) == Become(j, IF retryable THEN "waiting" ELSE "dead")

(* An attempt ends without a result: another one, or the dead letter.      *)
Failed(j, retryable) ==
    Become(j, IF retryable /\ tries[j] < MaxTries THEN "waiting" ELSE "dead")

(* What the call does with "none": no publication of the attempt.          *)
Absent(j) ==
    CASE call[j].why \in {"expired", "timeout"} -> Failed(j, TRUE)
      [] call[j].why = "fail"                   -> \E retryable \in BOOLEAN : Failed(j, retryable)
      [] call[j].why = "ack"                    -> Become(j, "succeeded")
      [] call[j].why = "release"                -> Become(j, "cancelled")
      [] OTHER                                  -> UNCHANGED queue

(* The lease of an expired attempt passes to an idle thread.               *)
Continue(j) ==
    \E h \in Handlers :
        /\ ~Live(h) /\ grants[j] < MaxGrants
        /\ Queue(j, "owned", tries[j], grants[j] + 1)
        /\ run' = [run EXCEPT ![h] = Started(j, tries[j], grants[j] + 1)]

Apply(j) ==
    LET note == call[j].note IN
    /\ call[j].stage = "apply"
    /\ call' = [call EXCEPT ![j] = NoCall]
    /\ \/ note = "continue" /\ call[j].why = "expired" /\ Continue(j)
       \/ /\ \/ /\ phase[j] = "owned" /\ note = "published" /\ Become(j, "succeeded")
             \/ /\ phase[j] = "owned" /\ note = "cancelled" /\ call[j].why # "ack"
                /\ Become(j, "cancelled")
             \/ phase[j] = "owned" /\ note = "none" /\ Absent(j)
             \/ /\ \/ phase[j] # "owned" \/ note \in {"defer", "continue"}
                   \/ note = "cancelled" /\ call[j].why = "ack"
                /\ UNCHANGED queue
          /\ UNCHANGED run
    /\ UNCHANGED <<store, deleting>>

(* The caller crashes, its transaction fails, or its lease ran out before  *)
(* the write: the queue is as it was.                                      *)
Abandon(j) ==
    /\ call[j] # NoCall
    /\ call' = [call EXCEPT ![j] = NoCall]
    /\ marking' = marking \ {j}
    /\ UNCHANGED <<checkpoint, receipt, document, points, collection, guard, run, queue, deleting>>

-----------------------------------------------------------------------------
(* Operators archive the collection, under the guard publications take.   *)
Archive ==
    /\ "archive" \in Maintenance /\ Free /\ collection = "active"
    /\ collection' = "archived"
    /\ UNCHANGED <<checkpoint, receipt, document, points, guard, marking, run, queue, call, deleting>>

(* They delete the document: first its points, under no guard, then the    *)
(* row, which is kept as a tombstone, under the document's guard.  The     *)
(* second half may fail.                                                   *)
DeletePoints ==
    /\ "delete" \in Maintenance /\ document.status # "absent" /\ ~deleting
    /\ points' = NoPoints /\ deleting' = TRUE
    /\ UNCHANGED <<checkpoint, receipt, document, collection, guard, marking, run, queue, call>>

DeleteDocument ==
    /\ deleting /\ deleting' = FALSE
    /\ \/ Free /\ document' = [document EXCEPT !.status = "deleted", !.chunks = FALSE]
       \/ UNCHANGED document
    /\ UNCHANGED <<checkpoint, receipt, points, collection, guard, marking, run, queue, call>>

Next ==
    \/ \E j \in Jobs : \/ Submit(j) \/ Withdrawn(j) \/ Expire(j) \/ Poll(j) \/ Cancel(j)
                       \/ Mark(j) \/ Read(j) \/ Ask(j) \/ Apply(j) \/ Abandon(j)
    \/ \E h \in Handlers : \/ LoseHeartbeat(h) \/ GiveUp(h) \/ Report(h)
                           \/ \E j \in Jobs : ClaimNew(j, h)
                           \/ HandlerStep(h) /\ UNCHANGED <<queue, call, deleting>>
    \/ Archive \/ DeletePoints \/ DeleteDocument

Spec == Init /\ [][Next]_vars

-----------------------------------------------------------------------------
(* The shape of the stores, the threads and the calls.                     *)
TypeOK ==
    /\ checkpoint \in [Jobs -> Checkpoint] /\ receipt \in [Jobs -> Receipt]
    /\ document \in Document
    /\ points \in [1..Batches -> {Nobody} \cup (Token \X Handlers)]
    /\ collection \in {"active", "archived"} /\ guard \in Handlers \cup {NoHandler}
    /\ marking \subseteq Jobs /\ run \in [Handlers -> Run]
    /\ phase \in [Jobs -> Lifecycle!Phase] /\ tries \in [Jobs -> 0..MaxTries]
    /\ grants \in [Jobs -> 0..MaxGrants] /\ call \in [Jobs -> Call \cup {NoCall}]
    /\ deleting \in BOOLEAN

(* The queue, driven by the publication authority, still lives the life    *)
(* the abstract queue promises: the same specification JobQueue implements.*)
ImplementsLifecycle == Lifecycle!Spec

(* A job succeeds only on the committed publication of its own current     *)
(* attempt, never on another attempt's (_publication_completion).          *)
SucceededIsPublished ==
    \A j \in Jobs : phase[j] = "succeeded" =>
        receipt[j].outcome = "committed" /\ receipt[j].attempt = tries[j]

(* A job that was cancelled or dead-lettered has not published, and no     *)
(* thread of it publishes afterwards (_reconcile_publication asks before   *)
(* an attempt can fail).                                                   *)
SettledIsUnpublished ==
    \A j \in Jobs : phase[j] \in {"cancelled", "dead"} => receipt[j].outcome # "committed"

(* What is published is complete: the chunks are there, and every point is *)
(* of the very version of the document row that is published, although     *)
(* several executions may have written to it.                              *)
PublishedIsWhole ==
    document.status = "published" =>
        /\ document.chunks
        /\ \A b \in 1..Batches : points[b] = Origin(document.owner, document.lineage)

(* A published document has the committed receipt of the attempt that      *)
(* wrote it (set_document_status), and once an attempt's own publication   *)
(* is committed, only a deletion takes it back: no failing thread of any   *)
(* job compensates it (recover_attempt).                                   *)
CommittedIsKept ==
    /\ \A j \in Jobs :
          receipt[j].outcome = "committed" /\ receipt[j].owner = <<j, receipt[j].attempt>> =>
              document.owner = receipt[j].owner /\ document.status \in {"published", "deleted"}
    /\ document.status = "published" =>
          \E j \in Jobs : receipt[j].outcome = "committed" /\ receipt[j].owner = document.owner

(* A cancelled checkpoint leaves no effect of its attempt behind, unless   *)
(* another attempt took the document over (_cleanup_failed_document:       *)
(* cancellation needs confirmed cleanup before it becomes terminal).       *)
CancelledLeavesNothing ==
    \A j \in Jobs :
        checkpoint[j].state = "cancelled" /\ document.owner = <<j, checkpoint[j].attempt>> =>
            document.status # "published" /\ points = NoPoints

(* A receipt that was committed or cancelled stays so: no later attempt    *)
(* and no cancellation request replaces it (resolve_publication,           *)
(* _write_publication).                                                    *)
DecisionIsFinal ==
    [][\A j \in Jobs : receipt[j].outcome \in {"committed", "cancelled"} =>
           receipt'[j].outcome = receipt[j].outcome /\ receipt'[j].attempt = receipt[j].attempt]_vars

(* Cancellation and commit have one winner: a receipt that was asked to    *)
(* cancel is never committed (publication_decision_guard).                 *)
CommitWasNotCancelled ==
    [][\A j \in Jobs : receipt[j].outcome = "pending" /\ receipt[j].cancel =>
           receipt'[j].outcome # "committed"]_vars
=============================================================================
