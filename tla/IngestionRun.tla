---------------------------- MODULE IngestionRun ----------------------------
(***************************************************************************)
(* One execution of the ingestion handler (apps/worker/external_ingestion  *)
(* and packages/ingestion pipeline.py, _ingest), as a thread of a worker.  *)
(* Several executions may be alive for one job: of successive attempts, or *)
(* of one attempt whose lease changed hands.  What an execution does       *)
(* between two accesses to shared state is one step; parsing, chunking and *)
(* embedding are the one step that produces the provider outputs.          *)
(*                                                                         *)
(* The queue that starts executions and takes their reports is in          *)
(* QueuePublication.                                                       *)
(***************************************************************************)
EXTENDS PublicationStore

VARIABLE run     \* the local state of every handler thread

Pc == {"idle", "recover", "restart", "begin", "identify", "outputs", "produced",
       "claim", "chunks", "manifest", "index", "verify", "intent", "decide", "publish", "dup",
       "dup_decide", "dup_commit", "settle", "except", "compensate", "finish",
       "published", "failed"}

NoJob == "none"

Error == {"none", "lost", "owner", "cancel", "other"}

Run == [pc : Pc, job : Jobs \cup {NoJob}, attempt : 1..MaxTries, grant : Nat, lost : BOOLEAN,
        cancel : BOOLEAN, out : Seq(Handlers), resumed : BOOLEAN,
        lineage : Handlers \cup {NoHandler}, next : 1..(Batches + 1),
        wrote : BOOLEAN, tried : BOOLEAN, error : Error]

Idle == [pc |-> "idle", job |-> NoJob, attempt |-> 1, grant |-> 0,
         lost |-> FALSE, cancel |-> FALSE, out |-> << >>, resumed |-> FALSE,
         lineage |-> NoHandler, next |-> 1, wrote |-> FALSE, tried |-> FALSE,
         error |-> "none"]

Started(j, a, g) == [Idle EXCEPT !.pc = "recover", !.job = j, !.attempt = a, !.grant = g]

Me(h) == <<run[h].job, run[h].attempt>>

At(h, pc) == run[h].pc = pc

Goto(h, pc) == run' = [run EXCEPT ![h].pc = pc]

(* The execution is over and is to be reported: published or failed.       *)
Done(h, pc) ==
    run' = [run EXCEPT ![h] = [Started(@.job, @.attempt, @.grant) EXCEPT !.pc = pc, !.lost = run[h].lost]]

(* The execution ends without a report: the runtime records a lost lease   *)
(* and leaves the job to the queue's recovery.                             *)
End(h) == run' = [run EXCEPT ![h] = Idle]

(* An exception leaves the guards and enters the except block.             *)
Throw(h, e) ==
    /\ run' = [run EXCEPT ![h].pc = "except", ![h].error = e,
                          ![h].cancel = @ \/ e = "cancel"]
    /\ guard' = IF guard = h THEN NoHandler ELSE guard

(* _checkpoint: what it raises.                                            *)
Raised(h) ==
    LET c == checkpoint[run[h].job] IN
    IF run[h].lost THEN "lost"
    ELSE IF c.attempt # run[h].attempt THEN "owner"
    ELSE IF run[h].cancel \/ c.cancel THEN "cancel"
    ELSE "none"

Clear(h) == Raised(h) = "none"

(* _effect_guard: the document is still this attempt's.                    *)
OwnsDocument(h) == document.owner = Me(h) /\ document.status # "deleted"

-----------------------------------------------------------------------------
(* The attempt an execution names when it recovers: an older failed one    *)
(* while the current one has no checkpoint.                                *)
Expected(h) ==
    LET j == run[h].job r == receipt[j] c == checkpoint[j] IN
    IF /\ r.outcome = "failed" /\ r.attempt < run[h].attempt
       /\ ~(c.attempt = run[h].attempt /\ c.state \in {"active", "cancelled"})
      THEN r.attempt ELSE run[h].attempt

(* Publication authority is asked before any work.                         *)
Recover(h) ==
    /\ At(h, "recover")
    /\ \E o \in {"none", "published", "failed", "cancelled", "verifying", "unavailable"} :
          /\ RecoverPublication(run[h].job, Expected(h), FALSE, o)
          /\ CASE o = "published"                     -> Done(h, "published")
               [] o = "cancelled"                     -> Done(h, "failed")
               [] o \in {"verifying", "unavailable"}  -> End(h)
               [] OTHER                               -> Goto(h, "restart")

(* _ingest asks again, for any attempt; an authority that cannot be asked  *)
(* is an ordinary failure here.                                            *)
Restart(h) ==
    /\ At(h, "restart")
    /\ \E o \in {"none", "published", "failed", "cancelled", "verifying", "unavailable"} :
          /\ RecoverPublication(run[h].job, 0, FALSE, o)
          /\ CASE o = "published"                     -> Done(h, "published")
               [] o \in {"cancelled", "unavailable"}  -> Done(h, "failed")
               [] o = "verifying" -> IF CancelledEarly(run[h].job) THEN Done(h, "failed") ELSE End(h)
               [] OTHER                               -> Goto(h, "begin")

Begin(h) ==
    LET j == run[h].job
        c == BegunCheckpoint(j, run[h].attempt)
    IN  /\ At(h, "begin") /\ j \notin marking
        /\ IF CanBeginCheckpoint(j, run[h].attempt)
             THEN /\ checkpoint' = [checkpoint EXCEPT ![j] = c]
                  /\ run' = [run EXCEPT ![h].pc = "identify", ![h].out = c.outputs,
                                        ![h].resumed = c.outputs # << >>, ![h].cancel = c.cancel]
             ELSE UNCHANGED checkpoint /\ Done(h, "failed")
        /\ UNCHANGED <<receipt, document, points, collection, guard, marking>>

(* Saving outputs; a change of what was saved is a lost ownership.         *)
Save(h, outputs, pc) ==
    LET j == run[h].job IN
    /\ j \notin marking
    /\ IF CanSave(j, run[h].attempt, outputs)
         THEN /\ checkpoint' = [checkpoint EXCEPT ![j] = SavedCheckpoint(j, outputs)]
              /\ run' = [run EXCEPT ![h].pc = pc, ![h].out = outputs,
                                    ![h].cancel = @ \/ checkpoint[j].cancel]
              /\ UNCHANGED guard
         ELSE UNCHANGED checkpoint /\ Throw(h, "owner")
    /\ UNCHANGED <<receipt, document, points, collection, marking>>

Identify(h) ==
    /\ At(h, "identify") /\ Clear(h) /\ collection = "active"
    /\ Save(h, run[h].out, IF document.status = "published" THEN "dup" ELSE "outputs")

(* The providers run between the check and the save.                       *)
Outputs(h) ==
    /\ At(h, "outputs") /\ Clear(h)
    /\ Goto(h, IF run[h].out = << >> THEN "produced" ELSE "claim")
    /\ UNCHANGED store

SaveOutputs(h) == At(h, "produced") /\ Save(h, <<h>>, "claim")

(* mutation_guard, and collection_guard for a publication: the owner is    *)
(* checked once the guard is held, and may be revoked before the effect.   *)
Guarded == {"claim", "chunks", "index", "intent", "dup"}

Held(h) == guard = h

(* Mutant: the owner is not checked once the guard is held.                *)
EnterUnfenced(h) ==
    /\ run[h].pc \in Guarded /\ Free /\ Clear(h) /\ collection = "active"
    /\ At(h, "dup") => document.status = "published"
    /\ guard' = h
    /\ UNCHANGED <<checkpoint, receipt, document, points, collection, marking, run>>

Enter(h) ==
    /\ run[h].pc \in Guarded /\ Free /\ Clear(h) /\ collection = "active"
    /\ run[h].pc \in {"chunks", "index", "intent"} => OwnsDocument(h)
    /\ At(h, "dup") => document.status = "published"
    /\ guard' = h
    /\ UNCHANGED <<checkpoint, receipt, document, points, collection, marking, run>>

(* The document row becomes this attempt's, and the points of its former   *)
(* owner are deleted; a crash or a refusal of the index may come between.  *)
Claim(h) ==
    LET kept == run[h].resumed /\ document.status # "absent"
        foreign == document.owner \notin {Nobody, Me(h)}
        claimed == [run EXCEPT ![h].pc = "chunks", ![h].wrote = TRUE,
                               ![h].lineage = IF kept THEN document.lineage ELSE h]
        failed == [run EXCEPT ![h].pc = "except", ![h].wrote = TRUE, ![h].error = "other"]
    IN  /\ At(h, "claim") /\ Held(h) /\ guard' = NoHandler
        /\ IF document.status = "published"
           THEN Goto(h, "dup") /\ UNCHANGED <<document, points>>
           ELSE IF document.status = "deleted" \/ (kept /\ foreign)
           THEN /\ Throw(h, IF document.status = "deleted" THEN "other" ELSE "owner")
                /\ UNCHANGED <<document, points>>
           ELSE /\ document' = IF kept THEN document
                               ELSE [status |-> "processing", owner |-> Me(h),
                                     lineage |-> h, chunks |-> document.chunks]
                /\ \/ /\ points' = IF foreign THEN NoPoints ELSE points
                      /\ run' = claimed
                   \/ foreign /\ UNCHANGED points /\ run' = failed
                   \/ foreign /\ UNCHANGED points /\ End(h)
        /\ UNCHANGED <<checkpoint, receipt, collection, marking>>

Chunks(h) ==
    /\ At(h, "chunks") /\ Held(h) /\ guard' = NoHandler
    /\ document' = [document EXCEPT !.chunks = TRUE]
    /\ Goto(h, "manifest")
    /\ UNCHANGED <<checkpoint, receipt, points, collection, marking>>

(* The manifest is authorised before any point is written.                 *)
Manifest(h) ==
    /\ At(h, "manifest")
    /\ Save(h, <<run[h].out[1], run[h].lineage>>, "index")

Index(h) ==
    /\ At(h, "index") /\ Held(h) /\ guard' = NoHandler
    /\ points' = [points EXCEPT ![run[h].next] = Origin(Me(h), run[h].lineage)]
    /\ run' = [run EXCEPT ![h].next = @ + 1,
                          ![h].pc = IF run[h].next = Batches THEN "verify" ELSE "index"]
    /\ UNCHANGED <<checkpoint, receipt, document, collection, marking>>

Verify(h) ==
    /\ At(h, "verify") /\ Clear(h)
    /\ IF \A b \in 1..Batches : points[b] # Nobody THEN Goto(h, "intent") /\ UNCHANGED guard
       ELSE Throw(h, "other")
    /\ UNCHANGED <<checkpoint, receipt, document, points, collection, marking>>

-----------------------------------------------------------------------------
(* Publication, under collection and document guard *)

(* The pending receipt; its acknowledgement may be lost.                   *)
Intend(h, owner, ready, pc) ==
    LET j == run[h].job IN
    /\ j \notin marking
    /\ IF CanIntend(j, run[h].attempt, owner)
         THEN /\ receipt' = [receipt EXCEPT ![j] = Intent(j, run[h].attempt, owner, ready)]
              /\ \/ /\ UNCHANGED guard
                    /\ run' = [run EXCEPT ![h].pc = pc, ![h].tried = TRUE]
                 \/ "intent" \in Failures /\ Throw(h, "other")
         ELSE UNCHANGED receipt /\ Throw(h, "owner")
    /\ UNCHANGED <<checkpoint, document, points, collection, marking>>

BeginPublication(h) ==
    /\ At(h, "intent") /\ Held(h)
    /\ Intend(h, Me(h), TRUE, "decide")

(* The receipt is read again before the commit.                            *)
ReadReceipt(h) ==
    LET r == receipt[run[h].job] IN
    /\ At(h, "decide")
    /\ IF r.attempt # run[h].attempt \/ r.outcome # "pending" THEN Throw(h, "owner")
       ELSE IF r.cancel THEN Throw(h, "cancel")
       ELSE Goto(h, "publish") /\ UNCHANGED guard
    /\ UNCHANGED <<checkpoint, receipt, document, points, collection, marking>>

(* The commit, whose acknowledgement may be lost, or its refusal.          *)
Publish(h) ==
    /\ At(h, "publish")
    /\ \/ CanPublish /\ PublishDocument /\ Goto(h, "settle") /\ guard' = NoHandler
       \/ CanPublish /\ PublishDocument /\ "publish" \in Failures /\ Throw(h, "other")
       \/ ~CanPublish /\ Throw(h, "other") /\ UNCHANGED <<document, receipt>>
    /\ UNCHANGED <<checkpoint, points, collection, marking>>

(* publish_duplicate: the document is already published, by `owner`.       *)
BeginDuplicate(h) ==
    /\ At(h, "dup") /\ Held(h)
    /\ Intend(h, document.owner, FALSE, "dup_decide")

ReadDuplicate(h) ==
    /\ At(h, "dup_decide")
    /\ IF receipt[run[h].job].cancel THEN Throw(h, "cancel")
       ELSE Goto(h, "dup_commit") /\ UNCHANGED guard
    /\ UNCHANGED <<checkpoint, receipt, document, points, collection, marking>>

(* resolve_publication(receipt, "committed")                               *)
CommitDuplicate(h) ==
    LET j == run[h].job IN
    /\ At(h, "dup_commit")
    /\ IF receipt[j].attempt = run[h].attempt /\ receipt[j].outcome \in {"pending", "committed"}
         THEN /\ receipt' = [receipt EXCEPT ![j] = Resolved(@, "committed")]
              /\ guard' = NoHandler
              /\ Goto(h, "settle")
         ELSE UNCHANGED receipt /\ Throw(h, "owner")
    /\ UNCHANGED <<checkpoint, document, points, collection, marking>>

(* finish_publication: the checkpoint follows, if it can be written.       *)
Settle(h) ==
    LET j == run[h].job IN
    /\ At(h, "settle")
    /\ \/ /\ j \notin marking /\ CanFinish(j, run[h].attempt, "committed")
          /\ checkpoint' = [checkpoint EXCEPT ![j] =
                               FinishedCheckpoint(j, "committed", run[h].cancel)]
       \/ UNCHANGED checkpoint
    /\ Done(h, "published")
    /\ UNCHANGED <<receipt, document, points, collection, guard, marking>>

-----------------------------------------------------------------------------
(* Interruption: a check that raises, a document or collection that is no  *)
(* longer available, or a failure of a provider, the index or a store.     *)
Checked == {"identify", "outputs", "claim", "chunks", "index", "verify", "intent", "dup"}

Interrupted(h) ==
    /\ run[h].pc \in Checked /\ ~Held(h)
    /\ \/ ~Clear(h) /\ Throw(h, Raised(h))
       \/ /\ run[h].pc \in {"chunks", "index", "intent"} /\ Free /\ ~OwnsDocument(h)
          /\ Throw(h, "owner")
       \/ /\ At(h, "dup") /\ Free /\ document.status # "published"
          /\ Throw(h, "owner")
       \/ /\ run[h].pc \in Checked \ {"outputs", "verify"} /\ collection # "active"
          /\ Throw(h, "other")
    /\ UNCHANGED <<checkpoint, receipt, document, points, collection, marking>>

Fault(h) ==
    /\ "step" \in Failures /\ run[h].pc \in Checked \cup {"produced", "manifest"}
    /\ Throw(h, "other")
    /\ UNCHANGED <<checkpoint, receipt, document, points, collection, marking>>

(* The except block.  An execution that knows its lease is lost leaves     *)
(* everything to the recovery owner; one that lost ownership before it     *)
(* wrote the document only reports.  The lease is not looked at again.     *)
Except(h) ==
    LET leaves == run[h].error = "lost" \/ run[h].lost
        reports == run[h].error = "owner" /\ ~run[h].wrote
    IN  /\ At(h, "except")
        /\ \/ leaves /\ End(h)
           \/ ~leaves /\ reports /\ Done(h, "failed")
           \/ ~leaves /\ ~reports /\ Goto(h, "compensate")
        /\ UNCHANGED store

(* recover_attempt after an intent: the receipt tells what happened.       *)
ExceptResolve(h) ==
    LET j == run[h].job r == receipt[j]
        mine == r.attempt = run[h].attempt
        published == document.status = "published" /\ document.owner = Me(h)
    IN  /\ At(h, "compensate") /\ run[h].tried /\ Free
        /\ \/ End(h) /\ UNCHANGED store                         \* unavailable
           \/ mine /\ r.outcome = "committed" /\ Goto(h, "settle") /\ UNCHANGED store
           \/ mine /\ r.outcome # "committed" /\ published /\ Done(h, "failed") /\ UNCHANGED store
           \/ /\ mine /\ ~published /\ r.outcome = "pending"
              /\ \E o \in {"published", "failed", "cancelled", "verifying"} :
                    /\ RecoverPublication(j, run[h].attempt, run[h].cancel, o)
                    /\ CASE o = "published" -> Goto(h, "settle")
                         [] o = "verifying" -> End(h)
                         [] OTHER           -> Done(h, "failed")

(* Mutant: the error is classified before the outcome of the commit.       *)
ExceptCleanupFirst(h) ==
    /\ At(h, "compensate") /\ Free
    /\ \E complete \in Completeness :
          /\ IF run[h].wrote THEN Cleanup(Me(h), complete)
             ELSE UNCHANGED <<document, points>>
          /\ run' = [run EXCEPT ![h].pc = "finish"]
    /\ UNCHANGED <<checkpoint, receipt, collection, guard, marking>>

(* recover_attempt otherwise: compensation of the attempt's effects.       *)
ExceptCleanup(h) ==
    LET j == run[h].job
        resolved == receipt[j].attempt = run[h].attempt
                    /\ receipt[j].outcome \in {"failed", "cancelled"}
        cancelled == run[h].cancel \/ (run[h].tried /\ receipt[j].cancel)
    IN  /\ At(h, "compensate") /\ Free
        /\ ~run[h].tried
           \/ (resolved /\ ~(document.status = "published" /\ document.owner = Me(h)))
        /\ \E complete \in Completeness :
              /\ IF run[h].wrote THEN Cleanup(Me(h), complete)
                 ELSE UNCHANGED <<document, points>>
              /\ \/ "crash" \in Failures /\ ~complete /\ End(h)
                 \/ IF cancelled /\ run[h].wrote /\ ~complete THEN Done(h, "failed")
                    ELSE run' = [run EXCEPT ![h].pc = "finish", ![h].cancel = cancelled]
        /\ UNCHANGED <<checkpoint, receipt, collection, guard, marking>>

Finish(h) ==
    LET j == run[h].job
        state == IF run[h].cancel THEN "cancelled" ELSE "failed"
    IN  /\ At(h, "finish") /\ j \notin marking
        /\ checkpoint' = IF CanFinish(j, run[h].attempt, state)
                           THEN [checkpoint EXCEPT ![j] = FinishedCheckpoint(j, state, run[h].cancel)]
                           ELSE checkpoint
        /\ Done(h, "failed")
        /\ UNCHANGED <<receipt, document, points, collection, guard, marking>>

(* The process dies; its database session, and with it the guards, go.     *)
Crash(h) ==
    /\ "crash" \in Failures /\ ~At(h, "idle")
    /\ End(h)
    /\ guard' = IF guard = h THEN NoHandler ELSE guard
    /\ UNCHANGED <<checkpoint, receipt, document, points, collection, marking>>

HandlerStep(h) ==
    \/ Recover(h) \/ Restart(h) \/ Begin(h) \/ Identify(h) \/ Outputs(h) \/ SaveOutputs(h)
    \/ Enter(h) \/ Claim(h) \/ Chunks(h)
    \/ Manifest(h) \/ Index(h) \/ Verify(h) \/ BeginPublication(h) \/ ReadReceipt(h)
    \/ Publish(h) \/ BeginDuplicate(h) \/ ReadDuplicate(h) \/ CommitDuplicate(h)
    \/ Settle(h) \/ Interrupted(h) \/ Fault(h) \/ Except(h) \/ ExceptResolve(h)
    \/ ExceptCleanup(h) \/ Finish(h) \/ Crash(h)
=============================================================================
