--------------------------- MODULE PublicationStore ---------------------------
(***************************************************************************)
(* The durable publication authority of packages/knowledge: ingestion      *)
(* checkpoints, publication receipts and the document they decide about    *)
(* (publication.py, fencing.py, postgres_store.py), with the recovery of   *)
(* an unresolved publication (pipeline.py, recover_publication).           *)
(*                                                                         *)
(* One document is modelled: every job of Jobs was submitted for the same  *)
(* content, hence for the same document id, in one collection.  An attempt *)
(* of a job is named by the token <<job, attempt>> (the code derives it    *)
(* from the queue's attempt facts).  Times are left out: JobQueue covers   *)
(* what the queue does with them.                                          *)
(*                                                                         *)
(* A transaction is one operator.  Operators named Can... are the early    *)
(* returns of a method, the others the value it writes.                    *)
(***************************************************************************)
EXTENDS Naturals, Sequences, SequencesExt

CONSTANTS
    Jobs,        \* jobs submitted for the document
    MaxTries,    \* attempts of a job
    Handlers,    \* handler threads of the worker fleet
    Batches,     \* batches of points the document is indexed in
    Failures     \* what may fail: a step, a process, a heartbeat, a compensation,
                 \* or the acknowledgement of the intent or of the commit

NoHandler == "none"

ASSUME PublicationAssumption ==
    /\ MaxTries \in Nat \ {0} /\ Batches \in Nat \ {0} /\ NoHandler \notin Handlers
    /\ Failures \subseteq {"step", "crash", "heartbeat", "cleanup", "intent", "publish"}

VARIABLES
    checkpoint,  \* rick_ingestion_checkpoints: one row per job
    receipt,     \* rick_publication_receipts: one row per job
    document,    \* the rick_documents row and whether it has chunks
    points,      \* the vector index: which write each batch comes from
    collection,  \* status of the collection
    guard,       \* holder of collection and document guards across steps
    marking      \* jobs whose checkpoint guard a cancellation request holds

store == <<checkpoint, receipt, document, points, collection, guard, marking>>

Token == Jobs \X (1..MaxTries)

Nobody == <<>>

(* An attempt's provider outputs, then its point manifest; each is named   *)
(* by the handler that produced it, since two runs of a provider need not  *)
(* agree.                                                                  *)
Checkpoint == [attempt : 0..MaxTries,
               state : {"none", "active", "committed", "failed", "cancelled"},
               cancel : BOOLEAN, named : BOOLEAN, outputs : Seq(Handlers)]

Receipt == [attempt : 0..MaxTries, owner : Token \cup {Nobody},
            outcome : {"none", "pending", "committed", "failed", "cancelled"},
            cancel : BOOLEAN, ready : BOOLEAN]

(* lineage: the handler whose version of the row (timestamps, names) it is *)
Document == [status : {"absent", "processing", "published", "failed", "deleted"},
             owner : Token \cup {Nobody}, lineage : Handlers \cup {NoHandler},
             chunks : BOOLEAN]

NoCheckpoint == [attempt |-> 0, state |-> "none", cancel |-> FALSE,
                 named |-> FALSE, outputs |-> << >>]

NoReceipt == [attempt |-> 0, owner |-> Nobody, outcome |-> "none",
              cancel |-> FALSE, ready |-> FALSE]

NoDocument == [status |-> "absent", owner |-> Nobody, lineage |-> NoHandler,
               chunks |-> FALSE]

NoPoints == [b \in 1..Batches |-> Nobody]

(* The payload of a point repeats the owner and lineage of its document.   *)
Origin(owner, lineage) == <<owner, lineage>>

Free == guard = NoHandler

-----------------------------------------------------------------------------
(* Checkpoints *)

FreshCheckpoint(a) ==
    [attempt |-> a, state |-> "active", cancel |-> FALSE, named |-> FALSE,
     outputs |-> << >>]

(* begin_ingestion_checkpoint: an attempt joins its own checkpoint, or     *)
(* replaces that of the attempt just before it.                            *)
CanBeginCheckpoint(j, a) ==
    \/ checkpoint[j].attempt \in {0, a}
    \/ a = checkpoint[j].attempt + 1 /\ checkpoint[j].state \notin {"committed", "cancelled"}

BegunCheckpoint(j, a) ==
    IF checkpoint[j].attempt = a THEN checkpoint[j] ELSE FreshCheckpoint(a)

(* save_ingestion_checkpoint: outputs that were saved may only be extended,*)
(* and after a cancellation request nothing is written.                    *)
CanSave(j, a, outputs) ==
    /\ checkpoint[j].attempt = a /\ checkpoint[j].state = "active"
    /\ checkpoint[j].cancel \/ IsPrefix(checkpoint[j].outputs, outputs)

SavedCheckpoint(j, outputs) ==
    IF checkpoint[j].cancel THEN checkpoint[j]
    ELSE [checkpoint[j] EXCEPT !.named = TRUE, !.outputs = outputs]

(* finish_ingestion_checkpoint: never against a receipt of the attempt.    *)
CanFinish(j, a, state) ==
    /\ checkpoint[j].attempt = a
    /\ receipt[j].attempt = a => receipt[j].outcome = state
    /\ checkpoint[j].state \in {"active", state}

FinishedCheckpoint(j, state, cancel) ==
    [checkpoint[j] EXCEPT !.state = state, !.outputs = << >>,
                          !.cancel = @ \/ cancel]

-----------------------------------------------------------------------------
(* Receipts and the document *)

(* begin_publication: the intent of an attempt, `owner` being the attempt  *)
(* that wrote the document (another one when it is a duplicate).           *)
CanIntend(j, a, owner) ==
    /\ checkpoint[j].attempt \in {0, a}
    /\ \/ receipt[j].attempt = 0
       \/ receipt[j].attempt = a /\ receipt[j].owner = owner
       \/ receipt[j].outcome = "failed" /\ a = receipt[j].attempt + 1

Intent(j, a, owner, ready) ==
    IF receipt[j].attempt = a THEN receipt[j]
    ELSE [attempt |-> a, owner |-> owner, outcome |-> "pending",
          cancel |-> checkpoint[j].cancel, ready |-> ready]

(* _write_publication of a decision: final once taken, and a failure that  *)
(* was asked to cancel is a cancellation.                                  *)
Resolved(r, outcome) ==
    [r EXCEPT !.outcome = IF @ # "pending" THEN @
                          ELSE IF r.cancel /\ outcome = "failed" THEN "cancelled"
                          ELSE outcome]

(* set_document_status('published'): one transaction publishes the row and *)
(* commits the receipts waiting for it, unless one was asked to cancel.    *)
Awaiting(j) == receipt[j].outcome = "pending" /\ receipt[j].owner = document.owner

(* Mutant: the commit does not look at the cancellation flags.             *)
CanPublishRegardless == document.status \notin {"absent", "deleted"}

CanPublish ==
    /\ document.status \notin {"absent", "deleted"}
    /\ \A j \in Jobs : Awaiting(j) => ~receipt[j].cancel

PublishDocument ==
    /\ document' = [document EXCEPT !.status = "published"]
    /\ receipt' = [j \in Jobs |-> IF Awaiting(j) THEN [receipt[j] EXCEPT !.outcome = "committed"]
                                  ELSE receipt[j]]

(* A compensation completes, or the index or the store refuses a part.     *)
Completeness == IF "cleanup" \in Failures THEN BOOLEAN ELSE {TRUE}

Hidden == [document EXCEPT !.status = "failed", !.chunks = FALSE]

(* What an incomplete compensation leaves: the row was hidden, or could    *)
(* not be, and is then deleted as a last resort once the points are gone.  *)
Unfinished(clean) ==
    {Hidden, document, [document EXCEPT !.chunks = FALSE]}
        \cup IF clean THEN {[Hidden EXCEPT !.status = "deleted"]} ELSE {}

(* _cleanup_failed_document: hides the partial effects of attempt t if it  *)
(* still owns the document.  If it is not `complete`, any part may be      *)
(* missing; a row that was deleted is not revived.                         *)
Cleanup(t, complete) ==
    IF document.owner # t THEN UNCHANGED <<document, points>>
    ELSE \E clean \in {TRUE, complete} :
            /\ points' = IF clean THEN NoPoints ELSE points
            /\ IF document.status = "deleted" THEN UNCHANGED document
               ELSE IF complete THEN document' = Hidden
               ELSE document' \in Unfinished(clean)

(* _verify_pending_points: the index holds exactly the points of the       *)
(* manifest that the checkpoint authorised.                                *)
PointsVerified(j) ==
    LET c == checkpoint[j] IN
    /\ c.attempt = receipt[j].attempt /\ c.state = "active" /\ Len(c.outputs) = 2
    /\ c.outputs[2] = document.lineage /\ document.chunks
    /\ \A b \in 1..Batches : points[b] = Origin(document.owner, document.lineage)

-----------------------------------------------------------------------------
(* Cancellation *)

(* request_ingestion_cancel, in the checkpoint guard of its job: reads the *)
(* receipt, which a committed publication ends, ...                        *)
RequestCancel(j) ==
    /\ j \notin marking /\ receipt[j].outcome # "committed"
    /\ marking' = marking \cup {j}
    /\ UNCHANGED <<checkpoint, receipt, document, points, collection, guard>>

(* Mutant: the flag decides the receipt, also one that was just committed. *)
MarkCancelDecided(j, a) ==
    LET c == BegunCheckpoint(j, a)
        marks == CanBeginCheckpoint(j, a) /\ c.state # "committed"
    IN  /\ j \in marking /\ marking' = marking \ {j}
        /\ checkpoint' = IF marks THEN [checkpoint EXCEPT ![j] = [c EXCEPT !.cancel = TRUE]]
                         ELSE checkpoint
        /\ receipt' = IF marks /\ receipt[j].attempt = a
                         THEN [receipt EXCEPT ![j].cancel = TRUE, ![j].outcome = "cancelled"]
                         ELSE receipt
        /\ UNCHANGED <<document, points, collection, guard>>

(* ... then flags the checkpoint of attempt a and its pending receipt.     *)
MarkCancel(j, a) ==
    LET c == BegunCheckpoint(j, a)
        marks == CanBeginCheckpoint(j, a) /\ c.state # "committed"
    IN  /\ j \in marking /\ marking' = marking \ {j}
        /\ checkpoint' = IF marks THEN [checkpoint EXCEPT ![j] = [c EXCEPT !.cancel = TRUE]]
                         ELSE checkpoint
        /\ receipt' = IF marks /\ receipt[j].attempt = a /\ receipt[j].outcome = "pending"
                         THEN [receipt EXCEPT ![j].cancel = TRUE] ELSE receipt
        /\ UNCHANGED <<document, points, collection, guard>>

-----------------------------------------------------------------------------
(* Recovery: recover_publication.  Its answer `o` is none, published,      *)
(* failed, cancelled, verifying (still open) or unavailable.               *)

(* A cancellation of the current attempt, before any intent of it.         *)
CancelledEarly(j) ==
    LET c == checkpoint[j] r == receipt[j] IN
    /\ c.cancel /\ c.state \in {"active", "cancelled"}
    /\ r.outcome = "none" \/ (r.outcome = "failed" /\ c.attempt > r.attempt)

(* A retry is under way since the receipt failed.                          *)
RetriedSince(j) ==
    /\ receipt[j].outcome = "failed" /\ checkpoint[j].state = "active"
    /\ checkpoint[j].attempt > receipt[j].attempt

(* Mutant: the cancellation is final before the index confirmed it.        *)
RetireUnconfirmed(j, o) ==
    LET own == <<j, checkpoint[j].attempt>>
        mine == checkpoint[j].named /\ document.owner = own
    IN  /\ Free /\ ~(mine /\ document.status = "published")
        /\ \E complete \in Completeness :
              IF mine THEN Cleanup(own, complete) ELSE UNCHANGED <<document, points>>
        /\ o = "cancelled" /\ j \notin marking
        /\ checkpoint' = [checkpoint EXCEPT ![j] = FinishedCheckpoint(j, "cancelled", TRUE)]
        /\ UNCHANGED receipt

(* A checkpoint cancelled early: its effects are removed, and only once    *)
(* the index confirms that does the cancellation become final.             *)
RetireCancelled(j, o) ==
    LET c == checkpoint[j]
        own == <<j, c.attempt>>
        mine == c.named /\ document.owner = own
        missing == c.named /\ document.status = "absent"
    IN  /\ c.named => Free /\ ~(mine /\ document.status = "published")
        /\ \E complete \in Completeness :
              /\ IF mine THEN Cleanup(own, complete) ELSE UNCHANGED <<document, points>>
              /\ IF ~complete /\ (mine \/ missing)
                   THEN o = "verifying" /\ UNCHANGED checkpoint
                   ELSE /\ o = "cancelled" /\ j \notin marking
                        /\ checkpoint' = [checkpoint EXCEPT ![j] =
                                             FinishedCheckpoint(j, "cancelled", TRUE)]
        /\ UNCHANGED receipt

(* The decision about a pending receipt, under collection guard, document  *)
(* guard and row lock: `d` is the outcome, or verifying when it has to     *)
(* stay open.                                                              *)
Decide(j, cancel, d) ==
    LET r == receipt[j]
        own == <<j, r.attempt>>
        owned == document.owner = r.owner
        flag == cancel \/ r.cancel
        published == owned /\ document.status = "published"
        ready == owned /\ ~published /\ r.ready /\ ~flag
        publishable == collection = "active" /\ document.status = "processing"
        retired == IF ready THEN r.owner ELSE own
        resolve(outcome) == /\ receipt' = [receipt EXCEPT ![j] = Resolved(r, outcome)]
                            /\ d = Resolved(r, outcome).outcome
    IN  /\ r.outcome = "pending" /\ (Free \/ d = "verifying")
        /\ \/ /\ d = "verifying"         \* no guard, a failed read or write, a crash
              /\ \/ UNCHANGED <<document, points>>
                 \/ /\ Free /\ owned /\ ~published /\ ~(ready /\ publishable)
                    /\ \E complete \in Completeness : Cleanup(retired, complete)
              /\ UNCHANGED receipt
           \/ /\ published
              /\ resolve(IF r.owner = own THEN "committed"
                         ELSE IF flag THEN "cancelled"
                         ELSE IF collection # "active" THEN "failed"
                         ELSE "committed")
              /\ UNCHANGED <<document, points>>
           \/ /\ ready /\ ~publishable
              /\ \E complete \in Completeness : Cleanup(r.owner, complete)
              /\ resolve("failed")
           \/ /\ ready /\ publishable /\ PointsVerified(j)
              /\ CanPublish /\ PublishDocument
              /\ d = "committed" /\ UNCHANGED points
           \/ /\ ~published /\ ~ready
              /\ \E complete \in Completeness :
                    /\ IF owned THEN Cleanup(own, complete) ELSE UNCHANGED <<document, points>>
                    /\ IF flag /\ ~complete /\ (owned \/ document.status = "absent")
                         THEN Free /\ d = "verifying" /\ UNCHANGED receipt
                         ELSE resolve(IF flag THEN "cancelled" ELSE "failed")

(* Mutant: an open decision is reported as a publication.                  *)
ToldEarly(d) == IF d \in {"committed", "verifying"} THEN "published" ELSE d

(* What a caller is told about a decision; the checkpoint of the attempt   *)
(* follows it unless that write fails.                                     *)
Told(d) == IF d = "committed" THEN "published" ELSE d

FollowUp(j, d, cancel) ==
    \/ UNCHANGED checkpoint
    \/ /\ d # "verifying" /\ j \notin marking
       /\ checkpoint[j].attempt = receipt[j].attempt /\ checkpoint[j].state \in {"active", d}
       /\ checkpoint' = [checkpoint EXCEPT ![j] =
                            FinishedCheckpoint(j, d, cancel \/ receipt[j].cancel)]

(* `expected` is the attempt the caller acts for, 0 if it does not say.    *)
RecoverPublication(j, expected, cancel, o) ==
    LET c == checkpoint[j] r == receipt[j] IN
    /\ \/ o = "unavailable" /\ UNCHANGED <<checkpoint, receipt, document, points>>
       \/ /\ CancelledEarly(j) /\ expected \in {0, c.attempt}
          /\ RetireCancelled(j, o)
       \/ /\ ~CancelledEarly(j)
          /\ \/ r.outcome = "none"
             \/ RetriedSince(j) /\ expected \in {0, c.attempt}
          /\ o = "none" /\ UNCHANGED <<checkpoint, receipt, document, points>>
       \/ /\ ~CancelledEarly(j) /\ ~(RetriedSince(j) /\ expected \in {0, c.attempt})
          /\ r.outcome = "committed" \/ (r.outcome # "none" /\ expected \in {0, r.attempt})
          /\ \E d \in {"committed", "failed", "cancelled", "verifying"} :
                /\ \/ Decide(j, cancel, d)
                   \/ r.outcome = d /\ UNCHANGED <<receipt, document, points>>
                /\ FollowUp(j, d, cancel) /\ o = Told(d)
    /\ UNCHANGED <<collection, guard, marking>>
=============================================================================
