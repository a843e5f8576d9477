--------------------------- MODULE PublicationProofs ---------------------------
(***************************************************************************)
(* Theorems about QueuePublication: the queue, the threads it starts and   *)
(* the publication authority together.                                     *)
(***************************************************************************)
EXTENDS QueuePublication, SequenceTheorems, TLAPS

(* What a thread knows.  n is its record and g the holder of the guards,   *)
(* r the receipt of its job and d the document.                            *)

(* The thread works on a job, and has what its next step uses.             *)
Equipped(n) ==
    /\ n.job \in Jobs
    /\ n.pc \in {"claim", "chunks", "manifest"} => n.out # << >>
    /\ n.pc \in {"chunks", "manifest", "index"} => n.lineage \in Handlers
    /\ n.pc \in {"recover", "restart", "begin", "identify", "outputs", "produced",
                 "claim", "chunks", "manifest", "index"} => n.next \in 1..Batches

(* Where a thread may hold the guards.  One that has them to publish has a *)
(* document of its own, and then the pending receipt of its own intent.    *)
Holders == Guarded \cup {"decide", "publish", "dup_decide", "dup_commit"}

Publishing(h, n, g, r, d) ==
    /\ g = h => n.pc \in Holders
    /\ n.pc \in {"decide", "publish", "dup_decide", "dup_commit"} => g = h
    /\ n.pc = "dup" /\ g = h => d.status # "absent"
    /\ n.pc \in {"intent", "decide", "publish"} /\ g = h => d.owner = <<n.job, n.attempt>>
    /\ n.pc \in {"decide", "publish"} => r.attempt = n.attempt /\ r.owner = d.owner
    /\ n.pc = "publish" => r.outcome = "pending"

(* A thread that is past the commit has a committed receipt.               *)
Committed(n, r) == n.pc \in {"settle", "published"} => r.outcome = "committed"

Informed(h, n, g, r, d) ==
    (n.pc # "idle" => Equipped(n)) /\ Publishing(h, n, g, r, d) /\ Committed(n, r)

RunInv(h) == Informed(h, run[h], guard, receipt[run[h].job], document)

(* A call holds the row of a job that is owned, or polled when it has      *)
(* succeeded; what it learnt of a publication is still so.                 *)
Holding(c, P, T, r) ==
    /\ c # NoCall => P = "owned" \/ (P = "succeeded" /\ c.why = "poll")
    /\ c.why = "ack" => r.outcome = "committed" /\ ~(c.stage = "apply" /\ c.note = "none")
    /\ c.stage = "apply" /\ c.note = "published" => r.outcome = "committed" /\ r.attempt = T
    /\ P = "succeeded" => r.outcome = "committed" /\ r.attempt = T
    /\ P = "owned" => T # 0

CallInv(j) == Holding(call[j], phase[j], tries[j], receipt[j])

StoreTyped ==
    /\ checkpoint \in [Jobs -> Checkpoint] /\ receipt \in [Jobs -> Receipt]
    /\ document \in Document
    /\ points \in [1..Batches -> {Nobody} \cup (Token \X Handlers)]
    /\ collection \in {"active", "archived"} /\ guard \in Handlers \cup {NoHandler}
    /\ marking \subseteq Jobs

(* A receipt has an attempt exactly when it has an outcome, and then an    *)
(* owner; a document that was written has an owner and a version.          *)
ReceiptOK(r) == /\ r.attempt = 0 <=> r.outcome = "none"
                /\ r.outcome # "none" => r.owner \in Token

DocumentOK(d) == IF d.status = "absent" THEN d.owner = Nobody
                 ELSE d.owner \in Token /\ d.lineage \in Handlers

StoreInv == StoreTyped /\ (\A j \in Jobs : ReceiptOK(receipt[j])) /\ DocumentOK(document)

QueueTyped ==
    /\ phase \in [Jobs -> Lifecycle!Phase] /\ tries \in [Jobs -> 0..MaxTries]
    /\ grants \in [Jobs -> 0..MaxGrants] /\ call \in [Jobs -> Call \cup {NoCall}]
    /\ deleting \in BOOLEAN

PublicationInv ==
    /\ StoreInv
    /\ run \in [Handlers -> Run] /\ \A h \in Handlers : RunInv(h)
    /\ QueueTyped /\ \A j \in Jobs : CallInv(j)
    /\ deleting => document.status # "absent"

-----------------------------------------------------------------------------
(* What a step may do to the store *)

(* A receipt keeps its decision; an open one may be decided, and one that  *)
(* failed may be followed by the intent of another attempt.                *)
Same(r, s) == s.outcome = r.outcome /\ s.attempt = r.attempt /\ s.owner = r.owner

Evolves(r, s) ==
    \/ Same(r, s)
    \/ r.outcome = "pending" /\ s.attempt = r.attempt /\ s.owner = r.owner
    \/ r.outcome \in {"none", "failed"} /\ s.outcome = "pending"

(* Nothing that the holder of the guards relies on changes.                *)
Quiet == document' = document /\ \A j \in Jobs : Same(receipt[j], receipt'[j])

StoreStep == /\ StoreInv' /\ \A j \in Jobs : Evolves(receipt[j], receipt'[j])
             /\ document.status # "absent" => document'.status # "absent"

LEMMA CleanupKeeps ==
    ASSUME StoreInv, NEW t \in Token, NEW complete \in BOOLEAN, Cleanup(t, complete)
    PROVE  /\ document' \in Document /\ DocumentOK(document')
           /\ points' \in [1..Batches -> {Nobody} \cup (Token \X Handlers)]
           /\ document.status # "absent" => document'.status # "absent"
<1> DEFINE P == [1..Batches -> {Nobody} \cup (Token \X Handlers)]
<1>1. document \in Document /\ points \in P /\ NoPoints \in P
  BY DEF StoreInv, StoreTyped, NoPoints
<1>2. CASE document.owner # t
  BY <1>1, <1>2 DEF Cleanup, StoreInv
<1>3. CASE document.owner = t
  <2>1. document.status # "absent" /\ document.owner \in Token /\ document.lineage \in Handlers
    BY <1>3 DEF StoreInv, DocumentOK, Token, Nobody
  <2>2. Hidden \in Document /\ DocumentOK(Hidden) /\ Hidden.status # "absent"
    BY <1>1, <2>1 DEF Hidden, Document, DocumentOK
  <2>3. \A clean \in BOOLEAN : \A d \in Unfinished(clean) :
            d \in Document /\ DocumentOK(d) /\ d.status # "absent"
    BY <1>1, <2>1, <2>2 DEF Unfinished, Hidden, Document, DocumentOK
  <2>4. PICK clean \in {TRUE, complete} :
            /\ points' = IF clean THEN NoPoints ELSE points
            /\ IF document.status = "deleted" THEN UNCHANGED document
               ELSE IF complete THEN document' = Hidden
               ELSE document' \in Unfinished(clean)
    BY <1>3 DEF Cleanup
  <2>5. points' \in P
    BY <1>1, <2>4
  <2>6. document' \in Document /\ DocumentOK(document') /\ document'.status # "absent"
    BY <1>1, <2>1, <2>2, <2>3, <2>4 DEF StoreInv
  <2> QED
    BY <2>5, <2>6
<1> QED
  BY <1>2, <1>3

(* The rows the store writes are rows.                                     *)
LEMMA CheckpointRows ==
    ASSUME StoreTyped, NEW j \in Jobs
    PROVE  /\ \A a \in 0..MaxTries : BegunCheckpoint(j, a) \in Checkpoint
           /\ \A outputs \in Seq(Handlers) : SavedCheckpoint(j, outputs) \in Checkpoint
           /\ \A state \in {"failed", "cancelled", "committed"}, cancel \in BOOLEAN :
                 FinishedCheckpoint(j, state, cancel) \in Checkpoint
<1>1. checkpoint[j] \in Checkpoint
  BY DEF StoreTyped
<1>2. << >> \in Seq(Handlers)
  OBVIOUS
<1>3. \A a \in 0..MaxTries : FreshCheckpoint(a) \in Checkpoint
  BY <1>2 DEF FreshCheckpoint, Checkpoint
<1>4. \A a \in 0..MaxTries : BegunCheckpoint(j, a) \in Checkpoint
  BY <1>1, <1>3 DEF BegunCheckpoint
<1>5. \A outputs \in Seq(Handlers) : SavedCheckpoint(j, outputs) \in Checkpoint
  BY <1>1 DEF SavedCheckpoint, Checkpoint
<1>6. ASSUME NEW state \in {"failed", "cancelled", "committed"}, NEW cancel \in BOOLEAN
      PROVE  FinishedCheckpoint(j, state, cancel) \in Checkpoint
  BY <1>1, <1>2 DEF FinishedCheckpoint, Checkpoint
<1> QED
  BY <1>4, <1>5, <1>6

LEMMA CheckpointWrite ==
    ASSUME StoreTyped, NEW j \in Jobs, NEW c \in Checkpoint,
           checkpoint' = [checkpoint EXCEPT ![j] = c]
    PROVE  checkpoint' \in [Jobs -> Checkpoint]
BY DEF StoreTyped

(* A decision is final, and whoever takes it learns it.                    *)
LEMMA ResolvedRow ==
    ASSUME NEW r \in Receipt, ReceiptOK(r), r.outcome # "none",
           NEW outcome \in {"committed", "failed", "cancelled"}
    PROVE  /\ Resolved(r, outcome) \in Receipt /\ ReceiptOK(Resolved(r, outcome))
           /\ Evolves(r, Resolved(r, outcome))
           /\ Resolved(r, outcome).outcome \in {"committed", "failed", "cancelled"}
           /\ r.outcome \in {"pending", "committed"} /\ outcome = "committed" =>
                 Resolved(r, outcome).outcome = "committed"
<1> DEFINE s == Resolved(r, outcome)
<1>1. s \in Receipt
  BY DEF Resolved, Receipt
<1>2. /\ s.attempt = r.attempt /\ s.owner = r.owner
      /\ s.outcome = IF r.outcome # "pending" THEN r.outcome
                     ELSE IF r.cancel /\ outcome = "failed" THEN "cancelled" ELSE outcome
  BY DEF Resolved, Receipt
<1> HIDE DEF s
<1>3. r.outcome \in {"none", "pending", "committed", "failed", "cancelled"}
  BY DEF Receipt
<1>4. s.outcome \in {"committed", "failed", "cancelled"}
  BY <1>2, <1>3
<1>5. ReceiptOK(s)
  BY <1>2, <1>4 DEF ReceiptOK
<1>6. Evolves(r, s)
  BY <1>2, <1>3 DEF Evolves, Same
<1>7. r.outcome \in {"pending", "committed"} /\ outcome = "committed" => s.outcome = "committed"
  BY <1>2
<1> QED
  BY <1>1, <1>4, <1>5, <1>6, <1>7 DEF s

LEMMA ReceiptWrite ==
    ASSUME StoreInv, NEW j \in Jobs, NEW s \in Receipt, ReceiptOK(s), Evolves(receipt[j], s),
           receipt' = [receipt EXCEPT ![j] = s]
    PROVE  /\ receipt' \in [Jobs -> Receipt] /\ receipt'[j] = s
           /\ \A k \in Jobs : ReceiptOK(receipt'[k]) /\ Evolves(receipt[k], receipt'[k])
           /\ \A k \in Jobs \ {j} : receipt'[k] = receipt[k]
<1>1. receipt \in [Jobs -> Receipt] /\ \A k \in Jobs : ReceiptOK(receipt[k])
  BY DEF StoreInv, StoreTyped
<1>2. \A k \in Jobs : Evolves(receipt[k], receipt[k])
  BY DEF Evolves, Same
<1> QED
  BY <1>1, <1>2

LEMMA ReceiptKept ==
    ASSUME StoreInv, UNCHANGED receipt
    PROVE  /\ receipt' \in [Jobs -> Receipt]
           /\ \A k \in Jobs : /\ ReceiptOK(receipt'[k]) /\ Evolves(receipt[k], receipt'[k])
                              /\ Same(receipt[k], receipt'[k])
BY DEF StoreInv, StoreTyped, Evolves, Same

LEMMA DocumentKept ==
    ASSUME StoreInv, UNCHANGED <<document, points>>
    PROVE  /\ document' \in Document /\ DocumentOK(document')
           /\ points' \in [1..Batches -> {Nobody} \cup (Token \X Handlers)]
           /\ document.status # "absent" => document'.status # "absent"
BY DEF StoreInv, StoreTyped

LEMMA PublishWrites ==
    ASSUME StoreInv, CanPublish, PublishDocument
    PROVE  /\ document' \in Document /\ DocumentOK(document') /\ document'.status # "absent"
           /\ receipt' \in [Jobs -> Receipt]
           /\ \A k \in Jobs : ReceiptOK(receipt'[k]) /\ Evolves(receipt[k], receipt'[k])
           /\ \A k \in Jobs : Awaiting(k) => receipt'[k].outcome = "committed"
<1>1. /\ receipt \in [Jobs -> Receipt] /\ document \in Document /\ DocumentOK(document)
      /\ \A k \in Jobs : ReceiptOK(receipt[k])
  BY DEF StoreInv, StoreTyped
<1>2. document.status # "absent" /\ document' = [document EXCEPT !.status = "published"]
  BY DEF CanPublish, PublishDocument
<1>3. document' \in Document /\ DocumentOK(document') /\ document'.status # "absent"
  BY <1>1, <1>2 DEF Document, DocumentOK
<1>4. ASSUME NEW k \in Jobs
      PROVE  /\ receipt'[k] \in Receipt /\ ReceiptOK(receipt'[k])
             /\ Evolves(receipt[k], receipt'[k])
             /\ Awaiting(k) => receipt'[k].outcome = "committed"
  <2> DEFINE r == receipt[k]  s == [r EXCEPT !.outcome = "committed"]
  <2>1. receipt'[k] = IF Awaiting(k) THEN s ELSE r
    BY DEF PublishDocument
  <2>2. Awaiting(k) => r.outcome = "pending"
    BY DEF Awaiting
  <2>3. r \in Receipt /\ ReceiptOK(r)
    BY <1>1
  <2>4. s \in Receipt /\ s.outcome = "committed" /\ s.attempt = r.attempt /\ s.owner = r.owner
    BY <2>3 DEF Receipt
  <2> HIDE DEF r, s
  <2>5. r.outcome = "pending" => ReceiptOK(s) /\ Evolves(r, s)
    BY <2>3, <2>4 DEF ReceiptOK, Evolves
  <2>6. Evolves(r, r)
    BY DEF Evolves, Same
  <2> QED
    BY <2>1, <2>2, <2>3, <2>4, <2>5, <2>6 DEF r
<1>5. receipt' = [k \in Jobs |-> IF Awaiting(k) THEN [receipt[k] EXCEPT !.outcome = "committed"]
                                 ELSE receipt[k]]
  BY DEF PublishDocument
<1>6. receipt' \in [Jobs -> Receipt]
  <2>1. \A k \in Jobs : receipt'[k] \in Receipt
    BY <1>4
  <2> QED
    BY <1>5, <2>1
<1> QED
  BY <1>3, <1>4, <1>6

-----------------------------------------------------------------------------
(* Recovery, by whoever asks *)

(* What recovery may do to the document and the receipts: without the      *)
(* guards, nothing.                                                        *)
ReceiptsEvolve ==
    /\ receipt' \in [Jobs -> Receipt]
    /\ \A k \in Jobs : ReceiptOK(receipt'[k]) /\ Evolves(receipt[k], receipt'[k])

DocumentTyped ==
    /\ document' \in Document /\ DocumentOK(document')
    /\ document.status # "absent" => document'.status # "absent"
    /\ points' \in [1..Batches -> {Nobody} \cup (Token \X Handlers)]

Recovered(j) == DocumentTyped /\ ReceiptsEvolve /\ (~Free => Quiet)

LEMMA DecideWrites ==
    ASSUME StoreInv, NEW j \in Jobs, NEW cancel \in BOOLEAN, NEW d, Decide(j, cancel, d)
    PROVE  Recovered(j) /\ (d = "committed" => receipt'[j].outcome = "committed")
<1> DEFINE r == receipt[j]
           own == <<j, r.attempt>>
           owned == document.owner = r.owner
           flag == cancel \/ r.cancel
           published == owned /\ document.status = "published"
           ready == owned /\ ~published /\ r.ready /\ ~flag
           publishable == collection = "active" /\ document.status = "processing"
           retired == IF ready THEN r.owner ELSE own
           resolve(outcome) == /\ receipt' = [receipt EXCEPT ![j] = Resolved(r, outcome)]
                               /\ d = Resolved(r, outcome).outcome
<1>1. r.outcome = "pending" /\ (Free \/ d = "verifying")
  BY DEF Decide
<1>2. r \in Receipt /\ ReceiptOK(r)
  BY DEF StoreInv, StoreTyped
<1>3. own \in Token /\ r.owner \in Token
  BY <1>1, <1>2, PublicationAssumption DEF ReceiptOK, Receipt, Token
<1>4. \A complete \in Completeness : complete \in BOOLEAN
  BY DEF Completeness
<1>5. ASSUME NEW outcome \in {"committed", "failed", "cancelled"}, resolve(outcome)
      PROVE  ReceiptsEvolve /\ Free /\ (d = "committed" => receipt'[j].outcome = "committed")
  <2>1. /\ Resolved(r, outcome) \in Receipt /\ ReceiptOK(Resolved(r, outcome))
        /\ Evolves(r, Resolved(r, outcome))
        /\ Resolved(r, outcome).outcome \in {"committed", "failed", "cancelled"}
    BY <1>1, <1>2, ResolvedRow
  <2>2. Free
    BY <1>1, <1>5, <2>1
  <2>3. receipt'[j] = Resolved(r, outcome) /\ ReceiptsEvolve
    BY <1>5, <2>1, ReceiptWrite DEF ReceiptsEvolve
  <2> QED
    BY <1>5, <2>2, <2>3
<1>6. CASE /\ d = "verifying"
           /\ \/ UNCHANGED <<document, points>>
              \/ /\ Free /\ owned /\ ~published /\ ~(ready /\ publishable)
                 /\ \E complete \in Completeness : Cleanup(retired, complete)
           /\ UNCHANGED receipt
  <2>1. ReceiptsEvolve /\ \A k \in Jobs : Same(receipt[k], receipt'[k])
    BY <1>6, ReceiptKept DEF ReceiptsEvolve
  <2>2. CASE UNCHANGED <<document, points>>
    <3>1. DocumentTyped
      BY <2>2, DocumentKept DEF DocumentTyped
    <3> QED
      BY <1>6, <2>1, <2>2, <3>1 DEF Recovered, Quiet
  <2>3. CASE Free /\ \E complete \in Completeness : Cleanup(retired, complete)
    <3>1. retired \in Token
      BY <1>3
    <3>2. DocumentTyped
      BY <1>4, <2>3, <3>1, CleanupKeeps DEF DocumentTyped
    <3> QED
      BY <1>6, <2>1, <2>3, <3>2 DEF Recovered
  <2> QED
    BY <1>6, <2>2, <2>3
<1>7. CASE /\ published
           /\ resolve(IF r.owner = own THEN "committed"
                      ELSE IF flag THEN "cancelled"
                      ELSE IF collection # "active" THEN "failed"
                      ELSE "committed")
           /\ UNCHANGED <<document, points>>
  <2>1. DocumentTyped
    BY <1>7, DocumentKept DEF DocumentTyped
  <2> QED
    BY <1>5, <1>7, <2>1 DEF Recovered
<1>8. CASE /\ ready /\ ~publishable
           /\ \E complete \in Completeness : Cleanup(r.owner, complete)
           /\ resolve("failed")
  <2>1. DocumentTyped
    BY <1>3, <1>4, <1>8, CleanupKeeps DEF DocumentTyped
  <2> QED
    BY <1>5, <1>8, <2>1 DEF Recovered
<1>9. CASE /\ ready /\ publishable /\ PointsVerified(j)
           /\ CanPublish /\ PublishDocument
           /\ d = "committed" /\ UNCHANGED points
  <2>1. Awaiting(j) /\ Free
    BY <1>1, <1>9 DEF Awaiting
  <2>2. points' \in [1..Batches -> {Nobody} \cup (Token \X Handlers)]
    BY <1>9 DEF StoreInv, StoreTyped
  <2>3. /\ document' \in Document /\ DocumentOK(document') /\ ReceiptsEvolve
        /\ receipt'[j].outcome = "committed" /\ document'.status # "absent"
    BY <1>9, <2>1, PublishWrites DEF ReceiptsEvolve
  <2> QED
    BY <2>1, <2>2, <2>3 DEF Recovered, DocumentTyped
<1>10. CASE /\ ~published /\ ~ready
            /\ \E complete \in Completeness :
                  /\ IF owned THEN Cleanup(own, complete) ELSE UNCHANGED <<document, points>>
                  /\ IF flag /\ ~complete /\ (owned \/ document.status = "absent")
                       THEN Free /\ d = "verifying" /\ UNCHANGED receipt
                       ELSE resolve(IF flag THEN "cancelled" ELSE "failed")
  <2>1. PICK complete \in Completeness :
                  /\ IF owned THEN Cleanup(own, complete) ELSE UNCHANGED <<document, points>>
                  /\ IF flag /\ ~complete /\ (owned \/ document.status = "absent")
                       THEN Free /\ d = "verifying" /\ UNCHANGED receipt
                       ELSE resolve(IF flag THEN "cancelled" ELSE "failed")
    BY <1>10
  <2>2. DocumentTyped
    <3>1. CASE owned
      BY <1>3, <1>4, <2>1, <3>1, CleanupKeeps DEF DocumentTyped
    <3>2. CASE ~owned
      BY <2>1, <3>2, DocumentKept DEF DocumentTyped
    <3> QED
      BY <3>1, <3>2
  <2>3. CASE Free /\ d = "verifying" /\ UNCHANGED receipt
    BY <2>2, <2>3, ReceiptKept DEF Recovered, ReceiptsEvolve
  <2>4. CASE resolve(IF flag THEN "cancelled" ELSE "failed")
    BY <1>5, <2>2, <2>4 DEF Recovered
  <2> QED
    BY <2>1, <2>3, <2>4
<1> QED
  BY <1>6, <1>7, <1>8, <1>9, <1>10 DEF Decide

LEMMA RetireWrites ==
    ASSUME StoreInv, NEW j \in Jobs, CancelledEarly(j), NEW o, RetireCancelled(j, o)
    PROVE  /\ Recovered(j) /\ checkpoint' \in [Jobs -> Checkpoint]
           /\ o \in {"verifying", "cancelled"}
<1> DEFINE c == checkpoint[j]
           own == <<j, c.attempt>>
           mine == c.named /\ document.owner = own
           missing == c.named /\ document.status = "absent"
<1>1. /\ c.named => Free
      /\ UNCHANGED receipt
  BY DEF RetireCancelled
<1>2. PICK complete \in Completeness :
              /\ IF mine THEN Cleanup(own, complete) ELSE UNCHANGED <<document, points>>
              /\ IF ~complete /\ (mine \/ missing)
                   THEN o = "verifying" /\ UNCHANGED checkpoint
                   ELSE /\ o = "cancelled" /\ j \notin marking
                        /\ checkpoint' = [checkpoint EXCEPT ![j] =
                                             FinishedCheckpoint(j, "cancelled", TRUE)]
  BY DEF RetireCancelled
<1>3. complete \in BOOLEAN
  BY DEF Completeness
<1>4. checkpoint' \in [Jobs -> Checkpoint] /\ o \in {"verifying", "cancelled"}
  <2>1. FinishedCheckpoint(j, "cancelled", TRUE) \in Checkpoint /\ checkpoint \in [Jobs -> Checkpoint]
    BY CheckpointRows DEF StoreInv, StoreTyped
  <2> QED
    BY <1>2, <2>1
<1>5. ReceiptsEvolve /\ \A k \in Jobs : Same(receipt[k], receipt'[k])
  BY <1>1, ReceiptKept DEF ReceiptsEvolve
<1>6. CASE mine
  <2>1. document.owner \in Token
    <3>1. document.owner # Nobody
      BY <1>6 DEF Nobody
    <3> QED
      BY <3>1 DEF StoreInv, DocumentOK
  <2>2. DocumentTyped
    BY <1>2, <1>3, <1>6, <2>1, CleanupKeeps DEF DocumentTyped
  <2> QED
    BY <1>1, <1>4, <1>5, <1>6, <2>2 DEF Recovered
<1>7. CASE ~mine
  <2>1. UNCHANGED <<document, points>>
    BY <1>2, <1>7
  <2>2. DocumentTyped
    BY <2>1, DocumentKept DEF DocumentTyped
  <2> QED
    BY <1>4, <1>5, <2>1, <2>2 DEF Recovered, Quiet
<1> QED
  BY <1>6, <1>7

(* What a caller is told is so: published only of a committed receipt, and *)
(* of a committed receipt nothing else.                                    *)
LEMMA RecoverWrites ==
    ASSUME StoreInv, NEW j \in Jobs, NEW cancel \in BOOLEAN, NEW expected, NEW o,
           RecoverPublication(j, expected, cancel, o)
    PROVE  /\ StoreStep /\ (~Free => Quiet) /\ UNCHANGED <<collection, guard, marking>>
           /\ o = "published" => receipt'[j].outcome = "committed"
           /\ receipt[j].outcome = "committed" => o \in {"published", "unavailable"}
<1> DEFINE c == checkpoint[j]  r == receipt[j]
<1>1. UNCHANGED <<collection, guard, marking>>
  BY DEF RecoverPublication
<1>2. /\ checkpoint \in [Jobs -> Checkpoint] /\ c \in Checkpoint /\ r \in Receipt
      /\ collection \in {"active", "archived"} /\ guard \in Handlers \cup {NoHandler}
      /\ marking \subseteq Jobs
  BY DEF StoreInv, StoreTyped
<1>3. ASSUME Recovered(j), checkpoint' \in [Jobs -> Checkpoint]
      PROVE  StoreStep /\ (~Free => Quiet)
  BY <1>1, <1>2, <1>3
     DEF StoreStep, Recovered, DocumentTyped, ReceiptsEvolve, StoreInv, StoreTyped
<1>4. ASSUME UNCHANGED <<receipt, document, points>>
      PROVE  Recovered(j)
  <2>1. ReceiptsEvolve /\ \A k \in Jobs : Same(receipt[k], receipt'[k])
    BY <1>4, ReceiptKept DEF ReceiptsEvolve
  <2>2. DocumentTyped
    BY <1>4, DocumentKept DEF DocumentTyped
  <2> QED
    BY <1>4, <2>1, <2>2 DEF Recovered, Quiet
<1>5. CASE o = "unavailable" /\ UNCHANGED <<checkpoint, receipt, document, points>>
  BY <1>1, <1>2, <1>3, <1>4, <1>5
<1>6. CASE CancelledEarly(j) /\ RetireCancelled(j, o)
  BY <1>1, <1>3, <1>6, RetireWrites DEF CancelledEarly
<1>7. CASE /\ r.outcome = "none" \/ RetriedSince(j)
           /\ o = "none" /\ UNCHANGED <<checkpoint, receipt, document, points>>
  BY <1>1, <1>2, <1>3, <1>4, <1>7 DEF RetriedSince
<1>8. CASE \E d \in {"committed", "failed", "cancelled", "verifying"} :
                /\ \/ Decide(j, cancel, d)
                   \/ r.outcome = d /\ UNCHANGED <<receipt, document, points>>
                /\ FollowUp(j, d, cancel) /\ o = Told(d)
  <2>1. PICK d \in {"committed", "failed", "cancelled", "verifying"} :
                /\ \/ Decide(j, cancel, d)
                   \/ r.outcome = d /\ UNCHANGED <<receipt, document, points>>
                /\ FollowUp(j, d, cancel) /\ o = Told(d)
    BY <1>8
  <2>2. checkpoint' \in [Jobs -> Checkpoint]
    <3>1. CASE UNCHANGED checkpoint
      BY <1>2, <3>1
    <3>2. CASE /\ d # "verifying"
               /\ checkpoint' = [checkpoint EXCEPT ![j] =
                                    FinishedCheckpoint(j, d, cancel \/ receipt[j].cancel)]
      <4>1. (cancel \/ receipt[j].cancel) \in BOOLEAN
        BY <1>2 DEF Receipt
      <4>2. FinishedCheckpoint(j, d, cancel \/ receipt[j].cancel) \in Checkpoint
        BY <3>2, <4>1, CheckpointRows DEF StoreInv
      <4> QED
        BY <1>2, <3>2, <4>2
    <3> QED
      BY <2>1, <3>1, <3>2 DEF FollowUp
  <2>3. o = "published" <=> d = "committed"
    BY <2>1 DEF Told
  <2>4. CASE Decide(j, cancel, d)
    <3>1. r.outcome = "pending"
      BY <2>4 DEF Decide
    <3> QED
      BY <1>1, <1>3, <2>2, <2>3, <2>4, <3>1, DecideWrites
  <2>5. CASE r.outcome = d /\ UNCHANGED <<receipt, document, points>>
    BY <1>1, <1>3, <1>4, <2>2, <2>3, <2>5
  <2> QED
    BY <2>1, <2>4, <2>5
<1> QED
  BY <1>5, <1>6, <1>7, <1>8 DEF RecoverPublication

-----------------------------------------------------------------------------
(* The steps of a thread *)

(* What every step of the system keeps.                                    *)
Kept == PublicationInv' /\ \A j \in Jobs : Evolves(receipt[j], receipt'[j])

(* A step of thread a leaves what another holder of the guards relies on.  *)
Fenced(a) == guard \notin {a, NoHandler} => Quiet /\ guard' = guard

(* Thread a goes on as n.                                                  *)
GoesOn(a, n) ==
    /\ n \in Run /\ run' = [run EXCEPT ![a] = n]
    /\ Informed(a, n, guard', receipt'[n.job], document')

LEMMA InformedStays ==
    ASSUME NEW h \in Handlers, NEW n \in Run, NEW g, NEW g2, NEW r, NEW s, NEW d, NEW d2,
           Informed(h, n, g, r, d), n.pc # "idle" => Evolves(r, s),
           g2 = g \/ g2 # h,
           g = h => g2 = h /\ d2 = d /\ (n.pc # "idle" => Same(r, s))
    PROVE  Informed(h, n, g2, s, d2)
<1>1. Committed(n, s)
  BY DEF Informed, Committed, Evolves, Same
<1>2. Publishing(h, n, g2, s, d2)
  BY DEF Informed, Publishing, Same, Holders, Guarded
<1> QED
  BY <1>1, <1>2 DEF Informed

LEMMA CallStays ==
    ASSUME NEW c, NEW P, NEW T, NEW r, NEW s, Holding(c, P, T, r), Evolves(r, s)
    PROVE  Holding(c, P, T, s)
BY DEF Holding, Evolves, Same

LEMMA ThreadStep ==
    ASSUME PublicationInv, NEW a \in Handlers, NEW n, StoreStep, Fenced(a), GoesOn(a, n),
           guard' \in {guard, a, NoHandler},
           UNCHANGED <<queue, call, deleting>>
    PROVE  Kept
<1>1. run \in [Handlers -> Run] /\ run' \in [Handlers -> Run] /\ run'[a] = n
  BY DEF PublicationInv, GoesOn
<1>2. ASSUME NEW h \in Handlers
      PROVE  RunInv(h)'
  <2>1. CASE h = a
    BY <1>1, <2>1 DEF RunInv, GoesOn
  <2>2. CASE h # a
    <3>1. run'[h] = run[h] /\ run[h] \in Run
      BY <1>1, <2>2 DEF GoesOn
    <3>3. Informed(h, run[h], guard, receipt[run[h].job], document)
      BY DEF PublicationInv, RunInv
    <3>4. run[h].pc # "idle" => run[h].job \in Jobs
      BY <3>3 DEF Informed, Equipped
    <3>5. run[h].pc # "idle" => Evolves(receipt[run[h].job], receipt'[run[h].job])
      BY <3>4 DEF StoreStep
    <3>6. h # NoHandler
      BY PublicationAssumption
    <3>7. guard = h => /\ guard' = h /\ document' = document
                       /\ run[h].pc # "idle" => Same(receipt[run[h].job], receipt'[run[h].job])
      BY <2>2, <3>4, <3>6 DEF Fenced, Quiet
    <3>8. guard' = guard \/ guard' # h
      BY <2>2, <3>6
    <3>9. Informed(h, run[h], guard', receipt'[run[h].job], document')
      BY <3>1, <3>3, <3>5, <3>7, <3>8, InformedStays
    <3> QED
      BY <3>1, <3>9 DEF RunInv
  <2> QED
    BY <2>1, <2>2
<1>3. ASSUME NEW j \in Jobs
      PROVE  CallInv(j)'
  <2>1. CallInv(j) /\ Evolves(receipt[j], receipt'[j])
    BY DEF PublicationInv, StoreStep
  <2> QED
    BY <2>1, CallStays DEF CallInv, queue
<1>4. QueueTyped'
  BY DEF PublicationInv, QueueTyped, queue
<1> QED
  BY <1>1, <1>2, <1>3, <1>4 DEF PublicationInv, StoreStep, Kept

(* The parts of a step of the store.                                       *)
LEMMA StoreParts ==
    ASSUME StoreInv, checkpoint' \in [Jobs -> Checkpoint], ReceiptsEvolve, DocumentTyped,
           collection' \in {"active", "archived"}, guard' \in Handlers \cup {NoHandler},
           marking' \subseteq Jobs
    PROVE  StoreStep
BY DEF StoreStep, StoreInv, StoreTyped, ReceiptsEvolve, DocumentTyped

LEMMA Still ==
    ASSUME StoreInv
    PROVE  /\ UNCHANGED receipt => ReceiptsEvolve
           /\ UNCHANGED <<document, points>> => DocumentTyped
           /\ UNCHANGED <<receipt, document>> => Quiet
           /\ UNCHANGED checkpoint => checkpoint' \in [Jobs -> Checkpoint]
           /\ UNCHANGED collection => collection' \in {"active", "archived"}
           /\ UNCHANGED guard => guard' \in Handlers \cup {NoHandler}
           /\ UNCHANGED marking => marking' \subseteq Jobs
<1>1. UNCHANGED receipt => ReceiptsEvolve /\ \A k \in Jobs : Same(receipt[k], receipt'[k])
  BY ReceiptKept DEF ReceiptsEvolve
<1>2. UNCHANGED <<document, points>> => DocumentTyped
  BY DocumentKept DEF DocumentTyped
<1> QED
  BY <1>1, <1>2 DEF StoreInv, StoreTyped, Quiet

(* How a thread may go on: it stops, has a result, or an exception.        *)
LEMMA Row ==
    ASSUME PublicationInv, NEW h \in Handlers
    PROVE  /\ run[h] \in Run /\ run \in [Handlers -> Run]
           /\ Informed(h, run[h], guard, receipt[run[h].job], document)
           /\ Live(h) => Equipped(run[h])
           /\ run[h].pc \notin Holders => guard # h
           /\ Live(h) => run[h].job \in Jobs /\ receipt[run[h].job] \in Receipt
                         /\ checkpoint[run[h].job] \in Checkpoint
           /\ StoreInv
BY DEF PublicationInv, RunInv, Informed, Equipped, Publishing, StoreInv, StoreTyped, Live

LEMMA EndsRun ==
    ASSUME PublicationInv, NEW h \in Handlers, End(h), guard' # h
    PROVE  GoesOn(h, Idle)
<1>1. << >> \in Seq(Handlers)
  OBVIOUS
<1>2. Idle \in Run
  BY <1>1, PublicationAssumption DEF Idle, Run, Pc, Error
<1>3. Idle.pc = "idle"
  BY DEF Idle
<1>4. Informed(h, Idle, guard', receipt'[Idle.job], document')
  BY <1>3 DEF Informed, Publishing, Committed
<1> QED
  BY <1>2, <1>4 DEF End, GoesOn

Reporting(j, a, g, pc, lost) == [Started(j, a, g) EXCEPT !.pc = pc, !.lost = lost]

LEMMA StartedRow ==
    ASSUME NEW j \in Jobs, NEW a \in 1..MaxTries, NEW g \in Nat
    PROVE  /\ Started(j, a, g) \in Run /\ Started(j, a, g).pc = "recover"
           /\ Started(j, a, g).job = j /\ Started(j, a, g).attempt = a
           /\ Started(j, a, g).grant = g
           /\ Started(j, a, g).next = 1 /\ Equipped(Started(j, a, g))
<1>1. << >> \in Seq(Handlers)
  OBVIOUS
<1>2. Idle \in Run /\ Idle.next = 1 /\ Idle.lost = FALSE
  BY <1>1, PublicationAssumption DEF Idle, Run, Pc, Error
<1> DEFINE s == Started(j, a, g)
<1>3. s \in Run
  BY <1>2 DEF Started, Run, Pc
<1>4. s.pc = "recover" /\ s.job = j /\ s.attempt = a /\ s.grant = g /\ s.next = 1 /\ s.lost = FALSE
  BY <1>2 DEF Started, Run
<1> HIDE DEF s
<1>5. Equipped(s)
  BY <1>4, PublicationAssumption DEF Equipped
<1> QED
  BY <1>3, <1>4, <1>5 DEF s

LEMMA ReportingRow ==
    ASSUME NEW j \in Jobs, NEW a \in 1..MaxTries, NEW g \in Nat, NEW lost \in BOOLEAN,
           NEW pc \in {"published", "failed"}
    PROVE  LET n == Reporting(j, a, g, pc, lost) IN
           /\ n \in Run /\ n.pc = pc /\ n.job = j /\ n.attempt = a /\ n.grant = g
           /\ n.lost = lost /\ Equipped(n)
<1> DEFINE s == Started(j, a, g)  n == Reporting(j, a, g, pc, lost)
<1>1. s \in Run /\ s.job = j /\ s.attempt = a /\ s.grant = g
  BY StartedRow
<1>2. n = [s EXCEPT !.pc = pc, !.lost = lost]
  BY DEF Reporting
<1> HIDE DEF s, n
<1>3. n \in Run
  BY <1>1, <1>2 DEF Run, Pc
<1>4. n.pc = pc /\ n.job = j /\ n.attempt = a /\ n.grant = g /\ n.lost = lost
  BY <1>1, <1>2 DEF Run
<1>5. Equipped(n)
  BY <1>4 DEF Equipped
<1> QED
  BY <1>3, <1>4, <1>5 DEF n

LEMMA DoneRun ==
    ASSUME PublicationInv, NEW h \in Handlers, Live(h), NEW pc \in {"published", "failed"},
           Done(h, pc), guard' # h, pc = "published" => receipt'[run[h].job].outcome = "committed"
    PROVE  \E n : GoesOn(h, n) /\ n.pc = pc /\ n.job = run[h].job /\ n.attempt = run[h].attempt
<1> DEFINE m == run[h]
           n == Reporting(m.job, m.attempt, m.grant, pc, m.lost)
<1>1. m \in Run /\ m.job \in Jobs /\ run \in [Handlers -> Run]
  BY Row
<1>2. m.attempt \in 1..MaxTries /\ m.grant \in Nat /\ m.lost \in BOOLEAN
  BY <1>1 DEF Run
<1>4. n \in Run /\ n.pc = pc /\ n.job = m.job /\ n.attempt = m.attempt /\ Equipped(n)
  BY <1>1, <1>2, ReportingRow
<1>5. run' = [run EXCEPT ![h] = n]
  BY <1>1 DEF Done, Reporting
<1> HIDE DEF n
<1>6. Informed(h, n, guard', receipt'[n.job], document')
  BY <1>4 DEF Informed, Publishing, Committed
<1> QED
  BY <1>4, <1>5, <1>6 DEF GoesOn

(* A thread that only moves on, or also learns something.                  *)
LEMMA Steps ==
    ASSUME PublicationInv, NEW h \in Handlers, NEW n \in Run,
           run' = [run EXCEPT ![h] = n], Equipped(n),
           Publishing(h, n, guard', receipt'[n.job], document'), Committed(n, receipt'[n.job])
    PROVE  GoesOn(h, n)
BY DEF GoesOn, Informed

LEMMA GotoRun ==
    ASSUME PublicationInv, NEW h \in Handlers, Live(h), NEW pc \in Pc \ {"idle"}, Goto(h, pc)
    PROVE  LET n == [run[h] EXCEPT !.pc = pc] IN
           /\ n \in Run /\ run' = [run EXCEPT ![h] = n]
           /\ n.pc = pc /\ n.job = run[h].job /\ n.attempt = run[h].attempt
           /\ n.out = run[h].out /\ n.lineage = run[h].lineage /\ n.next = run[h].next
<1>1. run[h] \in Run /\ run \in [Handlers -> Run]
  BY Row
<1> QED
  BY <1>1 DEF Goto, Run

LEMMA ThrowRun ==
    ASSUME PublicationInv, NEW h \in Handlers, Live(h), NEW e \in Error, Throw(h, e)
    PROVE  /\ \E n : GoesOn(h, n)
           /\ guard' \in {guard, NoHandler} /\ (guard # h => guard' = guard)
<1> DEFINE n == [run[h] EXCEPT !.pc = "except", !.error = e, !.cancel = @ \/ e = "cancel"]
<1>1. run[h] \in Run /\ run \in [Handlers -> Run] /\ run[h].job \in Jobs
  BY Row
<1>2. run' = [run EXCEPT ![h] = n]
  BY <1>1 DEF Throw
<1>3. n \in Run /\ n.pc = "except" /\ n.job = run[h].job
  BY <1>1 DEF Run, Pc
<1> HIDE DEF n
<1>4. Equipped(n) /\ Publishing(h, n, guard', receipt'[n.job], document')
      /\ Committed(n, receipt'[n.job])
  <2>1. guard' # h
    BY PublicationAssumption DEF Throw
  <2> QED
    BY <1>1, <1>3, <2>1 DEF Equipped, Publishing, Committed
<1>5. GoesOn(h, n)
  BY <1>2, <1>3, <1>4, Steps
<1> QED
  BY <1>5 DEF Throw

LEMMA Asked ==
    ASSUME PublicationInv, NEW h \in Handlers, Live(h), NEW expected, NEW cancel \in BOOLEAN,
           NEW o, RecoverPublication(run[h].job, expected, cancel, o), NEW n, GoesOn(h, n),
           UNCHANGED <<queue, call, deleting>>
    PROVE  Kept
<1>1. StoreStep /\ (~Free => Quiet) /\ guard' = guard
  BY Row, RecoverWrites
<1>2. Fenced(h)
  BY <1>1 DEF Fenced, Free
<1> QED
  BY <1>1, <1>2, ThreadStep

LEMMA RecoverKeeps ==
    ASSUME PublicationInv, NEW h \in Handlers, Recover(h) \/ Restart(h),
           UNCHANGED <<queue, call, deleting>>
    PROVE  Kept
<1> DEFINE j == run[h].job
<1>1. Live(h) /\ run[h].pc \in {"recover", "restart"}
  BY DEF Recover, Restart, At, Live
<1>2. PICK expected, o :
          /\ RecoverPublication(j, expected, FALSE, o)
          /\ \/ o = "published" /\ Done(h, "published")
             \/ Done(h, "failed") \/ End(h) \/ Goto(h, "restart")
             \/ run[h].pc = "restart" /\ Goto(h, "begin")
  <2>1. CASE Recover(h)
    <3>1. PICK o \in {"none", "published", "failed", "cancelled", "verifying", "unavailable"} :
              /\ RecoverPublication(run[h].job, Expected(h), FALSE, o)
              /\ CASE o = "published"                     -> Done(h, "published")
                   [] o = "cancelled"                     -> Done(h, "failed")
                   [] o \in {"verifying", "unavailable"}  -> End(h)
                   [] OTHER                               -> Goto(h, "restart")
      BY <2>1 DEF Recover
    <3> QED
      BY <3>1
  <2>2. CASE Restart(h)
    <3>1. PICK o \in {"none", "published", "failed", "cancelled", "verifying", "unavailable"} :
              /\ RecoverPublication(run[h].job, 0, FALSE, o)
              /\ CASE o = "published"                     -> Done(h, "published")
                   [] o \in {"cancelled", "unavailable"}  -> Done(h, "failed")
                   [] o = "verifying" -> IF CancelledEarly(run[h].job) THEN Done(h, "failed")
                                         ELSE End(h)
                   [] OTHER                               -> Goto(h, "begin")
      BY <2>2 DEF Restart
    <3> QED
      BY <2>2, <3>1 DEF Restart, At
  <2> QED
    BY <2>1, <2>2
<1>3. /\ j \in Jobs /\ o = "published" => receipt'[j].outcome = "committed"
      /\ guard' # h
  <2>1. guard # h
    BY <1>1, Row DEF Holders, Guarded
  <2> QED
    BY <1>1, <1>2, <2>1, Row, RecoverWrites
<1>4. \E n : GoesOn(h, n)
  <2>1. CASE o = "published" /\ Done(h, "published")
    BY <1>1, <1>3, <2>1, Row, DoneRun
  <2>2. CASE Done(h, "failed")
    BY <1>1, <1>3, <2>2, DoneRun
  <2>3. CASE End(h)
    BY <1>3, <2>3, EndsRun
  <2>4. ASSUME NEW pc \in {"restart", "begin"}, Goto(h, pc)
        PROVE  \E n : GoesOn(h, n)
    <3> DEFINE n == [run[h] EXCEPT !.pc = pc]
    <3>1. /\ n \in Run /\ run' = [run EXCEPT ![h] = n] /\ n.pc = pc /\ n.job = run[h].job
          /\ n.next = run[h].next
      BY <1>1, <2>4, GotoRun DEF Pc
    <3>2. Equipped(run[h])
      BY <1>1, Row
    <3> HIDE DEF n
    <3>3. Equipped(n) /\ Publishing(h, n, guard', receipt'[n.job], document')
          /\ Committed(n, receipt'[n.job])
      BY <1>1, <1>3, <3>1, <3>2 DEF Equipped, Publishing, Committed
    <3> QED
      BY <3>1, <3>3, Steps
  <2> QED
    BY <1>2, <2>1, <2>2, <2>3, <2>4
<1> QED
  BY <1>1, <1>2, <1>4, Asked

(* A step that writes nothing but the checkpoint.                          *)
LEMMA CheckpointStep ==
    ASSUME PublicationInv, NEW h \in Handlers, checkpoint' \in [Jobs -> Checkpoint],
           UNCHANGED <<receipt, document, points, collection, marking>>,
           guard' \in {guard, NoHandler}, guard # h => guard' = guard,
           NEW n, GoesOn(h, n), UNCHANGED <<queue, call, deleting>>
    PROVE  Kept
<1>1. StoreInv
  BY DEF PublicationInv
<1>2. ReceiptsEvolve /\ DocumentTyped /\ Quiet /\ collection' \in {"active", "archived"}
      /\ marking' \subseteq Jobs /\ guard' \in Handlers \cup {NoHandler}
  BY <1>1, Still DEF StoreInv, StoreTyped
<1>3. StoreStep
  BY <1>1, <1>2, StoreParts
<1>4. Fenced(h)
  BY <1>2 DEF Fenced
<1> QED
  BY <1>3, <1>4, ThreadStep

LEMMA BeginKeeps ==
    ASSUME PublicationInv, NEW h \in Handlers, Begin(h), UNCHANGED <<queue, call, deleting>>
    PROVE  Kept
<1> DEFINE j == run[h].job  c == BegunCheckpoint(j, run[h].attempt)
<1>1. Live(h) /\ run[h].pc = "begin"
  BY DEF Begin, At, Live
<1>2. /\ run[h] \in Run /\ run \in [Handlers -> Run] /\ j \in Jobs /\ StoreInv
      /\ Equipped(run[h]) /\ checkpoint \in [Jobs -> Checkpoint]
  BY <1>1, Row DEF StoreInv, StoreTyped
<1>3. c \in Checkpoint
  <2>1. run[h].attempt \in 0..MaxTries
    BY <1>2, PublicationAssumption DEF Run
  <2> QED
    BY <1>2, <2>1, CheckpointRows DEF StoreInv
<1>4. UNCHANGED <<receipt, document, points, collection, guard, marking>> /\ guard' # h
  BY <1>1, Row DEF Begin, Holders, Guarded
<1>5. CASE /\ checkpoint' = [checkpoint EXCEPT ![j] = c]
           /\ run' = [run EXCEPT ![h].pc = "identify", ![h].out = c.outputs,
                                 ![h].resumed = c.outputs # << >>, ![h].cancel = c.cancel]
  <2> DEFINE n == [run[h] EXCEPT !.pc = "identify", !.out = c.outputs,
                                 !.resumed = c.outputs # << >>, !.cancel = c.cancel]
  <2>1. run' = [run EXCEPT ![h] = n]
    BY <1>2, <1>5
  <2>2. c.outputs \in Seq(Handlers) /\ c.cancel \in BOOLEAN
    BY <1>3 DEF Checkpoint
  <2> HIDE DEF c
  <2>3. n \in Run /\ n.pc = "identify" /\ n.job = j /\ n.next = run[h].next
    BY <1>2, <2>2 DEF Run, Pc
  <2> HIDE DEF n
  <2>4. Equipped(n) /\ Publishing(h, n, guard', receipt'[n.job], document')
        /\ Committed(n, receipt'[n.job])
    BY <1>1, <1>2, <1>4, <2>3 DEF Equipped, Publishing, Committed
  <2>5. GoesOn(h, n)
    BY <2>1, <2>3, <2>4, Steps
  <2>6. checkpoint' \in [Jobs -> Checkpoint]
    BY <1>2, <1>3, <1>5 DEF c
  <2> QED
    BY <1>4, <2>5, <2>6, CheckpointStep
<1>6. CASE UNCHANGED checkpoint /\ Done(h, "failed")
  <2>1. PICK n : GoesOn(h, n)
    BY <1>1, <1>4, <1>6, DoneRun
  <2> QED
    BY <1>2, <1>4, <1>6, <2>1, CheckpointStep
<1> QED
  BY <1>5, <1>6 DEF Begin

LEMMA SaveKeeps ==
    ASSUME PublicationInv, NEW h \in Handlers, Live(h), NEW outputs \in Seq(Handlers),
           NEW pc \in {"dup", "outputs", "claim", "index"}, Save(h, outputs, pc),
           pc = "claim" => outputs # << >>, pc = "index" => run[h].lineage \in Handlers,
           pc # "dup" => run[h].next \in 1..Batches,
           guard # h,
           UNCHANGED <<queue, call, deleting>>
    PROVE  Kept
<1> DEFINE j == run[h].job
<1>1. /\ run[h] \in Run /\ run \in [Handlers -> Run] /\ j \in Jobs /\ StoreInv
      /\ checkpoint \in [Jobs -> Checkpoint] /\ checkpoint[j] \in Checkpoint
  BY Row DEF StoreInv, StoreTyped
<1>2. UNCHANGED <<receipt, document, points, collection, marking>>
  BY DEF Save
<1>3. CASE /\ checkpoint' = [checkpoint EXCEPT ![j] = SavedCheckpoint(j, outputs)]
           /\ run' = [run EXCEPT ![h].pc = pc, ![h].out = outputs,
                                 ![h].cancel = @ \/ checkpoint[j].cancel]
           /\ UNCHANGED guard
  <2> DEFINE n == [run[h] EXCEPT !.pc = pc, !.out = outputs, !.cancel = @ \/ checkpoint[j].cancel]
  <2>1. run' = [run EXCEPT ![h] = n]
    BY <1>1, <1>3
  <2>2. checkpoint[j].cancel \in BOOLEAN
    BY <1>1 DEF Checkpoint
  <2>3. /\ n \in Run /\ n.pc = pc /\ n.job = j /\ n.next = run[h].next /\ n.out = outputs
        /\ n.lineage = run[h].lineage
    BY <1>1, <2>2 DEF Run, Pc
  <2> HIDE DEF n
  <2>4. Equipped(n)
    BY <1>1, <2>3 DEF Equipped
  <2>5. Publishing(h, n, guard', receipt'[n.job], document') /\ Committed(n, receipt'[n.job])
    BY <1>2, <1>3, <2>3 DEF Publishing, Committed
  <2>6. GoesOn(h, n)
    BY <2>1, <2>3, <2>4, <2>5, Steps
  <2>7. SavedCheckpoint(j, outputs) \in Checkpoint
    BY <1>1, CheckpointRows DEF StoreInv
  <2>8. checkpoint' \in [Jobs -> Checkpoint]
    BY <1>1, <1>3, <2>7
  <2> QED
    BY <1>2, <1>3, <2>6, <2>8, CheckpointStep
<1>4. CASE UNCHANGED checkpoint /\ Throw(h, "owner")
  <2>1. PICK n : GoesOn(h, n)
    BY <1>4, ThrowRun DEF Error
  <2>2. guard' \in {guard, NoHandler} /\ (guard # h => guard' = guard)
    BY <1>4, ThrowRun DEF Error
  <2> QED
    BY <1>1, <1>2, <1>4, <2>1, <2>2, CheckpointStep
<1> QED
  BY <1>3, <1>4 DEF Save

LEMMA SavesKeep ==
    ASSUME PublicationInv, NEW h \in Handlers, Identify(h) \/ SaveOutputs(h) \/ Manifest(h),
           UNCHANGED <<queue, call, deleting>>
    PROVE  Kept
<1>1. Live(h) /\ run[h].pc \in {"identify", "produced", "manifest"}
  BY DEF Identify, SaveOutputs, Manifest, At, Live
<1>2. run[h] \in Run /\ Equipped(run[h]) /\ run[h].out \in Seq(Handlers) /\ guard # h
  BY <1>1, Row DEF Run, Holders, Guarded
<1>3. CASE Identify(h)
  <2> DEFINE pc == IF document.status = "published" THEN "dup" ELSE "outputs"
  <2>1. run[h].pc = "identify" /\ Save(h, run[h].out, pc)
    BY <1>3 DEF Identify, At
  <2>2. run[h].next \in 1..Batches
    BY <1>2, <2>1 DEF Equipped
  <2>3. pc \in {"dup", "outputs", "claim", "index"} /\ pc # "claim" /\ pc # "index"
    OBVIOUS
  <2> HIDE DEF pc
  <2> QED
    BY <1>1, <1>2, <2>1, <2>2, <2>3, SaveKeeps
<1>4. CASE SaveOutputs(h)
  <2>1. run[h].pc = "produced" /\ Save(h, <<h>>, "claim") /\ <<h>> \in Seq(Handlers) /\ <<h>> # << >>
    BY <1>4 DEF SaveOutputs, At
  <2>2. run[h].next \in 1..Batches
    BY <1>2, <2>1 DEF Equipped
  <2> QED
    BY <1>1, <1>2, <2>1, <2>2, SaveKeeps
<1>5. CASE Manifest(h)
  <2> DEFINE outputs == <<run[h].out[1], run[h].lineage>>
  <2>1. run[h].pc = "manifest" /\ Save(h, outputs, "index")
    BY <1>5 DEF Manifest, At
  <2>2. run[h].out # << >> /\ run[h].lineage \in Handlers /\ run[h].next \in 1..Batches
    BY <1>2, <2>1 DEF Equipped
  <2>3. run[h].out[1] \in Handlers
    BY <1>2, <2>2
  <2>4. outputs \in Seq(Handlers)
    BY <2>2, <2>3
  <2> HIDE DEF outputs
  <2> QED
    BY <1>1, <1>2, <2>1, <2>2, <2>4, SaveKeeps
<1> QED
  BY <1>3, <1>4, <1>5

LEMMA OutputsKeeps ==
    ASSUME PublicationInv, NEW h \in Handlers, Outputs(h), UNCHANGED <<queue, call, deleting>>
    PROVE  Kept
<1> DEFINE pc == IF run[h].out = << >> THEN "produced" ELSE "claim"
           n == [run[h] EXCEPT !.pc = pc]
<1>1. Live(h) /\ run[h].pc = "outputs" /\ Goto(h, pc) /\ UNCHANGED store
  BY DEF Outputs, At, Live
<1>2. run[h] \in Run /\ Equipped(run[h]) /\ StoreInv /\ guard' # h
  BY <1>1, Row DEF Holders, Guarded, store
<1>3. pc \in Pc \ {"idle"}
  BY DEF Pc
<1>4. /\ n \in Run /\ run' = [run EXCEPT ![h] = n]
      /\ n.pc = pc /\ n.job = run[h].job /\ n.out = run[h].out /\ n.next = run[h].next
  BY <1>1, <1>3, GotoRun
<1> HIDE DEF n
<1>5. Equipped(n) /\ Publishing(h, n, guard', receipt'[n.job], document')
      /\ Committed(n, receipt'[n.job])
  BY <1>1, <1>2, <1>4 DEF Equipped, Publishing, Committed
<1>6. GoesOn(h, n)
  BY <1>4, <1>5, Steps
<1> QED
  BY <1>1, <1>2, <1>6, CheckpointStep, Still DEF store

LEMMA EnterKeeps ==
    ASSUME PublicationInv, NEW h \in Handlers, Enter(h), UNCHANGED <<queue, call, deleting>>
    PROVE  Kept
<1> DEFINE n == run[h]
<1>1. Live(h) /\ n.pc \in Guarded
  BY DEF Enter, Live, Guarded
<1>2. n \in Run /\ Equipped(n) /\ StoreInv /\ run \in [Handlers -> Run]
  BY <1>1, Row
<1>3. /\ guard = NoHandler /\ guard' = h /\ run' = run
      /\ UNCHANGED <<checkpoint, receipt, document, points, collection, marking>>
      /\ n.pc = "intent" => document.owner = Me(h)
      /\ n.pc = "dup" => document.status = "published"
  BY DEF Enter, Free, At, OwnsDocument
<1>4. run' = [run EXCEPT ![h] = n]
  BY <1>2, <1>3
<1>5. Publishing(h, n, guard', receipt'[n.job], document') /\ Committed(n, receipt'[n.job])
  BY <1>1, <1>3 DEF Publishing, Committed, Holders, Guarded, Me
<1>6. GoesOn(h, n)
  BY <1>2, <1>4, <1>5, Steps
<1>7. ReceiptsEvolve /\ DocumentTyped /\ Quiet /\ collection' \in {"active", "archived"}
      /\ marking' \subseteq Jobs /\ checkpoint' \in [Jobs -> Checkpoint]
  BY <1>2, <1>3, Still
<1>8. StoreStep
  BY <1>2, <1>3, <1>7, StoreParts
<1>9. Fenced(h)
  BY <1>3 DEF Fenced
<1> QED
  BY <1>3, <1>6, <1>8, <1>9, ThreadStep

(* A step of the holder of the guards on document and points.              *)
LEMMA DocumentStep ==
    ASSUME PublicationInv, NEW h \in Handlers, guard \in {h, NoHandler}, guard' = NoHandler,
           DocumentTyped, UNCHANGED <<checkpoint, receipt, collection, marking>>,
           NEW n, GoesOn(h, n), UNCHANGED <<queue, call, deleting>>
    PROVE  Kept
<1>1. StoreInv
  BY DEF PublicationInv
<1>2. ReceiptsEvolve /\ collection' \in {"active", "archived"}
      /\ marking' \subseteq Jobs /\ checkpoint' \in [Jobs -> Checkpoint]
  BY <1>1, Still
<1>3. StoreStep /\ Fenced(h)
  BY <1>1, <1>2, StoreParts DEF Fenced
<1> QED
  BY <1>3, ThreadStep

LEMMA ClaimKeeps ==
    ASSUME PublicationInv, NEW h \in Handlers, Claim(h), UNCHANGED <<queue, call, deleting>>
    PROVE  Kept
<1> DEFINE m == run[h]
           kept == m.resumed /\ document.status # "absent"
           foreign == document.owner \notin {Nobody, Me(h)}
           l == IF kept THEN document.lineage ELSE h
           claimed == [run EXCEPT ![h].pc = "chunks", ![h].wrote = TRUE, ![h].lineage = l]
           failed == [run EXCEPT ![h].pc = "except", ![h].wrote = TRUE, ![h].error = "other"]
           written == IF kept THEN document
                      ELSE [status |-> "processing", owner |-> Me(h),
                            lineage |-> h, chunks |-> document.chunks]
<1>1. /\ Live(h) /\ m.pc = "claim" /\ guard = h /\ guard' = NoHandler
      /\ UNCHANGED <<checkpoint, receipt, collection, marking>>
  BY DEF Claim, At, Live, Held
<1>2. m \in Run /\ Equipped(m) /\ StoreInv /\ run \in [Handlers -> Run] /\ m.job \in Jobs
  BY <1>1, Row
<1>3. document \in Document /\ DocumentOK(document)
      /\ points \in [1..Batches -> {Nobody} \cup (Token \X Handlers)]
      /\ NoPoints \in [1..Batches -> {Nobody} \cup (Token \X Handlers)]
  BY <1>2 DEF StoreInv, StoreTyped, NoPoints
<1>4. Me(h) \in Token
  BY <1>2 DEF Me, Token, Run
<1>5. CASE Goto(h, "dup") /\ UNCHANGED <<document, points>>
  <2> DEFINE n == [m EXCEPT !.pc = "dup"]
  <2>1. n \in Run /\ run' = [run EXCEPT ![h] = n] /\ n.pc = "dup" /\ n.job = m.job
    BY <1>1, <1>5, GotoRun DEF Pc
  <2> HIDE DEF n
  <2>2. Equipped(n) /\ Publishing(h, n, guard', receipt'[n.job], document')
        /\ Committed(n, receipt'[n.job])
    BY <1>1, <1>2, <2>1, PublicationAssumption DEF Equipped, Publishing, Committed
  <2>3. GoesOn(h, n)
    BY <2>1, <2>2, Steps
  <2>4. DocumentTyped
    BY <1>2, <1>5, Still
  <2> QED
    BY <1>1, <2>3, <2>4, DocumentStep
<1>6. CASE \E e \in Error : Throw(h, e) /\ UNCHANGED <<document, points>>
  <2>1. PICK n : GoesOn(h, n)
    BY <1>1, <1>6, ThrowRun
  <2>2. DocumentTyped
    BY <1>2, <1>6, Still
  <2> QED
    BY <1>1, <2>1, <2>2, DocumentStep
<1>7. CASE /\ document.status # "deleted" /\ document' = written
           /\ points' \in {NoPoints, points}
           /\ run' = claimed \/ run' = failed \/ End(h)
  <2>1. DocumentTyped
    BY <1>2, <1>3, <1>4, <1>7 DEF DocumentTyped, Document, DocumentOK
  <2>2. l \in Handlers
    BY <1>3 DEF DocumentOK
  <2>3. CASE run' = claimed
    <3> DEFINE n == [m EXCEPT !.pc = "chunks", !.wrote = TRUE, !.lineage = l]
    <3>1. run' = [run EXCEPT ![h] = n]
      BY <1>2, <2>3
    <3> HIDE DEF l
    <3>2. /\ n \in Run /\ n.pc = "chunks" /\ n.job = m.job /\ n.next = m.next
          /\ n.out = m.out /\ n.lineage = l
      BY <1>2, <2>2 DEF Run, Pc
    <3> HIDE DEF n
    <3>3. Equipped(n) /\ Publishing(h, n, guard', receipt'[n.job], document')
          /\ Committed(n, receipt'[n.job])
      BY <1>1, <1>2, <2>2, <3>2, PublicationAssumption DEF Equipped, Publishing, Committed
    <3>4. GoesOn(h, n)
      BY <3>1, <3>2, <3>3, Steps
    <3> QED
      BY <1>1, <2>1, <3>4, DocumentStep
  <2>4. CASE run' = failed
    <3> DEFINE n == [m EXCEPT !.pc = "except", !.wrote = TRUE, !.error = "other"]
    <3>1. run' = [run EXCEPT ![h] = n]
      BY <1>2, <2>4
    <3>2. n \in Run /\ n.pc = "except" /\ n.job = m.job
      BY <1>2 DEF Run, Pc, Error
    <3> HIDE DEF n
    <3>3. Equipped(n) /\ Publishing(h, n, guard', receipt'[n.job], document')
          /\ Committed(n, receipt'[n.job])
      BY <1>1, <1>2, <3>2, PublicationAssumption DEF Equipped, Publishing, Committed
    <3>4. GoesOn(h, n)
      BY <3>1, <3>2, <3>3, Steps
    <3> QED
      BY <1>1, <2>1, <3>4, DocumentStep
  <2>5. CASE End(h)
    BY <1>1, <2>1, <2>5, EndsRun, DocumentStep, PublicationAssumption
  <2> QED
    BY <1>7, <2>3, <2>4, <2>5
<1> QED
  <2>1. CASE document.status = "published"
    BY <1>5, <2>1 DEF Claim
  <2>2. CASE document.status # "published" /\ (document.status = "deleted" \/ (kept /\ foreign))
    <3>1. /\ Throw(h, IF document.status = "deleted" THEN "other" ELSE "owner")
          /\ UNCHANGED <<document, points>>
      BY <2>2 DEF Claim
    <3> QED
      BY <1>6, <3>1 DEF Error
  <2>3. CASE document.status # "published" /\ ~(document.status = "deleted" \/ (kept /\ foreign))
    <3>1. /\ document' = written
          /\ \/ /\ points' = IF foreign THEN NoPoints ELSE points
                /\ run' = claimed
             \/ foreign /\ UNCHANGED points /\ run' = failed
             \/ foreign /\ UNCHANGED points /\ End(h)
      BY <2>3 DEF Claim
    <3> QED
      BY <1>7, <2>3, <3>1
  <2> QED
    BY <2>1, <2>2, <2>3

LEMMA ChunksKeeps ==
    ASSUME PublicationInv, NEW h \in Handlers, Chunks(h), UNCHANGED <<queue, call, deleting>>
    PROVE  Kept
<1> DEFINE m == run[h]  n == [m EXCEPT !.pc = "manifest"]
<1>1. /\ Live(h) /\ m.pc = "chunks" /\ guard = h /\ guard' = NoHandler /\ Goto(h, "manifest")
      /\ document' = [document EXCEPT !.chunks = TRUE]
      /\ UNCHANGED <<checkpoint, receipt, points, collection, marking>>
  BY DEF Chunks, At, Live, Held
<1>2. m \in Run /\ Equipped(m) /\ StoreInv
  BY <1>1, Row
<1>3. DocumentTyped
  BY <1>1, <1>2 DEF StoreInv, StoreTyped, DocumentTyped, Document, DocumentOK
<1>4. /\ n \in Run /\ run' = [run EXCEPT ![h] = n] /\ n.pc = "manifest" /\ n.job = m.job
      /\ n.out = m.out /\ n.lineage = m.lineage /\ n.next = m.next
  BY <1>1, GotoRun DEF Pc
<1> HIDE DEF n
<1>5. Equipped(n) /\ Publishing(h, n, guard', receipt'[n.job], document')
      /\ Committed(n, receipt'[n.job])
  BY <1>1, <1>2, <1>4, PublicationAssumption DEF Equipped, Publishing, Committed
<1>6. GoesOn(h, n)
  BY <1>4, <1>5, Steps
<1> QED
  BY <1>1, <1>3, <1>6, DocumentStep

LEMMA IndexKeeps ==
    ASSUME PublicationInv, NEW h \in Handlers, Index(h), UNCHANGED <<queue, call, deleting>>
    PROVE  Kept
<1> DEFINE m == run[h]
           pc == IF m.next = Batches THEN "verify" ELSE "index"
           n == [m EXCEPT !.next = @ + 1, !.pc = pc]
<1>1. /\ Live(h) /\ m.pc = "index" /\ guard = h /\ guard' = NoHandler
      /\ points' = [points EXCEPT ![m.next] = Origin(Me(h), m.lineage)]
      /\ UNCHANGED <<checkpoint, receipt, document, collection, marking>>
  BY DEF Index, At, Live, Held
<1>2. m \in Run /\ Equipped(m) /\ StoreInv /\ run \in [Handlers -> Run] /\ m.job \in Jobs
  BY <1>1, Row
<1>3. run' = [run EXCEPT ![h] = n]
  BY <1>2 DEF Index
<1>4. m.next \in 1..Batches /\ m.lineage \in Handlers
  BY <1>1, <1>2 DEF Equipped
<1>5. DocumentTyped
  <2>1. Origin(Me(h), m.lineage) \in Token \X Handlers
    BY <1>2, <1>4 DEF Origin, Me, Token, Run
  <2> QED
    BY <1>1, <1>2, <1>4, <2>1 DEF StoreInv, StoreTyped, DocumentTyped
<1>6. /\ n \in Run /\ n.pc = pc /\ n.job = m.job /\ n.lineage = m.lineage
      /\ n.next = m.next + 1
  <2>1. m.next + 1 \in 1..(Batches + 1) /\ pc \in Pc
    BY <1>4, PublicationAssumption DEF Pc
  <2> HIDE DEF pc
  <2> QED
    BY <1>2, <2>1 DEF Run
<1> HIDE DEF n
<1>7. Equipped(n) /\ Publishing(h, n, guard', receipt'[n.job], document')
      /\ Committed(n, receipt'[n.job])
  BY <1>1, <1>2, <1>4, <1>6, PublicationAssumption DEF Equipped, Publishing, Committed
<1>8. GoesOn(h, n)
  BY <1>3, <1>6, <1>7, Steps
<1> QED
  BY <1>1, <1>5, <1>8, DocumentStep

LEMMA VerifyKeeps ==
    ASSUME PublicationInv, NEW h \in Handlers, Verify(h), UNCHANGED <<queue, call, deleting>>
    PROVE  Kept
<1> DEFINE m == run[h]  n == [m EXCEPT !.pc = "intent"]
<1>1. /\ Live(h) /\ m.pc = "verify"
      /\ UNCHANGED <<checkpoint, receipt, document, points, collection, marking>>
  BY DEF Verify, At, Live
<1>2. /\ m \in Run /\ Equipped(m) /\ StoreInv /\ checkpoint \in [Jobs -> Checkpoint]
      /\ guard # h
  BY <1>1, Row DEF StoreInv, StoreTyped, Holders, Guarded
<1>3. CASE Goto(h, "intent") /\ UNCHANGED guard
  <2>1. n \in Run /\ run' = [run EXCEPT ![h] = n] /\ n.pc = "intent" /\ n.job = m.job
    BY <1>1, <1>3, GotoRun DEF Pc
  <2> HIDE DEF n
  <2>2. Equipped(n) /\ Publishing(h, n, guard', receipt'[n.job], document')
        /\ Committed(n, receipt'[n.job])
    BY <1>2, <1>3, <2>1 DEF Equipped, Publishing, Committed
  <2>3. GoesOn(h, n)
    BY <2>1, <2>2, Steps
  <2> QED
    BY <1>1, <1>2, <1>3, <2>3, CheckpointStep
<1>4. CASE Throw(h, "other")
  <2>1. PICK n2 : GoesOn(h, n2)
    BY <1>1, <1>4, ThrowRun DEF Error
  <2>2. guard' \in {guard, NoHandler} /\ (guard # h => guard' = guard)
    BY <1>1, <1>4, ThrowRun DEF Error
  <2> QED
    BY <1>1, <1>2, <2>1, <2>2, CheckpointStep
<1> QED
  BY <1>3, <1>4 DEF Verify

(* A step that leaves the store alone, but for the guards.                 *)
LEMMA ThrowKeeps ==
    ASSUME PublicationInv, NEW h \in Handlers, Live(h), NEW e \in Error, Throw(h, e),
           UNCHANGED <<checkpoint, receipt, document, points, collection, marking>>,
           UNCHANGED <<queue, call, deleting>>
    PROVE  Kept
<1>1. PICK n : GoesOn(h, n)
  BY ThrowRun
<1>2. guard' \in {guard, NoHandler} /\ (guard # h => guard' = guard)
  BY ThrowRun
<1>3. checkpoint' \in [Jobs -> Checkpoint]
  BY Row, Still
<1> QED
  BY <1>1, <1>2, <1>3, CheckpointStep

(* The intent of an attempt: its pending receipt, or the one it has.       *)
LEMMA IntentRow ==
    ASSUME StoreInv, NEW j \in Jobs, NEW a \in 1..MaxTries, NEW owner \in Token,
           NEW ready \in BOOLEAN, CanIntend(j, a, owner)
    PROVE  LET s == Intent(j, a, owner, ready) IN
           /\ s \in Receipt /\ ReceiptOK(s) /\ Evolves(receipt[j], s)
           /\ s.attempt = a /\ s.owner = owner
<1> DEFINE r == receipt[j]
           s == [attempt |-> a, owner |-> owner, outcome |-> "pending",
                 cancel |-> checkpoint[j].cancel, ready |-> ready]
<1>1. r \in Receipt /\ ReceiptOK(r) /\ checkpoint[j] \in Checkpoint
  BY DEF StoreInv, StoreTyped
<1>2. CASE r.attempt = a
  <2>1. r.attempt # 0
    BY <1>2
  <2>2. r.owner = owner
    BY <1>1, <1>2, <2>1 DEF CanIntend, Receipt
  <2> QED
    BY <1>1, <1>2, <2>2 DEF Intent, Evolves, Same
<1>3. CASE r.attempt # a
  <2>1. r.outcome \in {"none", "failed"}
    BY <1>1, <1>3 DEF CanIntend, ReceiptOK
  <2>2. a \in 0..MaxTries /\ a # 0 /\ checkpoint[j].cancel \in BOOLEAN
    BY <1>1 DEF Checkpoint
  <2>3. s \in Receipt /\ s.attempt = a /\ s.owner = owner /\ s.outcome = "pending"
    BY <2>2 DEF Receipt
  <2>4. Intent(j, a, owner, ready) = s
    BY <1>3 DEF Intent
  <2> HIDE DEF s
  <2>5. ReceiptOK(s) /\ Evolves(r, s)
    BY <2>1, <2>2, <2>3 DEF ReceiptOK, Evolves
  <2> QED
    BY <2>3, <2>4, <2>5
<1> QED
  BY <1>2, <1>3

(* A step of the holder of the guards that writes a receipt.               *)
LEMMA ReceiptStep ==
    ASSUME PublicationInv, NEW h \in Handlers, guard = h, guard' \in {h, NoHandler},
           ReceiptsEvolve, UNCHANGED <<checkpoint, document, points, collection, marking>>,
           NEW n, GoesOn(h, n), UNCHANGED <<queue, call, deleting>>
    PROVE  Kept
<1>1. StoreInv
  BY DEF PublicationInv
<1>2. DocumentTyped /\ collection' \in {"active", "archived"}
      /\ marking' \subseteq Jobs /\ checkpoint' \in [Jobs -> Checkpoint]
  BY <1>1, Still
<1>3. StoreStep /\ Fenced(h)
  BY <1>1, <1>2, StoreParts DEF Fenced
<1> QED
  BY <1>3, ThreadStep

LEMMA IntendKeeps ==
    ASSUME PublicationInv, NEW h \in Handlers, Live(h), guard = h, NEW owner \in Token,
           owner = document.owner, NEW ready \in BOOLEAN, NEW pc \in {"decide", "dup_decide"},
           pc = "decide" => owner = Me(h), Intend(h, owner, ready, pc),
           UNCHANGED <<queue, call, deleting>>
    PROVE  Kept
<1> DEFINE j == run[h].job  a == run[h].attempt  s == Intent(j, a, owner, ready)
<1>1. run[h] \in Run /\ run \in [Handlers -> Run] /\ j \in Jobs /\ StoreInv /\ a \in 1..MaxTries
  BY Row DEF Run
<1>2. UNCHANGED <<checkpoint, document, points, collection, marking>>
  BY DEF Intend
<1>3. CASE CanIntend(j, a, owner)
  <2>1. s \in Receipt /\ ReceiptOK(s) /\ Evolves(receipt[j], s) /\ s.attempt = a /\ s.owner = owner
    BY <1>1, <1>3, IntentRow
  <2>2. receipt' = [receipt EXCEPT ![j] = s]
    BY <1>3 DEF Intend
  <2> HIDE DEF s
  <2>3. ReceiptsEvolve /\ receipt'[j] = s
    BY <1>1, <2>1, <2>2, ReceiptWrite DEF ReceiptsEvolve
  <2>4. CASE UNCHANGED guard /\ run' = [run EXCEPT ![h].pc = pc, ![h].tried = TRUE]
    <3> DEFINE n == [run[h] EXCEPT !.pc = pc, !.tried = TRUE]
    <3>1. run' = [run EXCEPT ![h] = n]
      BY <1>1, <2>4
    <3>2. n \in Run /\ n.pc = pc /\ n.job = j /\ n.attempt = a
      BY <1>1 DEF Run, Pc
    <3> HIDE DEF n
    <3>3. Equipped(n) /\ Committed(n, receipt'[n.job])
      BY <1>1, <3>2 DEF Equipped, Committed
    <3>4. Publishing(h, n, guard', receipt'[n.job], document')
      BY <1>1, <1>2, <2>1, <2>3, <2>4, <3>2 DEF Publishing, Holders, Me
    <3>5. GoesOn(h, n)
      BY <3>1, <3>2, <3>3, <3>4, Steps
    <3> QED
      BY <1>2, <2>3, <2>4, <3>5, ReceiptStep
  <2>5. CASE Throw(h, "other")
    <3>1. PICK n : GoesOn(h, n)
      BY <2>5, ThrowRun DEF Error
    <3>2. guard' \in {h, NoHandler}
      BY <2>5, ThrowRun DEF Error
    <3> QED
      BY <1>2, <2>3, <3>1, <3>2, ReceiptStep
  <2> QED
    BY <1>3, <2>4, <2>5 DEF Intend
<1>4. CASE ~CanIntend(j, a, owner)
  <2>1. UNCHANGED receipt /\ Throw(h, "owner")
    BY <1>4 DEF Intend
  <2> QED
    BY <1>2, <2>1, ThrowKeeps DEF Error
<1> QED
  BY <1>3, <1>4

LEMMA IntentsKeep ==
    ASSUME PublicationInv, NEW h \in Handlers, BeginPublication(h) \/ BeginDuplicate(h),
           UNCHANGED <<queue, call, deleting>>
    PROVE  Kept
<1>1. Live(h) /\ guard = h
  BY DEF BeginPublication, BeginDuplicate, At, Held, Live
<1>2. /\ run[h] \in Run /\ run[h].job \in Jobs /\ StoreInv
      /\ Publishing(h, run[h], guard, receipt[run[h].job], document)
  BY <1>1, Row DEF Informed
<1>3. CASE BeginPublication(h)
  <2>1. run[h].pc = "intent" /\ Intend(h, Me(h), TRUE, "decide")
    BY <1>3 DEF BeginPublication, At
  <2>2. Me(h) = document.owner /\ Me(h) \in Token
    BY <1>1, <1>2, <2>1 DEF Publishing, Me, Token, Run
  <2> QED
    BY <1>1, <2>1, <2>2, IntendKeeps
<1>4. CASE BeginDuplicate(h)
  <2>1. run[h].pc = "dup" /\ Intend(h, document.owner, FALSE, "dup_decide")
    BY <1>4 DEF BeginDuplicate, At
  <2>2. document.owner \in Token
    BY <1>1, <1>2, <2>1 DEF Publishing, StoreInv, DocumentOK
  <2> QED
    BY <1>1, <2>1, <2>2, IntendKeeps
<1> QED
  BY <1>3, <1>4

LEMMA ReadReceiptKeeps ==
    ASSUME PublicationInv, NEW h \in Handlers, ReadReceipt(h) \/ ReadDuplicate(h),
           UNCHANGED <<queue, call, deleting>>
    PROVE  Kept
<1> DEFINE m == run[h]  r == receipt[m.job]
<1>1. /\ Live(h) /\ m.pc \in {"decide", "dup_decide"}
      /\ UNCHANGED <<checkpoint, receipt, document, points, collection, marking>>
  BY DEF ReadReceipt, ReadDuplicate, At, Live
<1>2. /\ m \in Run /\ m.job \in Jobs /\ StoreInv /\ run \in [Handlers -> Run]
      /\ Equipped(m) /\ Publishing(h, m, guard, r, document)
  BY <1>1, Row DEF Informed
<1>3. CASE \E e \in Error : Throw(h, e)
  BY <1>1, <1>3, ThrowKeeps
<1>4. ASSUME NEW pc \in {"publish", "dup_commit"}, Goto(h, pc), UNCHANGED guard,
             pc = "publish" => m.pc = "decide" /\ r.outcome = "pending"
      PROVE  Kept
  <2> DEFINE n == [m EXCEPT !.pc = pc]
  <2>1. /\ n \in Run /\ run' = [run EXCEPT ![h] = n] /\ n.pc = pc
        /\ n.job = m.job /\ n.attempt = m.attempt
    BY <1>1, <1>4, GotoRun DEF Pc
  <2> HIDE DEF n
  <2>2. Equipped(n) /\ Committed(n, receipt'[n.job])
    BY <1>2, <2>1 DEF Equipped, Committed
  <2>3. Publishing(h, n, guard', receipt'[n.job], document')
    BY <1>1, <1>2, <1>4, <2>1 DEF Publishing, Holders
  <2>4. GoesOn(h, n)
    BY <2>1, <2>2, <2>3, Steps
  <2> QED
    BY <1>1, <1>2, <1>4, <2>4, Still, CheckpointStep
<1>5. CASE ReadReceipt(h)
  <2>1. /\ m.pc = "decide"
        /\ \/ Throw(h, "owner") \/ Throw(h, "cancel")
           \/ r.outcome = "pending" /\ Goto(h, "publish") /\ UNCHANGED guard
    BY <1>5 DEF ReadReceipt, At
  <2> QED
    BY <1>3, <1>4, <2>1 DEF Error
<1>6. CASE ReadDuplicate(h)
  <2>1. Throw(h, "cancel") \/ (Goto(h, "dup_commit") /\ UNCHANGED guard)
    BY <1>6 DEF ReadDuplicate
  <2> QED
    BY <1>3, <1>4, <2>1 DEF Error
<1> QED
  BY <1>5, <1>6

LEMMA PublishKeeps ==
    ASSUME PublicationInv, NEW h \in Handlers, Publish(h), UNCHANGED <<queue, call, deleting>>
    PROVE  Kept
<1> DEFINE m == run[h]  r == receipt[m.job]  n == [m EXCEPT !.pc = "settle"]
<1>1. Live(h) /\ m.pc = "publish" /\ UNCHANGED <<checkpoint, points, collection, marking>>
  BY DEF Publish, At, Live
<1>2. /\ m \in Run /\ m.job \in Jobs /\ StoreInv /\ run \in [Handlers -> Run]
      /\ Equipped(m) /\ Publishing(h, m, guard, r, document)
  BY <1>1, Row DEF Informed
<1>3. guard = h /\ Awaiting(m.job)
  BY <1>1, <1>2 DEF Publishing, Awaiting
<1>4. CASE CanPublish /\ PublishDocument /\ \/ Goto(h, "settle") /\ guard' = NoHandler
                                            \/ Throw(h, "other")
  <2>1. /\ document' \in Document /\ DocumentOK(document') /\ ReceiptsEvolve
        /\ receipt'[m.job].outcome = "committed" /\ document'.status # "absent"
    BY <1>2, <1>3, <1>4, PublishWrites DEF ReceiptsEvolve
  <2>2. DocumentTyped
    BY <1>1, <1>2, <2>1 DEF DocumentTyped, StoreInv, StoreTyped
  <2>3. guard' \in {h, NoHandler} /\ \E k : GoesOn(h, k)
    <3>1. CASE Goto(h, "settle") /\ guard' = NoHandler
      <4>1. n \in Run /\ run' = [run EXCEPT ![h] = n] /\ n.pc = "settle" /\ n.job = m.job
        BY <1>1, <3>1, GotoRun DEF Pc
      <4> HIDE DEF n
      <4>2. Equipped(n) /\ Publishing(h, n, guard', receipt'[n.job], document')
            /\ Committed(n, receipt'[n.job])
        BY <1>2, <2>1, <3>1, <4>1, PublicationAssumption DEF Equipped, Publishing, Committed
      <4>3. GoesOn(h, n)
        BY <4>1, <4>2, Steps
      <4> QED
        BY <3>1, <4>3
    <3>2. CASE Throw(h, "other")
      BY <1>1, <1>3, <3>2, ThrowRun DEF Error
    <3> QED
      BY <1>4, <3>1, <3>2
  <2>4. collection' \in {"active", "archived"} /\ marking' \subseteq Jobs
        /\ checkpoint' \in [Jobs -> Checkpoint]
    BY <1>1, <1>2, Still
  <2>5. StoreStep /\ Fenced(h)
    BY <1>2, <1>3, <2>1, <2>2, <2>3, <2>4, StoreParts DEF Fenced
  <2> QED
    BY <1>3, <2>3, <2>5, ThreadStep
<1>5. CASE Throw(h, "other") /\ UNCHANGED <<document, receipt>>
  BY <1>1, <1>5, ThrowKeeps DEF Error
<1> QED
  BY <1>4, <1>5 DEF Publish

LEMMA CommitDuplicateKeeps ==
    ASSUME PublicationInv, NEW h \in Handlers, CommitDuplicate(h),
           UNCHANGED <<queue, call, deleting>>
    PROVE  Kept
<1> DEFINE m == run[h]  j == m.job  r == receipt[j]  n == [m EXCEPT !.pc = "settle"]
           s == Resolved(r, "committed")
<1>1. Live(h) /\ m.pc = "dup_commit" /\ UNCHANGED <<checkpoint, document, points, collection, marking>>
  BY DEF CommitDuplicate, At, Live
<1>2. /\ m \in Run /\ j \in Jobs /\ StoreInv /\ run \in [Handlers -> Run]
      /\ Equipped(m) /\ guard = h /\ r \in Receipt /\ ReceiptOK(r)
  BY <1>1, Row DEF Informed, Publishing, StoreInv
<1>3. CASE r.attempt = m.attempt /\ r.outcome \in {"pending", "committed"}
  <2>1. guard' = NoHandler /\ Goto(h, "settle") /\ receipt' = [receipt EXCEPT ![j] = s]
    BY <1>3 DEF CommitDuplicate
  <2>2. s \in Receipt /\ ReceiptOK(s) /\ Evolves(r, s) /\ s.outcome = "committed"
    BY <1>2, <1>3, ResolvedRow
  <2> HIDE DEF s
  <2>3. ReceiptsEvolve /\ receipt'[j].outcome = "committed"
    BY <1>2, <2>1, <2>2, ReceiptWrite DEF ReceiptsEvolve
  <2>4. n \in Run /\ run' = [run EXCEPT ![h] = n] /\ n.pc = "settle" /\ n.job = j
    BY <1>1, <2>1, GotoRun DEF Pc
  <2> HIDE DEF n
  <2>5. Equipped(n) /\ Publishing(h, n, guard', receipt'[n.job], document')
        /\ Committed(n, receipt'[n.job])
    BY <1>2, <2>1, <2>3, <2>4, PublicationAssumption DEF Equipped, Publishing, Committed
  <2>6. GoesOn(h, n)
    BY <2>4, <2>5, Steps
  <2> QED
    BY <1>1, <1>2, <2>1, <2>3, <2>6, ReceiptStep
<1>4. CASE UNCHANGED receipt /\ Throw(h, "owner")
  BY <1>1, <1>4, ThrowKeeps DEF Error
<1> QED
  BY <1>3, <1>4 DEF CommitDuplicate

LEMMA EndKeeps ==
    ASSUME PublicationInv, NEW h \in Handlers, NEW n, GoesOn(h, n), UNCHANGED store,
           UNCHANGED <<queue, call, deleting>>
    PROVE  Kept
<1>1. checkpoint' \in [Jobs -> Checkpoint]
  BY Row, Still DEF store
<1> QED
  BY <1>1, CheckpointStep DEF store

LEMMA FinishesKeep ==
    ASSUME PublicationInv, NEW h \in Handlers, Settle(h) \/ Finish(h),
           UNCHANGED <<queue, call, deleting>>
    PROVE  Kept
<1> DEFINE m == run[h]  j == m.job
<1>1. /\ Live(h) /\ m.pc \in {"settle", "finish"}
      /\ UNCHANGED <<receipt, document, points, collection, guard, marking>>
  BY DEF Settle, Finish, At, Live
<1>2. /\ m \in Run /\ j \in Jobs /\ StoreInv /\ checkpoint \in [Jobs -> Checkpoint]
      /\ guard' # h /\ Committed(m, receipt[j]) /\ m.cancel \in BOOLEAN
  BY <1>1, Row DEF Informed, StoreInv, StoreTyped, Holders, Guarded, Run
<1>3. checkpoint' \in [Jobs -> Checkpoint]
  <2>1. \A state \in {"failed", "cancelled", "committed"} :
            FinishedCheckpoint(j, state, m.cancel) \in Checkpoint
    BY <1>2, CheckpointRows DEF StoreInv
  <2>2. \/ UNCHANGED checkpoint
        \/ \E state \in {"failed", "cancelled", "committed"} :
              checkpoint' = [checkpoint EXCEPT ![j] = FinishedCheckpoint(j, state, m.cancel)]
    BY DEF Settle, Finish
  <2> QED
    BY <1>2, <2>1, <2>2
<1>4. \E n : GoesOn(h, n)
  <2>1. CASE Settle(h)
    <3>1. m.pc = "settle" /\ Done(h, "published")
      BY <2>1 DEF Settle, At
    <3> QED
      BY <1>1, <1>2, <3>1, DoneRun DEF Committed
  <2>2. CASE Finish(h)
    BY <1>1, <1>2, <2>2, DoneRun DEF Finish
  <2> QED
    BY <2>1, <2>2
<1> QED
  BY <1>1, <1>2, <1>3, <1>4, CheckpointStep

LEMMA InterruptionsKeep ==
    ASSUME PublicationInv, NEW h \in Handlers, Interrupted(h) \/ Fault(h) \/ Crash(h),
           UNCHANGED <<queue, call, deleting>>
    PROVE  Kept
<1>1. Live(h) /\ UNCHANGED <<checkpoint, receipt, document, points, collection, marking>>
  BY DEF Interrupted, Fault, Crash, Checked, At, Live
<1>2. CASE Interrupted(h) \/ Fault(h)
  <2>1. Raised(h) \in Error
    BY DEF Raised, Error
  <2>2. \E e \in Error : Throw(h, e)
    BY <1>2, <2>1 DEF Interrupted, Fault, Error
  <2> QED
    BY <1>1, <2>2, ThrowKeeps
<1>3. CASE Crash(h)
  <2>1. guard' # h /\ guard' \in {guard, NoHandler} /\ (guard # h => guard' = guard) /\ End(h)
    BY <1>3, PublicationAssumption DEF Crash
  <2>2. GoesOn(h, Idle)
    BY <2>1, EndsRun
  <2>3. checkpoint' \in [Jobs -> Checkpoint]
    BY <1>1, Row, Still
  <2> QED
    BY <1>1, <2>1, <2>2, <2>3, CheckpointStep
<1> QED
  BY <1>2, <1>3

(* A thread outside the guards goes to a place where it needs nothing but  *)
(* its job, or past a commit.                                              *)
LEMMA GotoPlain ==
    ASSUME PublicationInv, NEW h \in Handlers, Live(h), NEW pc \in {"compensate", "finish", "settle"},
           Goto(h, pc), guard' # h,
           pc = "settle" => receipt'[run[h].job].outcome = "committed"
    PROVE  \E n : GoesOn(h, n)
<1> DEFINE n == [run[h] EXCEPT !.pc = pc]
<1>1. n \in Run /\ run' = [run EXCEPT ![h] = n] /\ n.pc = pc /\ n.job = run[h].job
  BY GotoRun DEF Pc
<1> HIDE DEF n
<1>2. Equipped(n) /\ Publishing(h, n, guard', receipt'[n.job], document')
      /\ Committed(n, receipt'[n.job])
  BY <1>1, Row DEF Equipped, Publishing, Committed
<1> QED
  BY <1>1, <1>2, Steps

LEMMA ExceptKeeps ==
    ASSUME PublicationInv, NEW h \in Handlers, Except(h), UNCHANGED <<queue, call, deleting>>
    PROVE  Kept
<1>1. Live(h) /\ run[h].pc = "except" /\ UNCHANGED store
  BY DEF Except, At, Live
<1>2. guard' # h
  BY <1>1, Row DEF Holders, Guarded, store
<1>3. End(h) \/ Done(h, "failed") \/ Goto(h, "compensate")
  BY DEF Except
<1>4. \E n : GoesOn(h, n)
  BY <1>1, <1>2, <1>3, EndsRun, DoneRun, GotoPlain
<1> QED
  BY <1>1, <1>4, EndKeeps

LEMMA ExceptResolveKeeps ==
    ASSUME PublicationInv, NEW h \in Handlers, ExceptResolve(h), UNCHANGED <<queue, call, deleting>>
    PROVE  Kept
<1> DEFINE m == run[h]  j == m.job  r == receipt[j]
<1>1. Live(h) /\ m.pc = "compensate"
  BY DEF ExceptResolve, At, Live
<1>2. guard # h /\ m \in Run /\ j \in Jobs /\ m.cancel \in BOOLEAN /\ StoreInv
  BY <1>1, Row DEF Holders, Guarded, Run
<1>3. CASE /\ UNCHANGED store
           /\ \/ End(h) \/ Done(h, "failed")
              \/ r.outcome = "committed" /\ Goto(h, "settle")
  <2>1. guard' # h /\ receipt' = receipt
    BY <1>2, <1>3 DEF store
  <2>2. \E n : GoesOn(h, n)
    BY <1>1, <1>3, <2>1, EndsRun, DoneRun, GotoPlain
  <2> QED
    BY <1>3, <2>2, EndKeeps
<1>4. CASE \E o \in {"published", "failed", "cancelled", "verifying"} :
              /\ RecoverPublication(j, m.attempt, m.cancel, o)
              /\ CASE o = "published" -> Goto(h, "settle")
                   [] o = "verifying" -> End(h)
                   [] OTHER           -> Done(h, "failed")
  <2>1. PICK o \in {"published", "failed", "cancelled", "verifying"} :
              /\ RecoverPublication(j, m.attempt, m.cancel, o)
              /\ \/ o = "published" /\ Goto(h, "settle")
                 \/ End(h) \/ Done(h, "failed")
    BY <1>4
  <2>2. guard' # h /\ (o = "published" => receipt'[j].outcome = "committed")
    BY <1>2, <2>1, RecoverWrites
  <2>3. \E n : GoesOn(h, n)
    BY <1>1, <2>1, <2>2, EndsRun, DoneRun, GotoPlain
  <2> QED
    BY <1>1, <1>2, <2>1, <2>3, Asked
<1> QED
  BY <1>3, <1>4 DEF ExceptResolve

LEMMA ExceptCleanupKeeps ==
    ASSUME PublicationInv, NEW h \in Handlers, ExceptCleanup(h), UNCHANGED <<queue, call, deleting>>
    PROVE  Kept
<1> DEFINE m == run[h]  j == m.job
           cancelled == m.cancel \/ (m.tried /\ receipt[j].cancel)
<1>1. /\ Live(h) /\ m.pc = "compensate" /\ guard = NoHandler
      /\ UNCHANGED <<checkpoint, receipt, collection, guard, marking>>
  BY DEF ExceptCleanup, At, Live, Free
<1>2. /\ m \in Run /\ j \in Jobs /\ StoreInv /\ guard' # h /\ run \in [Handlers -> Run]
      /\ cancelled \in BOOLEAN /\ Me(h) \in Token
  BY <1>1, Row, PublicationAssumption DEF Run, Me, Token, Receipt
<1>3. PICK complete \in Completeness :
              /\ IF m.wrote THEN Cleanup(Me(h), complete) ELSE UNCHANGED <<document, points>>
              /\ \/ End(h) \/ Done(h, "failed")
                 \/ run' = [run EXCEPT ![h].pc = "finish", ![h].cancel = cancelled]
  BY DEF ExceptCleanup
<1>4. complete \in BOOLEAN
  BY DEF Completeness
<1>5. DocumentTyped
  <2>1. CASE m.wrote
    BY <1>2, <1>3, <1>4, <2>1, CleanupKeeps DEF DocumentTyped
  <2>2. CASE ~m.wrote
    BY <1>2, <1>3, <2>2, Still
  <2> QED
    BY <2>1, <2>2
<1>6. \E n : GoesOn(h, n)
  <2>1. CASE End(h) \/ Done(h, "failed")
    BY <1>1, <1>2, <2>1, EndsRun, DoneRun
  <2>2. CASE run' = [run EXCEPT ![h].pc = "finish", ![h].cancel = cancelled]
    <3> DEFINE n == [m EXCEPT !.pc = "finish", !.cancel = cancelled]
    <3> HIDE DEF cancelled
    <3>1. run' = [run EXCEPT ![h] = n]
      BY <1>2, <2>2
    <3>2. n \in Run /\ n.pc = "finish" /\ n.job = j
      BY <1>2 DEF Run, Pc
    <3> HIDE DEF n
    <3>3. Equipped(n) /\ Publishing(h, n, guard', receipt'[n.job], document')
          /\ Committed(n, receipt'[n.job])
      BY <1>2, <3>2 DEF Equipped, Publishing, Committed
    <3> QED
      BY <3>1, <3>2, <3>3, Steps
  <2> QED
    BY <1>3, <2>1, <2>2
<1> QED
  BY <1>1, <1>5, <1>6, DocumentStep

LEMMA HandlerKeeps ==
    ASSUME PublicationInv, NEW h \in Handlers, HandlerStep(h), UNCHANGED <<queue, call, deleting>>
    PROVE  Kept
BY RecoverKeeps, BeginKeeps, SavesKeep, OutputsKeeps, EnterKeeps, ClaimKeeps, ChunksKeeps,
   IndexKeeps, VerifyKeeps, IntentsKeep, ReadReceiptKeeps, PublishKeeps, CommitDuplicateKeeps,
   FinishesKeep, InterruptionsKeep, ExceptKeeps, ExceptResolveKeeps, ExceptCleanupKeeps
   DEF HandlerStep

-----------------------------------------------------------------------------
(* The steps of the queue *)

(* The threads go on, but for a flag, or one of them starts or ends.       *)
Alike(m, n) == /\ n.pc = m.pc /\ n.job = m.job /\ n.attempt = m.attempt
               /\ n.out = m.out /\ n.lineage = m.lineage /\ n.next = m.next

Carries(h) ==
    /\ run'[h] \in Run
    /\ \/ Alike(run[h], run'[h])
       \/ guard # h /\ run'[h].pc = "idle"
       \/ guard # h /\ run'[h].pc = "recover" /\ Equipped(run'[h])

LEMMA ThreadsCarry ==
    ASSUME PublicationInv, StoreStep, ~Free => Quiet, guard' = guard,
           run' = [h \in Handlers |-> run'[h]], \A h \in Handlers : Carries(h)
    PROVE  run' \in [Handlers -> Run] /\ \A h \in Handlers : RunInv(h)'
<1>1. run' \in [Handlers -> Run]
  BY DEF Carries
<1>2. ASSUME NEW h \in Handlers
      PROVE  RunInv(h)'
  <2> DEFINE m == run[h]  n == run'[h]
  <2>1. /\ m \in Run /\ n \in Run /\ h # NoHandler
        /\ Informed(h, m, guard, receipt[m.job], document)
        /\ m.pc # "idle" => m.job \in Jobs
    BY PublicationAssumption, Row DEF Carries, Live
  <2>2. CASE Alike(m, n)
    <3>1. m.pc # "idle" => Evolves(receipt[m.job], receipt'[m.job])
      BY <2>1 DEF StoreStep
    <3>2. guard = h => /\ guard' = h /\ document' = document
                       /\ m.pc # "idle" => Same(receipt[m.job], receipt'[m.job])
      BY <2>1 DEF Free, Quiet
    <3>3. Informed(h, m, guard', receipt'[m.job], document')
      BY <2>1, <3>1, <3>2, InformedStays
    <3>4. Informed(h, n, guard', receipt'[n.job], document')
      BY <2>2, <3>3 DEF Alike, Informed, Equipped, Publishing, Committed
    <3> QED
      BY <3>4 DEF RunInv
  <2>3. CASE guard # h /\ (n.pc = "idle" \/ (n.pc = "recover" /\ Equipped(n)))
    <3>1. Informed(h, n, guard', receipt'[n.job], document')
      BY <2>3 DEF Informed, Publishing, Committed
    <3> QED
      BY <3>1 DEF RunInv
  <2> QED
    BY <2>2, <2>3 DEF Carries
<1> QED
  BY <1>1, <1>2

(* A call on job j, or a step of its life.                                 *)
LEMMA CallStep ==
    ASSUME PublicationInv, StoreStep, ~Free => Quiet, guard' = guard,
           run' = [h \in Handlers |-> run'[h]], \A h \in Handlers : Carries(h),
           QueueTyped', UNCHANGED deleting, NEW j \in Jobs,
           \A k \in Jobs \ {j} : call'[k] = call[k] /\ phase'[k] = phase[k] /\ tries'[k] = tries[k],
           Holding(call'[j], phase'[j], tries'[j], receipt'[j])
    PROVE  Kept
<1>1. run' \in [Handlers -> Run] /\ \A h \in Handlers : RunInv(h)'
  BY ThreadsCarry
<1>3. ASSUME NEW k \in Jobs
      PROVE  CallInv(k)'
  <2>1. CASE k = j
    BY <2>1 DEF CallInv
  <2>2. CASE k # j
    <3>1. CallInv(k) /\ Evolves(receipt[k], receipt'[k])
      BY DEF PublicationInv, StoreStep
    <3> QED
      BY <2>2, <3>1, CallStays DEF CallInv
  <2> QED
    BY <2>1, <2>2
<1> QED
  BY <1>1, <1>3 DEF PublicationInv, StoreStep, Kept

LEMMA Quietly ==
    ASSUME PublicationInv, UNCHANGED store
    PROVE  /\ StoreStep /\ Quiet /\ guard' = guard
           /\ \A k \in Jobs : receipt'[k] = receipt[k]
<1>1. StoreInv
  BY DEF PublicationInv
<1>2. UNCHANGED <<checkpoint, receipt, document, points, collection, guard, marking>>
  BY DEF store
<1>3. StoreStep
  BY <1>1, <1>2, Still, StoreParts
<1> QED
  BY <1>1, <1>2, <1>3, Still

LEMMA SameThreads ==
    ASSUME PublicationInv, UNCHANGED run
    PROVE  run' = [h \in Handlers |-> run'[h]] /\ \A h \in Handlers : Carries(h)
BY DEF PublicationInv, Carries, Alike

(* One thread changes.                                                     *)
LEMMA OneThread ==
    ASSUME PublicationInv, NEW h \in Handlers, NEW n \in Run, run' = [run EXCEPT ![h] = n],
           \/ Alike(run[h], n)
           \/ guard # h /\ n.pc = "idle"
           \/ guard # h /\ n.pc = "recover" /\ Equipped(n)
    PROVE  run' = [k \in Handlers |-> run'[k]] /\ \A k \in Handlers : Carries(k)
BY DEF PublicationInv, Carries, Alike

LEMMA LostThread ==
    ASSUME PublicationInv, NEW h \in Handlers, run' = [run EXCEPT ![h].lost = TRUE]
    PROVE  run' = [k \in Handlers |-> run'[k]] /\ \A k \in Handlers : Carries(k)
<1> DEFINE n == [run[h] EXCEPT !.lost = TRUE]
<1>1. run[h] \in Run /\ run \in [Handlers -> Run]
  BY Row
<1>2. n \in Run /\ Alike(run[h], n)
  BY <1>1 DEF Run, Alike
<1>3. run' = [run EXCEPT ![h] = n]
  BY <1>1
<1> QED
  BY <1>2, <1>3, OneThread

LEMMA StartedThread ==
    ASSUME PublicationInv, NEW h \in Handlers, ~Live(h), NEW j \in Jobs, NEW a \in 1..MaxTries,
           NEW g \in Nat, run' = [run EXCEPT ![h] = Started(j, a, g)]
    PROVE  run' = [k \in Handlers |-> run'[k]] /\ \A k \in Handlers : Carries(k)
<1>1. guard # h
  BY Row DEF Live, Holders, Guarded
<1>2. /\ Started(j, a, g) \in Run /\ Started(j, a, g).pc = "recover"
      /\ Equipped(Started(j, a, g))
  BY StartedRow
<1> QED
  BY <1>1, <1>2, OneThread

LEMMA QueueWrite ==
    ASSUME PublicationInv, NEW j \in Jobs, NEW P \in Lifecycle!Phase, NEW T \in 0..MaxTries,
           NEW G \in 0..MaxGrants, Queue(j, P, T, G), call' \in [Jobs -> Call \cup {NoCall}],
           UNCHANGED deleting
    PROVE  /\ QueueTyped' /\ phase'[j] = P /\ tries'[j] = T
           /\ \A k \in Jobs \ {j} : phase'[k] = phase[k] /\ tries'[k] = tries[k]
<1>1. QueueTyped
  BY DEF PublicationInv
<1>2. /\ phase' = [phase EXCEPT ![j] = P] /\ tries' = [tries EXCEPT ![j] = T]
      /\ grants' = [grants EXCEPT ![j] = G]
  BY DEF Queue
<1> QED
  BY <1>1, <1>2 DEF QueueTyped

LEMMA QueueRow ==
    ASSUME PublicationInv, NEW j \in Jobs
    PROVE  /\ phase[j] \in Lifecycle!Phase /\ tries[j] \in 0..MaxTries /\ grants[j] \in 0..MaxGrants
           /\ call[j] \in Call \cup {NoCall} /\ call \in [Jobs -> Call \cup {NoCall}]
           /\ deleting \in BOOLEAN /\ CallInv(j) /\ QueueTyped /\ StoreInv
BY DEF PublicationInv, QueueTyped

LEMMA Unheld ==
    ASSUME NEW P, P # "succeeded", NEW T, P = "owned" => T # 0, NEW r
    PROVE  Holding(NoCall, P, T, r)
BY DEF Holding, NoCall

LEMMA SubmitKeeps ==
    ASSUME PublicationInv, NEW j \in Jobs, Submit(j) \/ Withdrawn(j)
    PROVE  Kept
<1>1. PICK P \in {"waiting", "cancelled"} :
          /\ phase[j] \in {"absent", "waiting"} /\ Become(j, P)
          /\ UNCHANGED <<store, run, call, deleting>>
  BY DEF Submit, Withdrawn
<1>2. call[j] = NoCall
  BY <1>1, QueueRow DEF CallInv, Holding
<1>3. P \in Lifecycle!Phase /\ Queue(j, P, tries[j], grants[j])
  BY <1>1 DEF Lifecycle!Phase, Become
<1>4. /\ QueueTyped' /\ phase'[j] = P
      /\ \A k \in Jobs \ {j} : phase'[k] = phase[k] /\ tries'[k] = tries[k]
  BY <1>1, <1>3, QueueRow, QueueWrite
<1>5. Holding(call'[j], phase'[j], tries'[j], receipt'[j])
  BY <1>1, <1>2, <1>4, Unheld
<1> QED
  BY <1>1, <1>4, <1>5, Quietly, SameThreads, CallStep

LEMMA ClaimNewKeeps ==
    ASSUME PublicationInv, NEW j \in Jobs, NEW h \in Handlers, ClaimNew(j, h)
    PROVE  Kept
<1> DEFINE T == tries[j] + 1  G == grants[j] + 1
<1>1. /\ phase[j] = "waiting" /\ tries[j] < MaxTries /\ grants[j] < MaxGrants /\ ~Live(h)
      /\ Queue(j, "owned", T, G) /\ run' = [run EXCEPT ![h] = Started(j, T, G)]
      /\ UNCHANGED <<store, call, deleting>>
  BY DEF ClaimNew
<1>2. call[j] = NoCall
  BY <1>1, QueueRow DEF CallInv, Holding
<1>3. /\ T \in 1..MaxTries /\ T \in 0..MaxTries /\ G \in 0..MaxGrants /\ G \in Nat
      /\ "owned" \in Lifecycle!Phase
  BY <1>1, QueueRow, PublicationAssumption, QueuePublicationAssumption DEF Lifecycle!Phase
<1> HIDE DEF T, G
<1>4. /\ QueueTyped' /\ phase'[j] = "owned" /\ tries'[j] = T /\ T # 0
      /\ \A k \in Jobs \ {j} : phase'[k] = phase[k] /\ tries'[k] = tries[k]
  BY <1>1, <1>3, QueueRow, QueueWrite
<1>5. Holding(call'[j], phase'[j], tries'[j], receipt'[j])
  BY <1>1, <1>2, <1>4, Unheld
<1>6. run' = [k \in Handlers |-> run'[k]] /\ \A k \in Handlers : Carries(k)
  BY <1>1, <1>3, StartedThread
<1> QED
  BY <1>1, <1>4, <1>5, <1>6, Quietly, CallStep

LEMMA LoseHeartbeatKeeps ==
    ASSUME PublicationInv, NEW h \in Handlers, LoseHeartbeat(h)
    PROVE  Kept
<1>1. run' = [run EXCEPT ![h].lost = TRUE] /\ UNCHANGED <<store, queue, call, deleting>> /\ Live(h)
  BY DEF LoseHeartbeat
<1>2. PICK j \in Jobs : TRUE
  BY <1>1, Row
<1>3. /\ QueueTyped' /\ phase' = phase /\ tries' = tries /\ call' = call
      /\ Holding(call'[j], phase'[j], tries'[j], receipt'[j])
  BY <1>1, QueueRow DEF QueueTyped, queue, CallInv, store
<1> QED
  BY <1>1, <1>3, Quietly, LostThread, CallStep

(* A call begins or reaches its next stage.                                *)
LEMMA CallingTyped ==
    ASSUME PublicationInv, NEW j \in Jobs, NEW why \in Calls \cup {"ack", "fail"},
           NEW stage \in {"mark", "read", "ask", "apply"},
           NEW note \in {"none", "conflict", "cancelling", "active", "settled",
                         "defer", "continue", "cancelled", "published"},
           Calling(j, why, stage, note), UNCHANGED <<queue, deleting>>
    PROVE  /\ QueueTyped' /\ call'[j] \in Call
           /\ call'[j].why = why /\ call'[j].stage = stage /\ call'[j].note = note
           /\ \A k \in Jobs \ {j} : call'[k] = call[k] /\ phase'[k] = phase[k] /\ tries'[k] = tries[k]
           /\ phase'[j] = phase[j] /\ tries'[j] = tries[j]
<1> DEFINE c == [why |-> why, stage |-> stage, note |-> note]
<1>1. c \in Call /\ c.why = why /\ c.stage = stage /\ c.note = note
  BY DEF Call
<1>2. call' = [call EXCEPT ![j] = c]
  BY DEF Calling
<1> HIDE DEF c
<1>3. call'[j] = c /\ call' \in [Jobs -> Call \cup {NoCall}]
  BY <1>1, <1>2, QueueRow
<1> QED
  BY <1>1, <1>2, <1>3, QueueRow DEF QueueTyped, queue

LEMMA BeginCall ==
    ASSUME PublicationInv, NEW j \in Jobs, NEW why \in Calls \cup {"ack", "fail"},
           NEW stage \in {"mark", "read"}, Calling(j, why, stage, "none"),
           phase[j] = "owned" \/ (phase[j] = "succeeded" /\ why = "poll"),
           why = "ack" => receipt[j].outcome = "committed",
           UNCHANGED <<queue, deleting>>, StoreStep, Quiet, guard' = guard,
           run' = [h \in Handlers |-> run'[h]], \A h \in Handlers : Carries(h)
    PROVE  Kept
<1>1. /\ QueueTyped' /\ call'[j].why = why /\ call'[j].stage = stage
      /\ \A k \in Jobs \ {j} : call'[k] = call[k] /\ phase'[k] = phase[k] /\ tries'[k] = tries[k]
      /\ phase'[j] = phase[j] /\ tries'[j] = tries[j]
  BY CallingTyped
<1>2. Same(receipt[j], receipt'[j]) /\ CallInv(j)
  BY QueueRow DEF Quiet
<1>3. Holding(call'[j], phase'[j], tries'[j], receipt'[j])
  BY <1>1, <1>2 DEF Holding, CallInv, Same
<1> QED
  BY <1>1, <1>3, CallStep

(* A cancellation request writes flags.                                    *)
LEMMA MarkingKeeps ==
    ASSUME PublicationInv, NEW j \in Jobs,
           \/ RequestCancel(j)
           \/ \E a \in 0..MaxTries : MarkCancel(j, a)
    PROVE  StoreStep /\ Quiet /\ guard' = guard
<1>1. StoreInv /\ marking \subseteq Jobs /\ checkpoint \in [Jobs -> Checkpoint]
      /\ receipt \in [Jobs -> Receipt]
  BY DEF PublicationInv, StoreInv, StoreTyped
<1>2. UNCHANGED <<document, points, collection, guard>> /\ marking' \subseteq Jobs
  BY <1>1 DEF RequestCancel, MarkCancel
<1>3. CASE RequestCancel(j)
  <2>1. UNCHANGED <<checkpoint, receipt>>
    BY <1>3 DEF RequestCancel
  <2> QED
    BY <1>1, <1>2, <2>1, Still, StoreParts
<1>4. CASE \E a \in 0..MaxTries : MarkCancel(j, a)
  <2>1. PICK a \in 0..MaxTries : MarkCancel(j, a)
    BY <1>4
  <2> DEFINE c == BegunCheckpoint(j, a)  d == [c EXCEPT !.cancel = TRUE]
             r == receipt[j]  s == [r EXCEPT !.cancel = TRUE]
  <2>2. c \in Checkpoint /\ r \in Receipt /\ ReceiptOK(r)
    BY <1>1, CheckpointRows DEF StoreInv
  <2>3. d \in Checkpoint
    BY <2>2 DEF Checkpoint
  <2>4. s \in Receipt /\ s.attempt = r.attempt /\ s.owner = r.owner /\ s.outcome = r.outcome
    BY <2>2 DEF Receipt
  <2>5. checkpoint' = checkpoint \/ checkpoint' = [checkpoint EXCEPT ![j] = d]
    BY <2>1 DEF MarkCancel
  <2>6. receipt' = receipt \/ receipt' = [receipt EXCEPT ![j] = s]
    BY <1>1, <2>1 DEF MarkCancel
  <2> HIDE DEF c, d, s
  <2>7. checkpoint' \in [Jobs -> Checkpoint]
    BY <1>1, <2>3, <2>5
  <2>8. ReceiptsEvolve /\ \A k \in Jobs : Same(receipt[k], receipt'[k])
    <3>1. CASE receipt' = receipt
      BY <1>1, <3>1, ReceiptKept DEF ReceiptsEvolve
    <3>2. CASE receipt' = [receipt EXCEPT ![j] = s]
      <4>1. ReceiptOK(s) /\ Same(r, s) /\ Evolves(r, s)
        BY <2>2, <2>4 DEF ReceiptOK, Same, Evolves
      <4>2. /\ ReceiptsEvolve /\ receipt'[j] = s
            /\ \A k \in Jobs \ {j} : receipt'[k] = receipt[k]
        BY <1>1, <2>4, <3>2, <4>1, ReceiptWrite DEF ReceiptsEvolve
      <4> QED
        BY <4>1, <4>2 DEF Same
    <3> QED
      BY <2>6, <3>1, <3>2
  <2>9. Quiet
    BY <1>2, <2>8 DEF Quiet
  <2>10. DocumentTyped /\ collection' \in {"active", "archived"} /\ guard' \in Handlers \cup {NoHandler}
    BY <1>1, <1>2, Still
  <2> QED
    BY <1>1, <1>2, <2>7, <2>8, <2>9, <2>10, StoreParts
<1> QED
  BY <1>3, <1>4

LEMMA RequestKeeps ==
    ASSUME PublicationInv, NEW j \in Jobs, NEW why \in Calls, why # "ack", phase[j] = "owned",
           Request(j, why), UNCHANGED <<queue, deleting>>,
           run' = [h \in Handlers |-> run'[h]], \A h \in Handlers : Carries(h)
    PROVE  Kept
<1>1. CASE Calling(j, why, "read", "none") /\ UNCHANGED store
  BY <1>1, Quietly, BeginCall
<1>2. CASE Calling(j, why, "mark", "none") /\ RequestCancel(j)
  BY <1>2, MarkingKeeps, BeginCall
<1> QED
  BY <1>1, <1>2 DEF Request

LEMMA CallsKeep ==
    ASSUME PublicationInv, NEW j \in Jobs, Expire(j) \/ Poll(j) \/ Cancel(j)
    PROVE  Kept
<1>1. UNCHANGED <<run, queue, deleting>>
  BY DEF Expire, Poll, Cancel
<1>2. CASE Expire(j)
  BY <1>1, <1>2, Quietly, SameThreads, BeginCall DEF Expire
<1>3. CASE Poll(j)
  BY <1>1, <1>3, Quietly, SameThreads, BeginCall DEF Poll
<1>4. CASE Cancel(j)
  BY <1>1, <1>4, SameThreads, RequestKeeps DEF Cancel
<1> QED
  BY <1>2, <1>3, <1>4

LEMMA GiveUpKeeps ==
    ASSUME PublicationInv, NEW h \in Handlers, GiveUp(h)
    PROVE  Kept
<1> DEFINE j == run[h].job
<1>1. /\ Live(h) /\ phase[j] = "owned" /\ run' = [run EXCEPT ![h].lost = TRUE]
      /\ UNCHANGED <<queue, deleting>>
      /\ \/ "timeout" \in Calls /\ Calling(j, "timeout", "read", "none") /\ UNCHANGED store
         \/ "release" \in Calls /\ Request(j, "release")
  BY DEF GiveUp, Leased
<1>2. j \in Jobs
  BY <1>1, Row
<1>3. run' = [k \in Handlers |-> run'[k]] /\ \A k \in Handlers : Carries(k)
  BY <1>1, LostThread
<1>4. CASE "timeout" \in Calls /\ Calling(j, "timeout", "read", "none") /\ UNCHANGED store
  BY <1>1, <1>2, <1>3, <1>4, Quietly, BeginCall
<1>5. CASE "release" \in Calls /\ Request(j, "release")
  BY <1>1, <1>2, <1>3, <1>5, RequestKeeps
<1> QED
  BY <1>1, <1>4, <1>5

LEMMA ReportKeeps ==
    ASSUME PublicationInv, NEW h \in Handlers, Report(h)
    PROVE  Kept
<1> DEFINE j == run[h].job
<1>1. /\ Live(h) /\ run[h].pc \in {"published", "failed"} /\ End(h)
      /\ UNCHANGED <<store, queue, deleting>>
  BY DEF Report, Live
<1>2. j \in Jobs /\ guard # h /\ Committed(run[h], receipt[j])
  BY <1>1, Row DEF Informed, Holders, Guarded
<1>3. Idle \in Run /\ Idle.pc = "idle"
  <2>1. guard' # h
    BY <1>1, <1>2 DEF store
  <2> QED
    BY <1>1, <2>1, EndsRun DEF GoesOn, Idle
<1>4. run' = [k \in Handlers |-> run'[k]] /\ \A k \in Handlers : Carries(k)
  BY <1>1, <1>2, <1>3, OneThread DEF End
<1>5. CASE UNCHANGED call
  <2>1. /\ QueueTyped' /\ phase' = phase /\ tries' = tries /\ call' = call
        /\ Holding(call'[j], phase'[j], tries'[j], receipt'[j])
    BY <1>1, <1>2, <1>5, QueueRow DEF QueueTyped, queue, CallInv, store
  <2> QED
    BY <1>1, <1>2, <1>4, <2>1, Quietly, CallStep
<1>6. CASE ~UNCHANGED call
  <2> DEFINE why == IF At(h, "published") THEN "ack" ELSE "fail"
  <2>1. Leased(h) /\ Calling(j, why, "read", "none")
    BY <1>6 DEF Report
  <2>2. why = "ack" => receipt[j].outcome = "committed"
    BY <1>2 DEF At, Committed
  <2>3. why \in Calls \cup {"ack", "fail"} /\ why # "poll"
    OBVIOUS
  <2> HIDE DEF why
  <2> QED
    BY <1>1, <1>2, <1>4, <2>1, <2>2, <2>3, Quietly, BeginCall DEF Leased
<1> QED
  BY <1>5, <1>6

LEMMA HeldCall ==
    ASSUME PublicationInv, NEW j \in Jobs, call[j] # NoCall
    PROVE  /\ call[j] \in Call /\ call[j].why \in Calls \cup {"ack", "fail"}
           /\ call[j].note \in {"none", "conflict", "cancelling", "active", "settled",
                                "defer", "continue", "cancelled", "published"}
           /\ phase[j] = "owned" \/ (phase[j] = "succeeded" /\ call[j].why = "poll")
           /\ call[j].why = "ack" => receipt[j].outcome = "committed"
<1>1. call[j] \in Call /\ CallInv(j)
  BY QueueRow
<1> QED
  BY <1>1 DEF Call, CallInv, Holding

(* The call ends and the queue is as it was.                               *)
LEMMA CallEnds ==
    ASSUME PublicationInv, NEW j \in Jobs, call' = [call EXCEPT ![j] = NoCall],
           UNCHANGED <<queue, run, deleting>>, StoreStep, Quiet, guard' = guard
    PROVE  Kept
<1>1. /\ QueueTyped' /\ call'[j] = NoCall /\ phase' = phase /\ tries' = tries
      /\ \A k \in Jobs \ {j} : call'[k] = call[k]
  BY QueueRow DEF QueueTyped, queue
<1>2. Same(receipt[j], receipt'[j]) /\ CallInv(j)
  BY QueueRow DEF Quiet
<1>3. Holding(call'[j], phase'[j], tries'[j], receipt'[j])
  BY <1>1, <1>2 DEF Holding, CallInv, Same, NoCall
<1> QED
  BY <1>1, <1>3, SameThreads, CallStep

LEMMA MarkKeeps ==
    ASSUME PublicationInv, NEW j \in Jobs, Mark(j)
    PROVE  Kept
<1>1. /\ call[j].stage = "mark" /\ MarkCancel(j, tries[j]) /\ UNCHANGED <<run, queue, deleting>>
      /\ \/ Calling(j, call[j].why, "read", "none")
         \/ call' = [call EXCEPT ![j] = NoCall]
  BY DEF Mark
<1>2. StoreStep /\ Quiet /\ guard' = guard
  BY <1>1, QueueRow, MarkingKeeps
<1>3. CASE call' = [call EXCEPT ![j] = NoCall]
  BY <1>1, <1>2, <1>3, CallEnds
<1>4. CASE Calling(j, call[j].why, "read", "none")
  <2>1. call[j] # NoCall
    BY <1>1 DEF NoCall
  <2> QED
    BY <1>1, <1>2, <1>4, <2>1, HeldCall, SameThreads, BeginCall
<1> QED
  BY <1>1, <1>3, <1>4

LEMMA ReadKeeps ==
    ASSUME PublicationInv, NEW j \in Jobs, Read(j)
    PROVE  Kept
<1>1. /\ call[j].stage = "read" /\ Calling(j, call[j].why, "ask", Classified(j))
      /\ UNCHANGED <<store, run, queue, deleting>>
  BY DEF Read
<1>2. call[j] # NoCall
  BY <1>1 DEF NoCall
<1>3. Classified(j) \in {"conflict", "cancelling", "active", "settled"}
  BY DEF Classified
<1>4. /\ QueueTyped' /\ call'[j].why = call[j].why /\ call'[j].stage = "ask"
      /\ \A k \in Jobs \ {j} : call'[k] = call[k] /\ phase'[k] = phase[k] /\ tries'[k] = tries[k]
      /\ phase'[j] = phase[j] /\ tries'[j] = tries[j]
  BY <1>1, <1>2, <1>3, HeldCall, CallingTyped
<1>5. Holding(call'[j], phase'[j], tries'[j], receipt'[j])
  BY <1>1, <1>2, <1>4, HeldCall, QueueRow DEF Holding, CallInv, store
<1> QED
  BY <1>1, <1>4, <1>5, Quietly, SameThreads, CallStep

LEMMA AskKeeps ==
    ASSUME PublicationInv, NEW j \in Jobs, Ask(j)
    PROVE  Kept
<1> DEFINE why == call[j].why
<1>1. call[j].stage = "ask" /\ UNCHANGED <<run, queue, deleting>>
  BY DEF Ask
<1>2. call[j] # NoCall
  BY <1>1 DEF NoCall
<1>3. /\ why \in Calls \cup {"ack", "fail"} /\ CallInv(j) /\ StoreInv
      /\ phase[j] = "owned" \/ (phase[j] = "succeeded" /\ why = "poll")
      /\ why = "ack" => receipt[j].outcome = "committed"
  BY <1>2, HeldCall, QueueRow
<1>4. ASSUME NEW note \in {"defer", "continue", "cancelled", "published", "none"},
             Calling(j, why, "apply", note), StoreStep, ~Free => Quiet, guard' = guard,
             note = "published" => receipt'[j].outcome = "committed" /\ receipt'[j].attempt = tries[j],
             why = "ack" => note # "none"
      PROVE  Kept
  <2>1. /\ QueueTyped' /\ call'[j].why = why /\ call'[j].stage = "apply" /\ call'[j].note = note
        /\ \A k \in Jobs \ {j} : call'[k] = call[k] /\ phase'[k] = phase[k] /\ tries'[k] = tries[k]
        /\ phase'[j] = phase[j] /\ tries'[j] = tries[j]
    BY <1>1, <1>3, <1>4, CallingTyped
  <2>2. Evolves(receipt[j], receipt'[j])
    BY <1>4 DEF StoreStep
  <2>3. receipt[j].outcome = "committed" => receipt'[j].outcome = "committed"
                                            /\ receipt'[j].attempt = receipt[j].attempt
    BY <2>2 DEF Evolves, Same
  <2>4. Holding(call'[j], phase'[j], tries'[j], receipt'[j])
    BY <1>3, <1>4, <2>1, <2>3 DEF Holding, CallInv
  <2> QED
    BY <1>1, <1>4, <2>1, <2>4, SameThreads, CallStep
<1>5. CASE Calling(j, why, "apply", "defer") /\ UNCHANGED store
  BY <1>4, <1>5, Quietly
<1>6. CASE \E o \in {"none", "published", "failed", "cancelled", "verifying", "unavailable"} :
                /\ RecoverPublication(j, tries[j], FALSE, o)
                /\ LET attempt == IF o = "published" \/ receipt'[j].outcome = "cancelled"
                                    THEN receipt'[j].attempt ELSE checkpoint'[j].attempt
                   IN  Calling(j, call[j].why, "apply",
                               Answered(o, call[j].note, attempt, tries[j]))
  <2>1. PICK o \in {"none", "published", "failed", "cancelled", "verifying", "unavailable"} :
                /\ RecoverPublication(j, tries[j], FALSE, o)
                /\ LET attempt == IF o = "published" \/ receipt'[j].outcome = "cancelled"
                                    THEN receipt'[j].attempt ELSE checkpoint'[j].attempt
                   IN  Calling(j, call[j].why, "apply",
                               Answered(o, call[j].note, attempt, tries[j]))
    BY <1>6
  <2>2. PICK attempt : /\ o = "published" => attempt = receipt'[j].attempt
                       /\ Calling(j, why, "apply", Answered(o, call[j].note, attempt, tries[j]))
    BY <2>1
  <2>3. /\ StoreStep /\ (~Free => Quiet) /\ guard' = guard
        /\ o = "published" => receipt'[j].outcome = "committed"
        /\ receipt[j].outcome = "committed" => o \in {"published", "unavailable"}
    BY <1>3, <2>1, RecoverWrites
  <2> DEFINE note == Answered(o, call[j].note, attempt, tries[j])
  <2>4. /\ note \in {"defer", "continue", "cancelled", "published", "none"}
        /\ note = "published" => o = "published" /\ attempt = tries[j]
        /\ o \in {"published", "unavailable"} => note # "none"
    BY DEF Answered
  <2> HIDE DEF note
  <2>5. note = "published" => receipt'[j].outcome = "committed" /\ receipt'[j].attempt = tries[j]
    BY <2>2, <2>3, <2>4
  <2>6. why = "ack" => note # "none"
    BY <1>3, <2>3, <2>4
  <2> QED
    BY <1>4, <2>2, <2>3, <2>4, <2>5, <2>6 DEF note
<1> QED
  BY <1>5, <1>6 DEF Ask

LEMMA ApplyKeeps ==
    ASSUME PublicationInv, NEW j \in Jobs, Apply(j)
    PROVE  Kept
<1> DEFINE c == call[j]
<1>1. c.stage = "apply" /\ call' = [call EXCEPT ![j] = NoCall] /\ UNCHANGED <<store, deleting>>
  BY DEF Apply
<1>2. c # NoCall /\ CallInv(j)
  BY <1>1, QueueRow DEF NoCall
<1>3. /\ call'[j] = NoCall /\ call' \in [Jobs -> Call \cup {NoCall}]
      /\ \A k \in Jobs \ {j} : call'[k] = call[k]
  BY <1>1, QueueRow
<1>4. /\ phase[j] \in Lifecycle!Phase /\ tries[j] \in 0..MaxTries /\ grants[j] \in 0..MaxGrants
      /\ grants[j] \in Nat
  BY QueueRow, QueuePublicationAssumption
<1>5. StoreStep /\ Quiet /\ guard' = guard /\ receipt'[j] = receipt[j]
  BY <1>1, Quietly
<1>6. CASE c.why = "expired" /\ Continue(j)
  <2>1. PICK h \in Handlers :
            /\ ~Live(h) /\ grants[j] < MaxGrants
            /\ Queue(j, "owned", tries[j], grants[j] + 1)
            /\ run' = [run EXCEPT ![h] = Started(j, tries[j], grants[j] + 1)]
    BY <1>6 DEF Continue
  <2>2. tries[j] \in 1..MaxTries /\ tries[j] # 0
    BY <1>2, <1>4, <1>6 DEF CallInv, Holding
  <2>3. "owned" \in Lifecycle!Phase /\ grants[j] + 1 \in 0..MaxGrants /\ grants[j] + 1 \in Nat
    BY <1>4, <2>1, QueuePublicationAssumption DEF Lifecycle!Phase
  <2>4. /\ QueueTyped' /\ phase'[j] = "owned" /\ tries'[j] = tries[j]
        /\ \A k \in Jobs \ {j} : phase'[k] = phase[k] /\ tries'[k] = tries[k]
    BY <1>1, <1>3, <1>4, <2>1, <2>3, QueueWrite
  <2>5. run' = [k \in Handlers |-> run'[k]] /\ \A k \in Handlers : Carries(k)
    BY <2>1, <2>2, <2>3, StartedThread
  <2>6. Holding(call'[j], phase'[j], tries'[j], receipt'[j])
    BY <1>3, <2>2, <2>4, Unheld
  <2> QED
    BY <1>1, <1>3, <1>5, <2>4, <2>5, <2>6, CallStep
<1>7. ASSUME NEW P \in {"succeeded", "cancelled", "waiting", "dead"}, Become(j, P), UNCHANGED run,
             P = "succeeded" => receipt[j].outcome = "committed" /\ receipt[j].attempt = tries[j]
      PROVE  Kept
  <2>1. P \in Lifecycle!Phase /\ Queue(j, P, tries[j], grants[j])
    BY <1>7 DEF Lifecycle!Phase, Become
  <2>2. /\ QueueTyped' /\ phase'[j] = P /\ tries'[j] = tries[j]
        /\ \A k \in Jobs \ {j} : phase'[k] = phase[k] /\ tries'[k] = tries[k]
    BY <1>1, <1>3, <1>4, <2>1, QueueWrite
  <2>3. Holding(call'[j], phase'[j], tries'[j], receipt'[j])
    BY <1>3, <1>5, <1>7, <2>2 DEF Holding, NoCall
  <2> QED
    BY <1>1, <1>3, <1>5, <1>7, <2>2, <2>3, SameThreads, CallStep
<1>8. CASE c.note = "published" /\ Become(j, "succeeded") /\ UNCHANGED run
  BY <1>1, <1>2, <1>7, <1>8 DEF CallInv, Holding
<1>9. CASE Become(j, "cancelled") /\ UNCHANGED run
  BY <1>7, <1>9
<1>10. CASE UNCHANGED queue /\ UNCHANGED run
  BY <1>1, <1>5, <1>10, CallEnds
<1>11. CASE c.note = "none" /\ Absent(j) /\ UNCHANGED run
  <2>1. c.why # "ack"
    BY <1>1, <1>2, <1>11 DEF CallInv, Holding
  <2>2. ASSUME NEW retryable \in BOOLEAN, Failed(j, retryable)
        PROVE  Kept
    BY <1>7, <1>11, <2>2 DEF Failed
  <2>3. \/ \E retryable \in BOOLEAN : Failed(j, retryable)
        \/ Become(j, "cancelled") \/ UNCHANGED queue
    BY <1>11, <2>1 DEF Absent
  <2> QED
    BY <1>9, <1>10, <1>11, <2>2, <2>3
<1> QED
  BY <1>6, <1>8, <1>9, <1>10, <1>11 DEF Apply

LEMMA AbandonKeeps ==
    ASSUME PublicationInv, NEW j \in Jobs, Abandon(j)
    PROVE  Kept
<1>1. /\ call' = [call EXCEPT ![j] = NoCall] /\ marking' = marking \ {j}
      /\ UNCHANGED <<checkpoint, receipt, document, points, collection, guard, run, queue, deleting>>
  BY DEF Abandon
<1>2. StoreInv /\ marking \subseteq Jobs
  BY DEF PublicationInv, StoreInv, StoreTyped
<1>3. StoreStep /\ Quiet /\ guard' = guard
  BY <1>1, <1>2, Still, StoreParts
<1> QED
  BY <1>1, <1>3, CallEnds

LEMMA MaintenanceKeeps ==
    ASSUME PublicationInv, Archive \/ DeletePoints \/ DeleteDocument
    PROVE  Kept
<1>1. UNCHANGED <<checkpoint, receipt, guard, marking, run, queue, call>>
  BY DEF Archive, DeletePoints, DeleteDocument
<1>2. StoreInv /\ collection \in {"active", "archived"} /\ deleting \in BOOLEAN
      /\ document \in Document /\ DocumentOK(document)
      /\ points \in [1..Batches -> {Nobody} \cup (Token \X Handlers)]
  BY DEF PublicationInv, StoreInv, StoreTyped, QueueTyped
<1>3. collection' \in {"active", "archived"} /\ deleting' \in BOOLEAN
  BY <1>2 DEF Archive, DeletePoints, DeleteDocument
<1>4. DocumentTyped /\ (guard # NoHandler => document' = document)
  <2>1. CASE UNCHANGED document /\ points' \in {NoPoints, points}
    BY <1>2, <2>1 DEF DocumentTyped, NoPoints
  <2>2. CASE /\ Free /\ deleting /\ UNCHANGED points
             /\ document' = [document EXCEPT !.status = "deleted", !.chunks = FALSE]
    <3>1. document.status # "absent"
      BY <2>2 DEF PublicationInv
    <3> QED
      BY <1>2, <2>2, <3>1 DEF DocumentTyped, Document, DocumentOK, Free
  <2> QED
    BY <2>1, <2>2 DEF Archive, DeletePoints, DeleteDocument
<1>5. StoreStep /\ (~Free => Quiet)
  BY <1>1, <1>2, <1>3, <1>4, Still, StoreParts, ReceiptKept DEF Quiet, Free
<1>6. run \in [Handlers -> Run] /\ QueueTyped'
  BY <1>1, <1>3 DEF PublicationInv, QueueTyped, queue
<1>7. \A h \in Handlers : RunInv(h)'
  BY <1>1, <1>5, SameThreads, ThreadsCarry
<1>8. \A j \in Jobs : CallInv(j)'
  BY <1>1 DEF PublicationInv, CallInv, queue
<1>9. deleting' => document'.status # "absent"
  BY <1>5 DEF PublicationInv, Archive, DeletePoints, DeleteDocument, StoreStep
<1> QED
  BY <1>1, <1>5, <1>6, <1>7, <1>8, <1>9 DEF PublicationInv, StoreStep, Kept

LEMMA NextKeeps ==
    ASSUME PublicationInv, Next
    PROVE  Kept
<1>1. ASSUME NEW j \in Jobs,
             \/ Submit(j) \/ Withdrawn(j) \/ Expire(j) \/ Poll(j) \/ Cancel(j)
             \/ Mark(j) \/ Read(j) \/ Ask(j) \/ Apply(j) \/ Abandon(j)
      PROVE  Kept
  BY <1>1, SubmitKeeps, CallsKeep, MarkKeeps, ReadKeeps, AskKeeps, ApplyKeeps, AbandonKeeps
<1>2. ASSUME NEW h \in Handlers,
             \/ LoseHeartbeat(h) \/ GiveUp(h) \/ Report(h)
             \/ \E j \in Jobs : ClaimNew(j, h)
             \/ HandlerStep(h) /\ UNCHANGED <<queue, call, deleting>>
      PROVE  Kept
  BY <1>2, LoseHeartbeatKeeps, GiveUpKeeps, ReportKeeps, ClaimNewKeeps, HandlerKeeps
<1> QED
  BY <1>1, <1>2, MaintenanceKeeps DEF Next

LEMMA StutterKeeps ==
    ASSUME PublicationInv, UNCHANGED vars
    PROVE  PublicationInv'
<1>1. UNCHANGED store /\ UNCHANGED <<run, phase, tries, grants, call, deleting>>
  BY DEF vars, store
<1>2. StoreInv' /\ (document'.status = document.status)
  BY <1>1, Quietly DEF StoreStep, store
<1>3. \A h \in Handlers : RunInv(h)'
  BY <1>1 DEF PublicationInv, RunInv, store
<1>4. QueueTyped' /\ \A j \in Jobs : CallInv(j)'
  BY <1>1 DEF PublicationInv, QueueTyped, CallInv, store
<1> QED
  BY <1>1, <1>2, <1>3, <1>4 DEF PublicationInv

LEMMA InitKeeps ==
    ASSUME Init
    PROVE  PublicationInv
<1>1. /\ NoCheckpoint \in Checkpoint /\ NoReceipt \in Receipt /\ NoDocument \in Document
      /\ ReceiptOK(NoReceipt) /\ DocumentOK(NoDocument)
      /\ NoPoints \in [1..Batches -> {Nobody} \cup (Token \X Handlers)]
  <2>1. << >> \in Seq(Handlers) /\ 0 \in 0..MaxTries
    BY PublicationAssumption
  <2>2. NoCheckpoint \in Checkpoint
    BY <2>1 DEF NoCheckpoint, Checkpoint
  <2>3. NoReceipt \in Receipt /\ ReceiptOK(NoReceipt)
    BY <2>1 DEF NoReceipt, Receipt, ReceiptOK
  <2>4. NoDocument \in Document /\ DocumentOK(NoDocument)
    BY DEF NoDocument, Document, DocumentOK
  <2> QED
    BY <2>2, <2>3, <2>4 DEF NoPoints
<1>2. StoreInv
  BY <1>1 DEF Init, StoreInv, StoreTyped
<1>3. Idle \in Run /\ Idle.pc = "idle"
  <2>1. << >> \in Seq(Handlers)
    OBVIOUS
  <2> QED
    BY <2>1, PublicationAssumption DEF Idle, Run, Pc, Error
<1>4. ASSUME NEW h \in Handlers
      PROVE  RunInv(h)
  <2>1. run[h] = Idle /\ guard # h
    BY PublicationAssumption DEF Init
  <2> QED
    BY <1>3, <2>1 DEF RunInv, Informed, Publishing, Committed
<1>5. run \in [Handlers -> Run]
  BY <1>3 DEF Init
<1>6. QueueTyped /\ ~deleting
  <2>1. 0 \in 0..MaxTries /\ 0 \in 0..MaxGrants /\ "absent" \in Lifecycle!Phase
    BY PublicationAssumption, QueuePublicationAssumption DEF Lifecycle!Phase
  <2>2. /\ phase = [j \in Jobs |-> "absent"] /\ tries = [j \in Jobs |-> 0]
        /\ grants = [j \in Jobs |-> 0] /\ call = [j \in Jobs |-> NoCall] /\ deleting = FALSE
    BY DEF Init, Lifecycle!Init
  <2> QED
    BY <2>1, <2>2 DEF QueueTyped
<1>7. ASSUME NEW j \in Jobs
      PROVE  CallInv(j)
  <2>1. call[j] = NoCall /\ phase[j] = "absent"
    BY DEF Init, Lifecycle!Init
  <2> QED
    BY <2>1, Unheld DEF CallInv
<1> QED
  BY <1>2, <1>4, <1>5, <1>6, <1>7 DEF PublicationInv

(* The inductive invariant of the composition: the stores, threads and     *)
(* calls are what they should be, a thread that publishes has the guards,  *)
(* the document and the pending receipt of its own attempt, and whoever    *)
(* was told of a publication finds it committed.                           *)
THEOREM PublicationInvariant == Spec => []PublicationInv
<1>1. Init => PublicationInv
  BY InitKeeps
<1>2. PublicationInv /\ [Next]_vars => PublicationInv'
  BY NextKeeps, StutterKeeps DEF Kept
<1> QED
  BY <1>1, <1>2, PTL DEF Spec

(* The shape of the stores, the threads and the calls, for any number of   *)
(* jobs, threads, attempts and batches.                                    *)
THEOREM PublicationTyping == Spec => []TypeOK
<1>1. PublicationInv => TypeOK
  BY DEF PublicationInv, StoreInv, StoreTyped, QueueTyped, TypeOK
<1> QED
  BY <1>1, PublicationInvariant, PTL

(* A job succeeds only on the committed publication of its own current     *)
(* attempt (_publication_completion), whatever late threads, recoveries    *)
(* and lost acknowledgements do.                                           *)
THEOREM SuccessIsPublished == Spec => []SucceededIsPublished
<1>1. PublicationInv => SucceededIsPublished
  BY DEF PublicationInv, CallInv, Holding, SucceededIsPublished
<1> QED
  BY <1>1, PublicationInvariant, PTL

-----------------------------------------------------------------------------
(* What the receipts and the queue may do in a step *)

(* A receipt that was committed or cancelled stays so (resolve_publication,*)
(* _write_publication), for every environment: retries, takeovers, lost    *)
(* acknowledgements, several jobs for one document.                        *)
THEOREM DecisionsAreFinal == Spec => DecisionIsFinal
<1>1. PublicationInv /\ [Next]_vars =>
          [\A j \in Jobs : receipt[j].outcome \in {"committed", "cancelled"} =>
               receipt'[j].outcome = receipt[j].outcome /\ receipt'[j].attempt = receipt[j].attempt]_vars
  BY NextKeeps DEF Kept, Evolves, Same
<1> QED
  BY <1>1, PublicationInvariant, PTL DEF Spec, DecisionIsFinal

(* One job takes a step of its life and the others rest.                   *)
LEMMA OneLife ==
    ASSUME PublicationInv, NEW j \in Jobs, NEW P, NEW T, NEW G, Queue(j, P, T, G),
           \/ phase[j] = "absent" /\ P = "waiting" /\ T = tries[j] /\ G = grants[j]
           \/ /\ phase[j] = "waiting" /\ P = "owned" /\ tries[j] < MaxTries
              /\ T = tries[j] + 1 /\ G = grants[j] + 1
           \/ phase[j] = "owned" /\ P = "owned" /\ T = tries[j] /\ G = grants[j] + 1
           \/ phase[j] = "owned" /\ P = "waiting" /\ tries[j] < MaxTries
              /\ T = tries[j] /\ G = grants[j]
           \/ /\ phase[j] = "owned" /\ P \in Lifecycle!Settled
              /\ T = tries[j] /\ G = grants[j]
           \/ phase[j] = "waiting" /\ P = "cancelled" /\ T = tries[j] /\ G = grants[j]
    PROVE  Lifecycle!Next
<1>1. /\ phase'[j] = P /\ tries'[j] = T /\ grants'[j] = G
      /\ \A k \in Jobs \ {j} : Lifecycle!Rest(k)
  BY DEF PublicationInv, QueueTyped, Queue, Lifecycle!Rest
<1>2. \/ Lifecycle!Accept(j) \/ Lifecycle!Grant(j) \/ Lifecycle!Transfer(j)
      \/ Lifecycle!Return(j) \/ Lifecycle!Settle(j)
  BY <1>1 DEF Lifecycle!Accept, Lifecycle!Grant, Lifecycle!Transfer, Lifecycle!Return,
              Lifecycle!Settle
<1> QED
  BY <1>1, <1>2 DEF Lifecycle!Next

LEMMA ApplyLives ==
    ASSUME PublicationInv, NEW j \in Jobs, Apply(j)
    PROVE  Lifecycle!Next \/ UNCHANGED queue
<1> DEFINE c == call[j]
<1>1. c # NoCall /\ CallInv(j) /\ c.stage = "apply"
  BY QueueRow DEF Apply, NoCall
<1>2. CASE c.why = "expired" /\ Continue(j)
  <2>1. phase[j] = "owned"
    BY <1>1, <1>2 DEF CallInv, Holding
  <2>2. Queue(j, "owned", tries[j], grants[j] + 1)
    BY <1>2 DEF Continue
  <2> QED
    BY <2>1, <2>2, OneLife
<1>3. ASSUME NEW P \in Lifecycle!Settled, phase[j] = "owned", Become(j, P)
      PROVE  Lifecycle!Next
  BY <1>3, OneLife DEF Become
<1>4. ASSUME NEW retryable \in BOOLEAN, phase[j] = "owned", Failed(j, retryable)
      PROVE  Lifecycle!Next
  <2>1. CASE retryable /\ tries[j] < MaxTries
    <3>1. Queue(j, "waiting", tries[j], grants[j])
      BY <1>4, <2>1 DEF Failed, Become
    <3> QED
      BY <1>4, <2>1, <3>1, OneLife
  <2>2. CASE ~(retryable /\ tries[j] < MaxTries)
    BY <1>3, <1>4, <2>2 DEF Failed, Lifecycle!Settled
  <2> QED
    BY <2>1, <2>2
<1>5. CASE phase[j] = "owned" /\ Absent(j)
  <2>1. \/ \E retryable \in BOOLEAN : Failed(j, retryable)
        \/ Become(j, "succeeded") \/ Become(j, "cancelled") \/ UNCHANGED queue
    BY <1>5 DEF Absent
  <2> QED
    BY <1>3, <1>4, <1>5, <2>1 DEF Lifecycle!Settled
<1> QED
  BY <1>2, <1>3, <1>5 DEF Apply, Lifecycle!Settled

LEMMA NextLives ==
    ASSUME PublicationInv, Next
    PROVE  Lifecycle!Next \/ UNCHANGED queue
<1>1. ASSUME NEW j \in Jobs, Submit(j) \/ Withdrawn(j)
      PROVE  Lifecycle!Next
  BY <1>1, OneLife DEF Submit, Withdrawn, Become
<1>2. ASSUME NEW j \in Jobs, NEW h \in Handlers, ClaimNew(j, h)
      PROVE  Lifecycle!Next
  BY <1>2, OneLife DEF ClaimNew
<1>3. ASSUME NEW j \in Jobs,
             Expire(j) \/ Poll(j) \/ Cancel(j) \/ Mark(j) \/ Read(j) \/ Ask(j) \/ Abandon(j)
      PROVE  UNCHANGED queue
  BY <1>3 DEF Expire, Poll, Cancel, Mark, Read, Ask, Abandon
<1>4. ASSUME NEW h \in Handlers, LoseHeartbeat(h) \/ GiveUp(h) \/ Report(h)
      PROVE  UNCHANGED queue
  BY <1>4 DEF LoseHeartbeat, GiveUp, Report
<1>5. Archive \/ DeletePoints \/ DeleteDocument => UNCHANGED queue
  BY DEF Archive, DeletePoints, DeleteDocument
<1> QED
  BY <1>1, <1>2, <1>3, <1>4, <1>5, ApplyLives DEF Next

(* The queue that obeys the publication authority implements JobLifecycle: *)
(* its answers never end a job twice, start an attempt too many or pass a  *)
(* lease that nobody holds.                                                *)
THEOREM CompositionRefinesLifecycle == Spec => ImplementsLifecycle
<1>1. Init => Lifecycle!Init
  BY DEF Init
<1>2. PublicationInv /\ [Next]_vars => [Lifecycle!Next]_<<phase, tries, grants>>
  <2>1. SUFFICES ASSUME PublicationInv, [Next]_vars
                 PROVE  Lifecycle!Next \/ UNCHANGED <<phase, tries, grants>>
    OBVIOUS
  <2>2. CASE Next
    BY <2>1, <2>2, NextLives DEF queue
  <2>3. CASE UNCHANGED vars
    BY <2>3 DEF vars
  <2> QED
    BY <2>1, <2>2, <2>3
<1> QED
  BY <1>1, <1>2, PublicationInvariant, PTL DEF Spec, ImplementsLifecycle, Lifecycle!Spec

-----------------------------------------------------------------------------
(* Whose publication it is *)

(* Only an attempt that wrote the document itself declares it ready.       *)
ReadyIsOwn(j) == receipt[j].ready => receipt[j].owner = <<j, receipt[j].attempt>>

(* A published document is that of a committed attempt.                    *)
CommittedOwn(j) ==
    receipt[j].outcome = "committed" /\ receipt[j].owner = <<j, receipt[j].attempt>>

PublishedKnown ==
    document.status = "published" =>
        \E j \in Jobs : CommittedOwn(j) /\ receipt[j].owner = document.owner

(* A thread that commits a duplicate holds the guards of a published       *)
(* document, and its receipt names the owner of that document.             *)
DuplicateInv(h) ==
    /\ run[h].pc = "dup" /\ guard = h => document.status = "published"
    /\ run[h].pc \in {"dup_decide", "dup_commit"} =>
          document.status = "published" /\ receipt[run[h].job].owner = document.owner

ReceiptsKnown == \A j \in Jobs : ReadyIsOwn(j)

AuthorityInv ==
    PublicationInv /\ ReceiptsKnown /\ PublishedKnown /\ \A h \in Handlers : DuplicateInv(h)

(* What a step may do: receipts and the published document stay in order,  *)
(* a receipt is committed only while the document it names is published,   *)
(* and one that was asked to cancel only if that was so before.            *)
Rightful ==
    /\ ReceiptsKnown' /\ PublishedKnown'
    /\ \A j \in Jobs : receipt[j].outcome # "committed" /\ receipt'[j].outcome = "committed" =>
          /\ document'.status = "published" /\ document'.owner = receipt'[j].owner
          /\ receipt[j].cancel => document.status = "published"

(* A publication of its own that an attempt has committed is left alone.   *)
Published(j) ==
    /\ CommittedOwn(j) /\ document.owner = receipt[j].owner
    /\ document.status \in {"published", "deleted"}

Spared ==
    (\E j \in Jobs : Published(j)) =>
        document'.owner = document.owner /\ document'.status \in {document.status, "deleted"}

AttemptsStay == \A j \in Jobs : receipt'[j].attempt = receipt[j].attempt

(* The document is not published by the step.                              *)
Stands ==
    document'.status = "published" =>
        document.status = "published" /\ document'.owner = document.owner

(* The receipt of j is decided at most, and committed only as that of a    *)
(* published document.                                                     *)
Decided(j) ==
    LET r == receipt[j] s == receipt'[j] IN
    /\ s.owner = r.owner /\ s.attempt = r.attempt /\ s.ready = r.ready
    /\ r.outcome = "committed" => s.outcome = "committed"
    /\ r.outcome # "committed" /\ s.outcome = "committed" =>
          document.status = "published" /\ document.owner = r.owner /\ document' = document

LEMMA OrderKept ==
    ASSUME ReceiptsKnown, PublishedKnown, Stands, \A j \in Jobs : Decided(j)
    PROVE  Rightful /\ AttemptsStay
<1>1. ReceiptsKnown' /\ AttemptsStay
  BY DEF ReceiptsKnown, ReadyIsOwn, Decided, AttemptsStay
<1>2. PublishedKnown'
  BY DEF PublishedKnown, CommittedOwn, Stands, Decided
<1>3. ASSUME NEW j \in Jobs, receipt[j].outcome # "committed", receipt'[j].outcome = "committed"
      PROVE  /\ document'.status = "published" /\ document'.owner = receipt'[j].owner
             /\ receipt[j].cancel => document.status = "published"
  BY <1>3 DEF Decided
<1> QED
  BY <1>1, <1>2, <1>3 DEF Rightful

LEMMA CleanupStands ==
    ASSUME StoreInv, NEW t \in Token, NEW complete \in BOOLEAN, Cleanup(t, complete)
    PROVE  /\ Stands /\ document'.owner = document.owner
           /\ document.owner # t => document' = document
<1>1. CASE document.owner # t
  BY <1>1 DEF Cleanup, Stands
<1>2. CASE document.owner = t
  <2>1. document \in Document
    BY DEF StoreInv, StoreTyped
  <2>2. Hidden.status = "failed" /\ Hidden.owner = document.owner
    BY <2>1 DEF Hidden, Document
  <2>3. \A clean \in BOOLEAN : \A d \in Unfinished(clean) :
            d.owner = document.owner /\ (d.status = "published" => document.status = "published")
    BY <2>1, <2>2 DEF Unfinished, Hidden, Document
  <2>4. PICK clean \in {TRUE, complete} :
            IF document.status = "deleted" THEN UNCHANGED document
            ELSE IF complete THEN document' = Hidden
            ELSE document' \in Unfinished(clean)
    BY <1>2 DEF Cleanup
  <2> QED
    BY <1>2, <2>2, <2>3, <2>4 DEF Stands
<1> QED
  BY <1>1, <1>2

(* Compensating attempt t spares the publications of all other jobs.       *)
LEMMA CleanupSpares ==
    ASSUME StoreInv, NEW j \in Jobs, NEW a, <<j, a>> \in Token, NEW complete \in BOOLEAN,
           Cleanup(<<j, a>>, complete), receipt[j].outcome # "committed"
    PROVE  Spared
<1>1. document.owner # <<j, a>> => document' = document
  BY CleanupStands
<1>2. ASSUME NEW k \in Jobs, Published(k)
      PROVE  document' = document
  BY <1>1, <1>2 DEF CommittedOwn, Published
<1> QED
  BY <1>2 DEF Spared

LEMMA Unmoved ==
    ASSUME UNCHANGED document
    PROVE  Stands /\ Spared
BY DEF Stands, Spared

LEMMA DecidedAll ==
    ASSUME StoreInv, UNCHANGED receipt
    PROVE  \A j \in Jobs : Decided(j)
BY DEF Decided

(* A commit publishes the document of the attempt that waits for it.       *)
LEMMA PublishRightful ==
    ASSUME StoreInv, ReceiptsKnown, NEW j \in Jobs, Awaiting(j),
           receipt[j].owner = <<j, receipt[j].attempt>>, CanPublish, PublishDocument
    PROVE  Rightful /\ Spared /\ AttemptsStay
<1>1. document \in Document /\ \A k \in Jobs : receipt[k] \in Receipt
  BY DEF StoreInv, StoreTyped
<1>2. /\ document'.status = "published" /\ document'.owner = document.owner
      /\ document.status # "deleted"
  BY <1>1 DEF PublishDocument, CanPublish, Document
<1>3. ASSUME NEW k \in Jobs
      PROVE  /\ receipt'[k].owner = receipt[k].owner /\ receipt'[k].attempt = receipt[k].attempt
             /\ receipt'[k].ready = receipt[k].ready
             /\ Awaiting(k) => receipt'[k].outcome = "committed" /\ ~receipt[k].cancel
             /\ ~Awaiting(k) => receipt'[k] = receipt[k]
  BY <1>1 DEF PublishDocument, CanPublish, Receipt
<1>4. ReceiptsKnown' /\ AttemptsStay
  BY <1>3 DEF ReceiptsKnown, ReadyIsOwn, AttemptsStay
<1>5. PublishedKnown'
  BY <1>2, <1>3 DEF PublishedKnown, CommittedOwn, Awaiting
<1>6. ASSUME NEW k \in Jobs, receipt[k].outcome # "committed", receipt'[k].outcome = "committed"
      PROVE  /\ document'.status = "published" /\ document'.owner = receipt'[k].owner
             /\ receipt[k].cancel => document.status = "published"
  BY <1>2, <1>3, <1>6 DEF Awaiting
<1>7. Spared
  BY <1>2 DEF Spared, Published
<1> QED
  BY <1>4, <1>5, <1>6, <1>7 DEF Rightful

(* The decision of one receipt.                                            *)
LEMMA ResolveDecides ==
    ASSUME StoreInv, NEW j \in Jobs, receipt[j].outcome = "pending",
           NEW outcome \in {"committed", "failed", "cancelled"},
           receipt' = [receipt EXCEPT ![j] = Resolved(receipt[j], outcome)],
           outcome = "committed" =>
               document.status = "published" /\ document.owner = receipt[j].owner
                   /\ document' = document
    PROVE  \A k \in Jobs : Decided(k)
<1>1. receipt \in [Jobs -> Receipt]
  BY DEF StoreInv, StoreTyped
<1>2. receipt[j] \in Receipt
  BY <1>1
<1>3. LET s == Resolved(receipt[j], outcome) IN
      /\ s.owner = receipt[j].owner /\ s.attempt = receipt[j].attempt
      /\ s.ready = receipt[j].ready
      /\ s.outcome = "committed" => outcome = "committed"
  BY <1>2 DEF Resolved, Receipt
<1>4. receipt'[j] = Resolved(receipt[j], outcome) /\ \A k \in Jobs \ {j} : receipt'[k] = receipt[k]
  BY <1>1
<1>5. Decided(j)
  BY <1>3, <1>4 DEF Decided
<1>6. ASSUME NEW k \in Jobs \ {j} PROVE Decided(k)
  BY <1>4 DEF Decided
<1> QED
  BY <1>5, <1>6

Recovery == Rightful /\ Spared /\ AttemptsStay

LEMMA DecideRightful ==
    ASSUME StoreInv, ReceiptsKnown, PublishedKnown,
           NEW j \in Jobs, NEW cancel \in BOOLEAN, NEW d, Decide(j, cancel, d)
    PROVE  Recovery
<1> DEFINE r == receipt[j]
           own == <<j, r.attempt>>
           owned == document.owner = r.owner
           flag == cancel \/ r.cancel
           published == owned /\ document.status = "published"
           ready == owned /\ ~published /\ r.ready /\ ~flag
           publishable == collection = "active" /\ document.status = "processing"
           retired == IF ready THEN r.owner ELSE own
           resolve(outcome) == /\ receipt' = [receipt EXCEPT ![j] = Resolved(r, outcome)]
                               /\ d = Resolved(r, outcome).outcome
<1>1. r.outcome = "pending"
  BY DEF Decide
<1>2. r \in Receipt /\ ReceiptOK(r)
  BY DEF StoreInv, StoreTyped
<1>3. own \in Token
  BY <1>1, <1>2, PublicationAssumption DEF ReceiptOK, Receipt, Token
<1>4. \A complete \in Completeness : complete \in BOOLEAN
  BY DEF Completeness
<1>5. ready => r.owner = own
  BY DEF ReceiptsKnown, ReadyIsOwn
<1>6. ASSUME NEW complete \in Completeness, Cleanup(own, complete)
      PROVE  Stands /\ Spared
  BY <1>1, <1>3, <1>4, <1>6, CleanupStands, CleanupSpares
<1>7. ASSUME Stands, Spared, \A k \in Jobs : Decided(k)
      PROVE  Recovery
  BY <1>7, OrderKept DEF Recovery
<1>8. CASE /\ \/ UNCHANGED <<document, points>>
              \/ \E complete \in Completeness : Cleanup(retired, complete)
           /\ UNCHANGED receipt
  <2>1. \A k \in Jobs : Decided(k)
    BY <1>8, DecidedAll
  <2>2. Stands /\ Spared
    BY <1>5, <1>6, <1>8, Unmoved
  <2> QED
    BY <1>7, <2>1, <2>2
<1>9. CASE /\ published
           /\ resolve(IF r.owner = own THEN "committed"
                      ELSE IF flag THEN "cancelled"
                      ELSE IF collection # "active" THEN "failed"
                      ELSE "committed")
           /\ UNCHANGED <<document, points>>
  <2>1. PICK outcome \in {"committed", "failed", "cancelled"} : resolve(outcome)
    BY <1>9
  <2>2. \A k \in Jobs : Decided(k)
    BY <1>1, <1>9, <2>1, ResolveDecides
  <2> QED
    BY <1>7, <1>9, <2>2, Unmoved
<1>10. CASE /\ ready /\ ~publishable
            /\ \E complete \in Completeness : Cleanup(r.owner, complete)
            /\ resolve("failed")
  <2>1. Stands /\ Spared
    BY <1>5, <1>6, <1>10
  <2>2. \A k \in Jobs : Decided(k)
    BY <1>1, <1>10, ResolveDecides
  <2> QED
    BY <1>7, <2>1, <2>2
<1>11. CASE /\ ready /\ publishable
            /\ CanPublish /\ PublishDocument
  <2>1. Awaiting(j)
    BY <1>1, <1>11 DEF Awaiting
  <2> QED
    BY <1>5, <1>11, <2>1, PublishRightful DEF Recovery
<1>12. CASE \E complete \in Completeness :
                  /\ IF owned THEN Cleanup(own, complete) ELSE UNCHANGED <<document, points>>
                  /\ IF flag /\ ~complete /\ (owned \/ document.status = "absent")
                       THEN Free /\ d = "verifying" /\ UNCHANGED receipt
                       ELSE resolve(IF flag THEN "cancelled" ELSE "failed")
  <2>1. PICK complete \in Completeness :
                  /\ IF owned THEN Cleanup(own, complete) ELSE UNCHANGED <<document, points>>
                  /\ IF flag /\ ~complete /\ (owned \/ document.status = "absent")
                       THEN Free /\ d = "verifying" /\ UNCHANGED receipt
                       ELSE resolve(IF flag THEN "cancelled" ELSE "failed")
    BY <1>12
  <2>2. Stands /\ Spared
    BY <1>6, <2>1, Unmoved
  <2>3. CASE UNCHANGED receipt
    BY <1>7, <2>2, <2>3, DecidedAll
  <2>4. CASE resolve(IF flag THEN "cancelled" ELSE "failed")
    <3>1. PICK outcome \in {"failed", "cancelled"} : resolve(outcome)
      BY <2>4
    <3>2. \A k \in Jobs : Decided(k)
      BY <1>1, <3>1, ResolveDecides
    <3> QED
      BY <1>7, <2>2, <3>2
  <2> QED
    BY <2>1, <2>3, <2>4
<1> QED
  BY <1>8, <1>9, <1>10, <1>11, <1>12 DEF Decide

LEMMA RetireRightful ==
    ASSUME StoreInv, ReceiptsKnown, PublishedKnown,
           NEW j \in Jobs, CancelledEarly(j), NEW o, RetireCancelled(j, o)
    PROVE  Recovery
<1> DEFINE c == checkpoint[j]
           own == <<j, c.attempt>>
           mine == c.named /\ document.owner = own
<1>1. UNCHANGED receipt /\ receipt[j].outcome # "committed"
  BY DEF RetireCancelled, CancelledEarly
<1>2. PICK complete \in Completeness :
           IF mine THEN Cleanup(own, complete) ELSE UNCHANGED <<document, points>>
  BY DEF RetireCancelled
<1>3. complete \in BOOLEAN
  BY DEF Completeness
<1>4. mine => own \in Token
  BY DEF StoreInv, StoreTyped, DocumentOK, Token, Nobody, Document
<1>5. CASE mine
  <2>1. Stands /\ Spared
    BY <1>1, <1>2, <1>3, <1>4, <1>5, CleanupStands, CleanupSpares
  <2> QED
    BY <1>1, <2>1, DecidedAll, OrderKept DEF Recovery
<1>6. CASE ~mine
  BY <1>1, <1>2, <1>6, Unmoved, DecidedAll, OrderKept DEF Recovery
<1> QED
  BY <1>5, <1>6

LEMMA RecoverRightful ==
    ASSUME StoreInv, ReceiptsKnown, PublishedKnown, NEW j \in Jobs, NEW cancel \in BOOLEAN,
           NEW expected, NEW o, RecoverPublication(j, expected, cancel, o)
    PROVE  Recovery
<1>1. CASE UNCHANGED <<receipt, document>>
  BY <1>1, Unmoved, DecidedAll, OrderKept DEF Recovery
<1>2. CASE CancelledEarly(j) /\ RetireCancelled(j, o)
  BY <1>2, RetireRightful
<1>3. CASE \E d \in {"committed", "failed", "cancelled", "verifying"} :
              \/ Decide(j, cancel, d)
              \/ UNCHANGED <<receipt, document, points>>
  BY <1>1, <1>3, DecideRightful
<1> QED
  BY <1>1, <1>2, <1>3 DEF RecoverPublication

(* The steps of threads *)

Working(m) == m.pc \notin {"idle", "published", "failed"}

(* Thread m goes on as n while its receipt r becomes s: it ends, reports,  *)
(* or stays in its attempt, whose intent, once stored, it has tried.       *)
Continues(m, n, r, s) ==
    \/ n.pc = "idle"
    \/ /\ n.job = m.job /\ n.attempt = m.attempt /\ m.pc # "idle"
       /\ \/ n.pc \in {"published", "failed"}
          \/ n.tried
          \/ Working(m) /\ ~m.tried /\ s.attempt = r.attempt

(* What thread a has as n if it is about to commit a duplicate.            *)
Doubles(a, n, g, s, d) ==
    /\ n.pc = "dup" /\ g = a => d.status = "published"
    /\ n.pc \in {"dup_decide", "dup_commit"} => d.status = "published" /\ s.owner = d.owner

Turns(a, n) ==
    /\ run' = [run EXCEPT ![a] = n]
    /\ Doubles(a, n, guard', receipt'[n.job], document')
    /\ "intent" \in Failures \/ Continues(run[a], n, receipt[run[a].job], receipt'[run[a].job])

(* A thread that has not tried to publish compensates its own attempt.     *)
Compensating(a) ==
    /\ run[a].pc = "compensate" /\ ~run[a].tried
    /\ document.owner # Me(a) => document' = document

Acts(a) ==
    /\ Rightful /\ Fenced(a) /\ guard' \in {guard, a, NoHandler}
    /\ \E n : Turns(a, n)
    /\ Spared \/ Compensating(a)
    /\ \A j \in Jobs : \/ receipt'[j].attempt = receipt[j].attempt
                       \/ j = run[a].job /\ receipt'[j].attempt = run[a].attempt

LEMMA Moves ==
    ASSUME NEW a \in Handlers, NEW n, run' = [run EXCEPT ![a] = n], Working(run[a]),
           n.job = run[a].job, n.attempt = run[a].attempt, n.tried = run[a].tried,
           receipt'[n.job].attempt = receipt[n.job].attempt,
           Doubles(a, n, guard', receipt'[n.job], document')
    PROVE  Turns(a, n)
BY DEF Turns, Continues, Working

LEMMA EndTurns ==
    ASSUME NEW h \in Handlers, End(h)
    PROVE  \E n : Turns(h, n)
<1>1. Idle.pc = "idle"
  BY DEF Idle
<1>2. Turns(h, Idle)
  BY <1>1 DEF Turns, Continues, Doubles, End
<1> QED
  BY <1>2

LEMMA DoneTurns ==
    ASSUME PublicationInv, NEW h \in Handlers, Live(h), NEW pc \in {"published", "failed"},
           Done(h, pc)
    PROVE  \E n : Turns(h, n)
<1> DEFINE m == run[h]
           n == Reporting(m.job, m.attempt, m.grant, pc, m.lost)
<1>1. m \in Run /\ m.job \in Jobs /\ run \in [Handlers -> Run]
  BY Row
<1>2. m.attempt \in 1..MaxTries /\ m.grant \in Nat /\ m.lost \in BOOLEAN
  BY <1>1 DEF Run
<1>3. n.pc = pc /\ n.job = m.job /\ n.attempt = m.attempt
  BY <1>1, <1>2, ReportingRow
<1>4. run' = [run EXCEPT ![h] = n]
  BY <1>1 DEF Done, Reporting
<1> HIDE DEF n
<1>5. Turns(h, n)
  BY <1>3, <1>4 DEF Turns, Continues, Doubles, Live
<1> QED
  BY <1>5

LEMMA GotoTurns ==
    ASSUME PublicationInv, NEW h \in Handlers, Working(run[h]), NEW pc \in Pc \ {"idle"}, Goto(h, pc),
           pc = "dup" => guard' # h, pc \notin {"dup_decide", "dup_commit"},
           receipt'[run[h].job].attempt = receipt[run[h].job].attempt
    PROVE  \E n : Turns(h, n)
<1> DEFINE n == [run[h] EXCEPT !.pc = pc]
<1>1. run[h] \in Run /\ run \in [Handlers -> Run]
  BY Row
<1>2. /\ run' = [run EXCEPT ![h] = n] /\ n.pc = pc /\ n.job = run[h].job
      /\ n.attempt = run[h].attempt /\ n.tried = run[h].tried
  BY <1>1 DEF Goto, Run
<1> HIDE DEF n
<1>3. Turns(h, n)
  BY <1>2, Moves DEF Doubles
<1> QED
  BY <1>3

LEMMA ThrowTurns ==
    ASSUME PublicationInv, NEW h \in Handlers, Working(run[h]), NEW e \in Error, Throw(h, e),
           receipt'[run[h].job].attempt = receipt[run[h].job].attempt
    PROVE  \E n : Turns(h, n)
<1> DEFINE n == [run[h] EXCEPT !.pc = "except", !.error = e, !.cancel = @ \/ e = "cancel"]
<1>1. run[h] \in Run /\ run \in [Handlers -> Run]
  BY Row
<1>2. run' = [run EXCEPT ![h] = n]
  BY <1>1 DEF Throw
<1>3. /\ n.pc = "except" /\ n.job = run[h].job
      /\ n.attempt = run[h].attempt /\ n.tried = run[h].tried
  BY <1>1 DEF Run
<1> HIDE DEF n
<1>4. Turns(h, n)
  BY <1>2, <1>3, Moves DEF Doubles
<1> QED
  BY <1>4

LEMMA ThrowGuard ==
    ASSUME NEW h \in Handlers, NEW e, Throw(h, e)
    PROVE  guard' \in {guard, NoHandler} /\ (guard # h => guard' = guard)
BY DEF Throw

(* A step that leaves receipts and document alone.                         *)
LEMMA QuietActs ==
    ASSUME AuthorityInv, NEW a \in Handlers, UNCHANGED <<receipt, document>>,
           guard' \in {guard, a, NoHandler}, guard \notin {a, NoHandler} => guard' = guard,
           NEW n, Turns(a, n)
    PROVE  Acts(a)
<1>1. StoreInv
  BY DEF AuthorityInv, PublicationInv
<1>2. Rightful /\ Spared /\ AttemptsStay
  BY <1>1, Unmoved, DecidedAll, OrderKept DEF AuthorityInv
<1>3. Fenced(a)
  BY <1>1, Still DEF Fenced
<1> QED
  BY <1>2, <1>3 DEF Acts, AttemptsStay

LEMMA ThrowActs ==
    ASSUME AuthorityInv, NEW h \in Handlers, Working(run[h]), NEW e \in Error, Throw(h, e),
           UNCHANGED <<receipt, document>>
    PROVE  Acts(h)
<1>1. PICK n : Turns(h, n)
  BY ThrowTurns DEF AuthorityInv
<1> QED
  BY <1>1, ThrowGuard, QuietActs

LEMMA RecoverActs ==
    ASSUME AuthorityInv, NEW h \in Handlers, Live(h), NEW expected, NEW cancel \in BOOLEAN, NEW o,
           RecoverPublication(run[h].job, expected, cancel, o), AttemptsStay => \E n : Turns(h, n)
    PROVE  Acts(h)
<1>1. run[h].job \in Jobs /\ StoreInv
  BY Row DEF AuthorityInv
<1>2. Recovery
  BY <1>1, RecoverRightful DEF AuthorityInv
<1>3. (~Free => Quiet) /\ guard' = guard
  BY <1>1, RecoverWrites
<1> QED
  BY <1>2, <1>3 DEF Recovery, Acts, AttemptsStay, Fenced, Free

LEMMA RecoversAct ==
    ASSUME AuthorityInv, NEW h \in Handlers, Recover(h) \/ Restart(h)
    PROVE  Acts(h)
<1>1. Live(h) /\ Working(run[h]) /\ PublicationInv /\ run[h].job \in Jobs
  BY Row DEF Recover, Restart, At, Live, Working, AuthorityInv
<1>2. \E o, expected :
          /\ RecoverPublication(run[h].job, expected, FALSE, o)
          /\ \/ Done(h, "published") \/ Done(h, "failed") \/ End(h)
             \/ Goto(h, "restart") \/ Goto(h, "begin")
  BY DEF Recover, Restart
<1>3. AttemptsStay => \E n : Turns(h, n)
  <2>1. CASE Done(h, "published") \/ Done(h, "failed")
    BY <1>1, <2>1, DoneTurns
  <2>2. CASE End(h)
    BY <2>2, EndTurns
  <2>3. CASE Goto(h, "restart") \/ Goto(h, "begin")
    BY <1>1, <2>3, GotoTurns DEF Pc, AttemptsStay
  <2> QED
    BY <1>2, <2>1, <2>2, <2>3
<1> QED
  BY <1>1, <1>2, <1>3, RecoverActs

LEMMA BeginActs ==
    ASSUME AuthorityInv, NEW h \in Handlers, Begin(h)
    PROVE  Acts(h)
<1> DEFINE j == run[h].job  c == BegunCheckpoint(j, run[h].attempt)
<1>1. /\ Live(h) /\ Working(run[h]) /\ PublicationInv
      /\ UNCHANGED <<receipt, document, guard>>
  BY DEF Begin, At, Live, Working, AuthorityInv
<1>2. run[h] \in Run /\ run \in [Handlers -> Run]
  BY <1>1, Row
<1>3. \E n : Turns(h, n)
  <2>1. CASE run' = [run EXCEPT ![h].pc = "identify", ![h].out = c.outputs,
                                ![h].resumed = c.outputs # << >>, ![h].cancel = c.cancel]
    <3> DEFINE n == [run[h] EXCEPT !.pc = "identify", !.out = c.outputs,
                                   !.resumed = c.outputs # << >>, !.cancel = c.cancel]
    <3> HIDE DEF c
    <3>1. run' = [run EXCEPT ![h] = n]
      BY <1>2, <2>1
    <3>2. /\ n.pc = "identify" /\ n.job = j /\ n.attempt = run[h].attempt
          /\ n.tried = run[h].tried
      BY <1>2 DEF Run
    <3> HIDE DEF n
    <3>3. Turns(h, n)
      BY <1>1, <3>1, <3>2, Moves DEF Doubles
    <3> QED
      BY <3>3
  <2>2. CASE Done(h, "failed")
    BY <1>1, <2>2, DoneTurns
  <2> QED
    BY <2>1, <2>2 DEF Begin
<1> QED
  BY <1>1, <1>3, QuietActs

LEMMA SaveActs ==
    ASSUME AuthorityInv, NEW h \in Handlers, Working(run[h]), guard # h, NEW outputs,
           NEW pc \in {"dup", "outputs", "claim", "index"}, Save(h, outputs, pc)
    PROVE  Acts(h)
<1> DEFINE j == run[h].job
           n == [run[h] EXCEPT !.pc = pc, !.out = outputs, !.cancel = @ \/ checkpoint[j].cancel]
<1>1. PublicationInv /\ UNCHANGED <<receipt, document>>
  BY DEF Save, AuthorityInv
<1>2. run[h] \in Run /\ run \in [Handlers -> Run]
  BY <1>1, Row
<1>3. CASE /\ run' = [run EXCEPT ![h].pc = pc, ![h].out = outputs,
                                 ![h].cancel = @ \/ checkpoint[j].cancel]
           /\ UNCHANGED guard
  <2>1. run' = [run EXCEPT ![h] = n]
    BY <1>2, <1>3
  <2>2. n.pc = pc /\ n.job = j /\ n.attempt = run[h].attempt /\ n.tried = run[h].tried
    BY <1>2 DEF Run
  <2> HIDE DEF n
  <2>3. Turns(h, n)
    BY <1>1, <1>3, <2>1, <2>2, Moves DEF Doubles
  <2> QED
    BY <1>1, <1>3, <2>3, QuietActs
<1>4. CASE Throw(h, "owner")
  BY <1>1, <1>4, ThrowActs DEF Error
<1> QED
  BY <1>3, <1>4 DEF Save

LEMMA SavesAct ==
    ASSUME AuthorityInv, NEW h \in Handlers, Identify(h) \/ SaveOutputs(h) \/ Manifest(h)
    PROVE  Acts(h)
<1>1. Working(run[h]) /\ run[h].pc \in {"identify", "produced", "manifest"}
  BY DEF Identify, SaveOutputs, Manifest, At, Working
<1>2. guard # h
  BY <1>1, Row DEF Holders, Guarded, AuthorityInv
<1>3. \E outputs : \E pc \in {"dup", "outputs", "claim", "index"} : Save(h, outputs, pc)
  <2>1. CASE Identify(h)
    BY <2>1 DEF Identify
  <2>2. CASE SaveOutputs(h)
    BY <2>2 DEF SaveOutputs
  <2>3. CASE Manifest(h)
    BY <2>3 DEF Manifest
  <2> QED
    BY <2>1, <2>2, <2>3
<1> QED
  BY <1>1, <1>2, <1>3, SaveActs

LEMMA EnterActs ==
    ASSUME AuthorityInv, NEW h \in Handlers, Enter(h)
    PROVE  Acts(h)
<1>1. /\ guard = NoHandler /\ guard' = h /\ UNCHANGED <<receipt, document, run>>
      /\ Working(run[h]) /\ run[h].pc \in Guarded
      /\ run[h].pc = "dup" => document.status = "published"
  BY DEF Enter, Working, Guarded, At, Free
<1>2. run \in [Handlers -> Run]
  BY Row DEF AuthorityInv
<1>3. Doubles(h, run[h], guard', receipt'[run[h].job], document')
  BY <1>1 DEF Doubles, Guarded
<1>4. Turns(h, run[h])
  BY <1>1, <1>2, <1>3, Moves
<1> QED
  BY <1>1, <1>4, QuietActs

LEMMA OutputsVerifyAct ==
    ASSUME AuthorityInv, NEW h \in Handlers, Outputs(h) \/ Verify(h) \/ Except(h)
    PROVE  Acts(h)
<1>1. Live(h) /\ Working(run[h]) /\ PublicationInv /\ UNCHANGED <<receipt, document>>
  BY DEF Outputs, Verify, Except, At, Live, Working, AuthorityInv, store
<1>2. CASE Outputs(h) \/ Except(h)
  <2>1. guard' = guard
    BY <1>2 DEF Outputs, Except, store
  <2>2. \/ \E pc \in {"produced", "claim", "compensate"} : Goto(h, pc)
        \/ End(h) \/ Done(h, "failed")
    <3>1. CASE Outputs(h)
      BY <3>1 DEF Outputs
    <3>2. CASE Except(h)
      BY <3>2 DEF Except
    <3> QED
      BY <1>2, <3>1, <3>2
  <2>3. \E n : Turns(h, n)
    <3>1. CASE \E pc \in {"produced", "claim", "compensate"} : Goto(h, pc)
      BY <1>1, <3>1, GotoTurns DEF Pc
    <3>2. CASE End(h)
      BY <3>2, EndTurns
    <3>3. CASE Done(h, "failed")
      BY <1>1, <3>3, DoneTurns
    <3> QED
      BY <2>2, <3>1, <3>2, <3>3
  <2> QED
    BY <1>1, <2>1, <2>3, QuietActs
<1>3. CASE Verify(h)
  <2>1. CASE Goto(h, "intent") /\ UNCHANGED guard
    <3>1. \E n : Turns(h, n)
      BY <1>1, <2>1, GotoTurns DEF Pc
    <3> QED
      BY <1>1, <2>1, <3>1, QuietActs
  <2>2. CASE Throw(h, "other")
    BY <1>1, <2>2, ThrowActs DEF Error
  <2> QED
    BY <1>3, <2>1, <2>2 DEF Verify
<1> QED
  BY <1>2, <1>3

(* A step that holds the guards and changes the document, not its status.  *)
LEMMA DocumentActs ==
    ASSUME AuthorityInv, NEW h \in Handlers, guard \in {h, NoHandler}, guard' = NoHandler,
           UNCHANGED receipt, Stands, Spared \/ Compensating(h), NEW n, Turns(h, n)
    PROVE  Acts(h)
<1>1. StoreInv /\ ReceiptsKnown /\ PublishedKnown
  BY DEF AuthorityInv, PublicationInv
<1>2. Rightful /\ AttemptsStay
  BY <1>1, DecidedAll, OrderKept
<1> QED
  BY <1>2 DEF Acts, AttemptsStay, Fenced

LEMMA ClaimActs ==
    ASSUME AuthorityInv, NEW h \in Handlers, Claim(h)
    PROVE  Acts(h)
<1> DEFINE m == run[h]
           kept == m.resumed /\ document.status # "absent"
           foreign == document.owner \notin {Nobody, Me(h)}
           l == IF kept THEN document.lineage ELSE h
           claimed == [run EXCEPT ![h].pc = "chunks", ![h].wrote = TRUE, ![h].lineage = l]
           failed == [run EXCEPT ![h].pc = "except", ![h].wrote = TRUE, ![h].error = "other"]
           written == IF kept THEN document
                      ELSE [status |-> "processing", owner |-> Me(h),
                            lineage |-> h, chunks |-> document.chunks]
<1>1. /\ Working(m) /\ guard = h /\ guard' = NoHandler /\ UNCHANGED receipt
  BY DEF Claim, At, Working, Held
<1>2. m \in Run /\ run \in [Handlers -> Run] /\ PublicationInv
  BY Row DEF AuthorityInv
<1>3. CASE Goto(h, "dup") /\ UNCHANGED <<document, points>>
  <2>1. guard' # h
    BY <1>1, PublicationAssumption
  <2>2. \E n : Turns(h, n)
    BY <1>1, <1>2, <1>3, <2>1, GotoTurns DEF Pc
  <2> QED
    BY <1>1, <1>3, <2>2, QuietActs
<1>4. CASE \E e \in Error : Throw(h, e) /\ UNCHANGED <<document, points>>
  BY <1>1, <1>4, ThrowActs
<1>5. CASE /\ document.status \notin {"published", "deleted"} /\ document' = written
           /\ run' = claimed \/ run' = failed \/ End(h)
  <2>1. Stands /\ Spared
    BY <1>5 DEF Stands, Spared, Published
  <2>2. \E n : Turns(h, n)
    <3>1. CASE run' = claimed
      <4> DEFINE n == [m EXCEPT !.pc = "chunks", !.wrote = TRUE, !.lineage = l]
      <4>1. run' = [run EXCEPT ![h] = n]
        BY <1>2, <3>1
      <4> HIDE DEF l
      <4>2. n.pc = "chunks" /\ n.job = m.job /\ n.attempt = m.attempt /\ n.tried = m.tried
        BY <1>2 DEF Run
      <4> HIDE DEF n
      <4>3. Turns(h, n)
        BY <1>1, <4>1, <4>2, Moves DEF Doubles
      <4> QED
        BY <4>3
    <3>2. CASE run' = failed
      <4> DEFINE n == [m EXCEPT !.pc = "except", !.wrote = TRUE, !.error = "other"]
      <4>1. run' = [run EXCEPT ![h] = n]
        BY <1>2, <3>2
      <4>2. n.pc = "except" /\ n.job = m.job /\ n.attempt = m.attempt /\ n.tried = m.tried
        BY <1>2 DEF Run
      <4> HIDE DEF n
      <4>3. Turns(h, n)
        BY <1>1, <4>1, <4>2, Moves DEF Doubles
      <4> QED
        BY <4>3
    <3> QED
      BY <1>5, <3>1, <3>2, EndTurns
  <2> QED
    BY <1>1, <2>1, <2>2, DocumentActs
<1>6. \/ Goto(h, "dup") /\ UNCHANGED <<document, points>>
      \/ \E e \in Error : Throw(h, e) /\ UNCHANGED <<document, points>>
      \/ /\ document.status \notin {"published", "deleted"} /\ document' = written
         /\ run' = claimed \/ run' = failed \/ End(h)
  BY DEF Claim, Error
<1> QED
  BY <1>3, <1>4, <1>5, <1>6

LEMMA WritesAct ==
    ASSUME AuthorityInv, NEW h \in Handlers, Chunks(h) \/ Index(h)
    PROVE  Acts(h)
<1> DEFINE m == run[h]
<1>1. /\ Working(m) /\ guard = h /\ guard' = NoHandler /\ UNCHANGED receipt
  BY DEF Chunks, Index, At, Working, Held
<1>2. m \in Run /\ run \in [Handlers -> Run] /\ PublicationInv /\ document \in Document
  BY Row DEF AuthorityInv, PublicationInv, StoreInv, StoreTyped
<1>3. CASE Chunks(h)
  <2>1. document'.status = document.status /\ document'.owner = document.owner
    BY <1>2, <1>3 DEF Chunks, Document
  <2>2. Stands /\ Spared
    BY <2>1 DEF Stands, Spared
  <2>3. \E n : Turns(h, n)
    BY <1>1, <1>2, <1>3, GotoTurns DEF Chunks, Pc
  <2> QED
    BY <1>1, <2>2, <2>3, DocumentActs
<1>4. CASE Index(h)
  <2> DEFINE pc == IF m.next = Batches THEN "verify" ELSE "index"
             n == [m EXCEPT !.next = @ + 1, !.pc = pc]
  <2>1. run' = [run EXCEPT ![h] = n] /\ UNCHANGED document
    BY <1>2, <1>4 DEF Index
  <2>2. n.pc \in {"verify", "index"} /\ n.job = m.job /\ n.attempt = m.attempt /\ n.tried = m.tried
    BY <1>2 DEF Run
  <2> HIDE DEF n
  <2>3. Turns(h, n)
    BY <1>1, <2>1, <2>2, Moves DEF Doubles
  <2> QED
    BY <1>1, <2>1, <2>3, QuietActs
<1> QED
  BY <1>3, <1>4

(* An intent is that of the thread's own attempt.                          *)
Intended(j, a, owner) ==
    /\ Rightful /\ receipt'[j].attempt = a /\ receipt'[j].owner = owner
    /\ \A k \in Jobs \ {j} : receipt'[k] = receipt[k]

LEMMA IntentRightful ==
    ASSUME StoreInv, ReceiptsKnown, PublishedKnown, NEW j \in Jobs, NEW a \in 1..MaxTries,
           NEW owner \in Token, NEW ready \in BOOLEAN, CanIntend(j, a, owner),
           ready => owner = <<j, a>>, UNCHANGED document,
           receipt' = [receipt EXCEPT ![j] = Intent(j, a, owner, ready)]
    PROVE  Intended(j, a, owner)
<1> DEFINE s == Intent(j, a, owner, ready)
<1>1. s.attempt = a /\ s.owner = owner /\ Evolves(receipt[j], s)
  BY IntentRow
<1>2. /\ s.ready => s.owner = <<j, s.attempt>>
      /\ s.outcome = "committed" => receipt[j].outcome = "committed"
  BY DEF Intent, ReceiptsKnown, ReadyIsOwn
<1>3. receipt'[j] = s /\ \A k \in Jobs \ {j} : receipt'[k] = receipt[k]
  BY DEF StoreInv, StoreTyped
<1> HIDE DEF s
<1>4. receipt[j].outcome = "committed" =>
          receipt'[j].outcome = "committed" /\ receipt'[j].attempt = receipt[j].attempt
              /\ receipt'[j].owner = receipt[j].owner
  BY <1>1, <1>3 DEF Evolves, Same
<1>5. ReceiptsKnown'
  BY <1>2, <1>3 DEF ReceiptsKnown, ReadyIsOwn
<1>6. PublishedKnown'
  <2> SUFFICES ASSUME document.status = "published" PROVE PublishedKnown'
    BY DEF PublishedKnown
  <2>1. PICK k \in Jobs : CommittedOwn(k) /\ receipt[k].owner = document.owner
    BY DEF PublishedKnown
  <2>2. CommittedOwn(k)' /\ receipt'[k].owner = document'.owner
    BY <1>3, <1>4, <2>1 DEF CommittedOwn
  <2> QED
    BY <2>2 DEF PublishedKnown
<1>7. \A k \in Jobs : receipt'[k].outcome = "committed" => receipt[k].outcome = "committed"
  BY <1>2, <1>3
<1> QED
  BY <1>1, <1>3, <1>5, <1>6, <1>7 DEF Rightful, Intended

LEMMA IntendActs ==
    ASSUME AuthorityInv, NEW h \in Handlers, Working(run[h]), guard = h, NEW owner \in Token,
           owner = document.owner, NEW ready \in BOOLEAN, ready => owner = Me(h),
           NEW pc \in {"decide", "dup_decide"},
           pc = "dup_decide" => document.status = "published",
           Intend(h, owner, ready, pc)
    PROVE  Acts(h)
<1> DEFINE j == run[h].job  a == run[h].attempt
<1>1. /\ PublicationInv /\ StoreInv /\ run[h] \in Run /\ run \in [Handlers -> Run] /\ j \in Jobs
      /\ a \in 1..MaxTries
  BY Row DEF AuthorityInv, Run, Working, Live
<1>2. UNCHANGED document
  BY DEF Intend
<1>3. CASE CanIntend(j, a, owner)
  <2>1. receipt' = [receipt EXCEPT ![j] = Intent(j, a, owner, ready)]
    BY <1>3 DEF Intend
  <2>2. Intended(j, a, owner)
    <3>1. StoreInv /\ ReceiptsKnown /\ PublishedKnown /\ (ready => owner = <<j, a>>)
      BY <1>1 DEF AuthorityInv, Me
    <3> HIDE DEF j, a
    <3> QED
      BY <1>1, <1>2, <1>3, <2>1, <3>1, IntentRightful
  <2>3. Spared
    BY <1>2, Unmoved
  <2>4. CASE UNCHANGED guard /\ run' = [run EXCEPT ![h].pc = pc, ![h].tried = TRUE]
    <3> DEFINE n == [run[h] EXCEPT !.pc = pc, !.tried = TRUE]
    <3>1. run' = [run EXCEPT ![h] = n]
      BY <1>1, <2>4
    <3>2. n.pc = pc /\ n.job = j /\ n.attempt = a /\ n.tried
      BY <1>1 DEF Run
    <3> HIDE DEF n
    <3>3. Turns(h, n)
      BY <1>2, <2>2, <3>1, <3>2 DEF Intended, Turns, Doubles, Continues, Working
    <3> QED
      BY <2>2, <2>3, <2>4, <3>3 DEF Intended, Acts, Fenced
  <2>5. CASE "intent" \in Failures /\ Throw(h, "other")
    <3> DEFINE n == [run[h] EXCEPT !.pc = "except", !.error = "other",
                                   !.cancel = @ \/ "other" = "cancel"]
    <3>1. run' = [run EXCEPT ![h] = n]
      BY <1>1, <2>5 DEF Throw
    <3>2. n.pc = "except"
      BY <1>1 DEF Run
    <3> HIDE DEF n
    <3>3. Turns(h, n)
      BY <2>5, <3>1, <3>2 DEF Turns, Doubles
    <3>4. guard' \in {guard, h, NoHandler}
      BY <2>5, ThrowGuard
    <3> QED
      BY <2>2, <2>3, <3>3, <3>4 DEF Intended, Acts, Fenced
  <2> QED
    BY <1>3, <2>4, <2>5 DEF Intend
<1>4. CASE ~CanIntend(j, a, owner)
  BY <1>2, <1>4, ThrowActs DEF Intend, Error
<1> QED
  BY <1>3, <1>4

LEMMA IntentsAct ==
    ASSUME AuthorityInv, NEW h \in Handlers, BeginPublication(h) \/ BeginDuplicate(h)
    PROVE  Acts(h)
<1> DEFINE m == run[h]
<1>1. /\ Live(h) /\ Working(m) /\ guard = h /\ m.pc \in {"intent", "dup"}
  BY DEF BeginPublication, BeginDuplicate, At, Working, Live, Held
<1>2. /\ m \in Run /\ m.job \in Jobs /\ StoreInv /\ DocumentOK(document)
      /\ Publishing(h, m, guard, receipt[m.job], document)
  BY <1>1, Row DEF AuthorityInv, Informed, StoreInv
<1>3. Me(h) \in Token
  BY <1>2 DEF Me, Token, Run
<1>4. CASE BeginPublication(h)
  <2>1. document.owner = Me(h) /\ Intend(h, Me(h), TRUE, "decide")
    BY <1>1, <1>2, <1>4 DEF BeginPublication, Publishing, At, Me
  <2> QED
    BY <1>1, <1>3, <2>1, IntendActs
<1>5. CASE BeginDuplicate(h)
  <2>1. m.pc = "dup" /\ Intend(h, document.owner, FALSE, "dup_decide")
    BY <1>5 DEF BeginDuplicate, At
  <2>2. document.status = "published"
    BY <1>1, <2>1 DEF AuthorityInv, DuplicateInv
  <2>3. document.owner \in Token
    BY <1>2, <2>2 DEF DocumentOK
  <2> QED
    BY <1>1, <2>1, <2>2, <2>3, IntendActs
<1> QED
  BY <1>4, <1>5

LEMMA ReadsAct ==
    ASSUME AuthorityInv, NEW h \in Handlers, ReadReceipt(h) \/ ReadDuplicate(h)
    PROVE  Acts(h)
<1> DEFINE m == run[h]
<1>1. /\ Live(h) /\ Working(m) /\ m.pc \in {"decide", "dup_decide"}
      /\ UNCHANGED <<receipt, document>> /\ PublicationInv
  BY DEF ReadReceipt, ReadDuplicate, At, Working, Live, AuthorityInv
<1>2. CASE \E e \in Error : Throw(h, e)
  BY <1>1, <1>2, ThrowActs
<1>3. CASE Goto(h, "publish") /\ UNCHANGED guard
  <2>1. \E n : Turns(h, n)
    BY <1>1, <1>3, GotoTurns DEF Pc
  <2> QED
    BY <1>1, <1>3, <2>1, QuietActs
<1>4. CASE m.pc = "dup_decide" /\ Goto(h, "dup_commit") /\ UNCHANGED guard
  <2> DEFINE n == [m EXCEPT !.pc = "dup_commit"]
  <2>1. m \in Run /\ run \in [Handlers -> Run]
    BY <1>1, Row
  <2>2. /\ run' = [run EXCEPT ![h] = n] /\ n.pc = "dup_commit" /\ n.job = m.job
        /\ n.attempt = m.attempt /\ n.tried = m.tried
    BY <1>4, <2>1 DEF Goto, Run
  <2> HIDE DEF n
  <2>3. document.status = "published" /\ receipt[m.job].owner = document.owner
    BY <1>4 DEF AuthorityInv, DuplicateInv
  <2>4. Turns(h, n)
    BY <1>1, <2>2, <2>3, Moves DEF Doubles
  <2> QED
    BY <1>1, <1>4, <2>4, QuietActs
<1>5. \/ \E e \in Error : Throw(h, e)
      \/ Goto(h, "publish") /\ UNCHANGED guard
      \/ m.pc = "dup_decide" /\ Goto(h, "dup_commit") /\ UNCHANGED guard
  <2>1. CASE ReadReceipt(h)
    BY <2>1 DEF ReadReceipt, Error
  <2>2. CASE ReadDuplicate(h)
    BY <2>2 DEF ReadDuplicate, Error, At
  <2> QED
    BY <2>1, <2>2
<1> QED
  BY <1>2, <1>3, <1>4, <1>5

LEMMA PublishActs ==
    ASSUME AuthorityInv, NEW h \in Handlers, Publish(h)
    PROVE  Acts(h)
<1> DEFINE m == run[h]  j == m.job
<1>1. /\ Live(h) /\ Working(m) /\ m.pc = "publish" /\ PublicationInv
  BY DEF Publish, At, Working, Live, AuthorityInv
<1>2. /\ m \in Run /\ j \in Jobs /\ StoreInv /\ Publishing(h, m, guard, receipt[j], document)
  BY <1>1, Row DEF Informed
<1>3. /\ guard = h /\ document.owner = <<j, receipt[j].attempt>> /\ Awaiting(j)
      /\ receipt[j].owner = document.owner
  BY <1>1, <1>2 DEF Publishing, Awaiting
<1>4. CASE CanPublish /\ PublishDocument /\
             ((Goto(h, "settle") /\ guard' = NoHandler) \/ Throw(h, "other"))
  <2>1. Rightful /\ Spared /\ AttemptsStay
    BY <1>2, <1>3, <1>4, PublishRightful DEF AuthorityInv
  <2>2. receipt'[j].attempt = receipt[j].attempt
    BY <1>2, <2>1 DEF AttemptsStay
  <2>3. \E n : Turns(h, n)
    BY <1>1, <1>4, <2>2, GotoTurns, ThrowTurns DEF Pc, Error
  <2>4. guard' \in {guard, h, NoHandler}
    BY <1>4, ThrowGuard
  <2> QED
    BY <1>3, <2>1, <2>3, <2>4 DEF Acts, Fenced, AttemptsStay
<1>5. CASE Throw(h, "other") /\ UNCHANGED <<document, receipt>>
  BY <1>1, <1>5, ThrowActs DEF Error
<1> QED
  BY <1>4, <1>5 DEF Publish

LEMMA CommitDuplicateActs ==
    ASSUME AuthorityInv, NEW h \in Handlers, CommitDuplicate(h)
    PROVE  Acts(h)
<1> DEFINE m == run[h]  j == m.job
<1>1. /\ Live(h) /\ Working(m) /\ m.pc = "dup_commit" /\ PublicationInv /\ UNCHANGED document
  BY DEF CommitDuplicate, At, Working, Live, AuthorityInv
<1>2. /\ m \in Run /\ j \in Jobs /\ StoreInv /\ guard = h
      /\ document.status = "published" /\ receipt[j].owner = document.owner
  BY <1>1, Row DEF Informed, Publishing, AuthorityInv, DuplicateInv
<1>3. CASE /\ receipt[j].outcome \in {"pending", "committed"}
           /\ receipt' = [receipt EXCEPT ![j] = Resolved(@, "committed")]
           /\ guard' = NoHandler /\ Goto(h, "settle")
  <2>1. \A k \in Jobs : Decided(k)
    <3>1. CASE receipt[j].outcome = "pending"
      BY <1>1, <1>2, <1>3, <3>1, ResolveDecides
    <3>2. CASE receipt[j].outcome = "committed"
      <4>1. receipt[j] \in Receipt /\ receipt \in [Jobs -> Receipt]
        BY <1>2 DEF StoreInv, StoreTyped
      <4>2. Resolved(receipt[j], "committed") = receipt[j]
        BY <3>2, <4>1 DEF Resolved, Receipt
      <4>3. receipt' = receipt
        BY <1>3, <4>1, <4>2
      <4> QED
        BY <1>2, <4>3, DecidedAll
    <3> QED
      BY <1>3, <3>1, <3>2
  <2>2. Rightful /\ AttemptsStay /\ Spared
    BY <1>1, <2>1, OrderKept, Unmoved DEF AuthorityInv
  <2>3. \E n : Turns(h, n)
    BY <1>1, <1>2, <1>3, <2>2, GotoTurns DEF Pc, AttemptsStay
  <2> QED
    BY <1>2, <1>3, <2>2, <2>3 DEF Acts, Fenced, AttemptsStay
<1>4. CASE UNCHANGED receipt /\ Throw(h, "owner")
  BY <1>1, <1>4, ThrowActs DEF Error
<1> QED
  BY <1>3, <1>4 DEF CommitDuplicate

LEMMA FinishesAct ==
    ASSUME AuthorityInv, NEW h \in Handlers, Settle(h) \/ Finish(h)
    PROVE  Acts(h)
<1>1. /\ Live(h) /\ PublicationInv /\ UNCHANGED <<receipt, document, guard>>
      /\ Done(h, "published") \/ Done(h, "failed")
  BY DEF Settle, Finish, At, Live, AuthorityInv
<1>2. \E n : Turns(h, n)
  BY <1>1, DoneTurns
<1> QED
  BY <1>1, <1>2, QuietActs

LEMMA InterruptionsAct ==
    ASSUME AuthorityInv, NEW h \in Handlers, Interrupted(h) \/ Fault(h) \/ Crash(h)
    PROVE  Acts(h)
<1>1. UNCHANGED <<receipt, document>>
  BY DEF Interrupted, Fault, Crash
<1>2. CASE Interrupted(h) \/ Fault(h)
  <2>1. Working(run[h])
    BY <1>2 DEF Interrupted, Fault, Checked, Working
  <2>2. \E e \in Error : Throw(h, e)
    BY <1>2 DEF Interrupted, Fault, Raised, Error
  <2> QED
    BY <1>1, <2>1, <2>2, ThrowActs
<1>3. CASE Crash(h)
  <2>1. \E n : Turns(h, n)
    BY <1>3, EndTurns DEF Crash
  <2> QED
    BY <1>1, <1>3, <2>1, QuietActs DEF Crash
<1> QED
  BY <1>2, <1>3

LEMMA ExceptResolveActs ==
    ASSUME AuthorityInv, NEW h \in Handlers, ExceptResolve(h)
    PROVE  Acts(h)
<1> DEFINE m == run[h]
<1>1. /\ Live(h) /\ Working(m) /\ m.pc = "compensate" /\ PublicationInv
  BY DEF ExceptResolve, At, Working, Live, AuthorityInv
<1>2. m \in Run /\ m.job \in Jobs
  BY <1>1, Row
<1>3. CASE UNCHANGED store /\ (End(h) \/ Goto(h, "settle") \/ Done(h, "failed"))
  <2>1. UNCHANGED <<receipt, document, guard>>
    BY <1>3 DEF store
  <2>2. \E n : Turns(h, n)
    <3>1. CASE End(h)
      BY <3>1, EndTurns
    <3>2. CASE Goto(h, "settle")
      BY <1>1, <2>1, <3>2, GotoTurns DEF Pc
    <3>3. CASE Done(h, "failed")
      BY <1>1, <3>3, DoneTurns
    <3> QED
      BY <1>3, <3>1, <3>2, <3>3
  <2> QED
    BY <2>1, <2>2, QuietActs
<1>4. CASE \E o : /\ RecoverPublication(m.job, m.attempt, m.cancel, o)
                  /\ Goto(h, "settle") \/ End(h) \/ Done(h, "failed")
  <2>1. AttemptsStay => \E n : Turns(h, n)
    <3>1. CASE End(h)
      BY <3>1, EndTurns
    <3>2. CASE Goto(h, "settle")
      BY <1>1, <1>2, <3>2, GotoTurns DEF Pc, AttemptsStay
    <3>3. CASE Done(h, "failed")
      BY <1>1, <3>3, DoneTurns
    <3> QED
      BY <1>4, <3>1, <3>2, <3>3
  <2>2. m.cancel \in BOOLEAN
    BY <1>2 DEF Run
  <2> QED
    BY <1>1, <1>4, <2>1, <2>2, RecoverActs
<1>5. \/ UNCHANGED store /\ (End(h) \/ Goto(h, "settle") \/ Done(h, "failed"))
      \/ \E o : /\ RecoverPublication(m.job, m.attempt, m.cancel, o)
                /\ Goto(h, "settle") \/ End(h) \/ Done(h, "failed")
  BY DEF ExceptResolve
<1> QED
  BY <1>3, <1>4, <1>5

LEMMA ExceptCleanupActs ==
    ASSUME AuthorityInv, NEW h \in Handlers, ExceptCleanup(h)
    PROVE  Acts(h)
<1> DEFINE m == run[h]  j == m.job
           cancelled == m.cancel \/ (m.tried /\ receipt[j].cancel)
<1>1. /\ Live(h) /\ Working(m) /\ m.pc = "compensate" /\ guard = NoHandler /\ PublicationInv
      /\ UNCHANGED <<receipt, guard>>
      /\ m.tried => receipt[j].outcome # "committed"
  BY DEF ExceptCleanup, At, Live, Free, Working, AuthorityInv
<1>2. /\ m \in Run /\ j \in Jobs /\ StoreInv /\ run \in [Handlers -> Run] /\ Me(h) \in Token
  BY <1>1, Row DEF Run, Me, Token
<1>3. PICK complete \in Completeness :
              /\ IF m.wrote THEN Cleanup(Me(h), complete) ELSE UNCHANGED <<document, points>>
              /\ \/ End(h) \/ Done(h, "failed")
                 \/ run' = [run EXCEPT ![h].pc = "finish", ![h].cancel = cancelled]
  BY DEF ExceptCleanup
<1>4. complete \in BOOLEAN
  BY DEF Completeness
<1>5. Stands /\ (Spared \/ Compensating(h))
  <2>1. CASE ~m.wrote
    BY <1>3, <2>1, Unmoved
  <2>2. CASE m.wrote
    <3>1. Stands /\ (document.owner # Me(h) => document' = document)
      BY <1>2, <1>3, <1>4, <2>2, CleanupStands
    <3>2. m.tried => Spared
      BY <1>1, <1>2, <1>3, <1>4, <2>2, CleanupSpares DEF Me
    <3> QED
      BY <1>1, <3>1, <3>2 DEF Compensating
  <2> QED
    BY <2>1, <2>2
<1>6. \E n : Turns(h, n)
  <2>1. CASE End(h) \/ Done(h, "failed")
    BY <1>1, <2>1, EndTurns, DoneTurns
  <2>2. CASE run' = [run EXCEPT ![h].pc = "finish", ![h].cancel = cancelled]
    <3> DEFINE n == [m EXCEPT !.pc = "finish", !.cancel = cancelled]
    <3> HIDE DEF cancelled
    <3>1. run' = [run EXCEPT ![h] = n]
      BY <1>2, <2>2
    <3>2. n.pc = "finish" /\ n.job = j /\ n.attempt = m.attempt /\ n.tried = m.tried
      BY <1>2 DEF Run
    <3> HIDE DEF n
    <3>3. Turns(h, n)
      BY <1>1, <3>1, <3>2, Moves DEF Doubles
    <3> QED
      BY <3>3
  <2> QED
    BY <1>3, <2>1, <2>2
<1> QED
  BY <1>1, <1>5, <1>6, DocumentActs

LEMMA HandlerActs ==
    ASSUME AuthorityInv, NEW h \in Handlers, HandlerStep(h)
    PROVE  Acts(h)
BY RecoversAct, BeginActs, SavesAct, EnterActs, OutputsVerifyAct, ClaimActs, WritesAct,
   IntentsAct, ReadsAct, PublishActs, CommitDuplicateActs, FinishesAct, InterruptionsAct,
   ExceptResolveActs, ExceptCleanupActs DEF HandlerStep

LEMMA HandlerLives ==
    ASSUME NEW h \in Handlers, HandlerStep(h)
    PROVE  Live(h)
BY DEF HandlerStep, Recover, Restart, Begin, Identify, Outputs, SaveOutputs, Enter, Claim, Chunks,
       Manifest, Index, Verify, BeginPublication, ReadReceipt, Publish, BeginDuplicate,
       ReadDuplicate, CommitDuplicate, Settle, Interrupted, Fault, Except, ExceptResolve,
       ExceptCleanup, Finish, Crash, At, Live, Guarded, Checked

-----------------------------------------------------------------------------
(* The steps of the queue and of operators *)

(* Thread h goes on as n without a step of its own: it may be told that    *)
(* its lease is lost, be forgotten, or be started, on a new attempt unless *)
(* leases expire.                                                          *)
Follows(h, n) ==
    \/ /\ n.pc = run[h].pc /\ n.job = run[h].job /\ n.attempt = run[h].attempt
       /\ n.tried = run[h].tried
    \/ n.pc = "idle"
    \/ /\ n.pc = "recover" /\ n.job \in Jobs
       /\ "expired" \in Calls \/ (tries[n.job] < n.attempt /\ n.attempt <= tries'[n.job])

Threads ==
    \/ UNCHANGED run
    \/ \E h \in Handlers : \E n : run' = [run EXCEPT ![h] = n] /\ Follows(h, n)

Attends ==
    /\ Rightful /\ Spared /\ AttemptsStay /\ (~Free => Quiet) /\ guard' = guard
    /\ \A j \in Jobs : tries[j] <= tries'[j]
    /\ Threads

LEMMA StillAttends ==
    ASSUME AuthorityInv, UNCHANGED <<receipt, document, guard>>,
           \A j \in Jobs : tries[j] <= tries'[j], Threads
    PROVE  Attends
<1>1. StoreInv /\ ReceiptsKnown /\ PublishedKnown
  BY DEF AuthorityInv, PublicationInv
<1>2. Rightful /\ Spared /\ AttemptsStay /\ Quiet
  BY <1>1, Unmoved, DecidedAll, OrderKept, Still
<1> QED
  BY <1>2 DEF Attends

LEMMA SameTries ==
    ASSUME AuthorityInv
    PROVE  /\ UNCHANGED queue => \A j \in Jobs : tries[j] <= tries'[j]
           /\ \A j \in Jobs : \A P, T, G : tries[j] <= T /\ Queue(j, P, T, G) =>
                 tries'[j] = T /\ \A k \in Jobs : tries[k] <= tries'[k]
<1>1. tries \in [Jobs -> 0..MaxTries]
  BY DEF AuthorityInv, PublicationInv, QueueTyped
<1>2. MaxTries \in Nat
  BY PublicationAssumption
<1>3. \A k \in Jobs : tries[k] \in Nat /\ tries[k] <= tries[k]
  BY <1>1, <1>2
<1>4. UNCHANGED queue => \A j \in Jobs : tries[j] <= tries'[j]
  BY <1>3 DEF queue
<1>5. ASSUME NEW j \in Jobs, NEW P, NEW T, NEW G, tries[j] <= T, Queue(j, P, T, G)
      PROVE  tries'[j] = T /\ \A k \in Jobs : tries[k] <= tries'[k]
  <2>1. tries' = [tries EXCEPT ![j] = T]
    BY <1>5 DEF Queue
  <2> QED
    BY <1>1, <1>3, <1>5, <2>1
<1> QED
  BY <1>4, <1>5

LEMMA LostFollows ==
    ASSUME AuthorityInv, NEW h \in Handlers, run' = [run EXCEPT ![h].lost = TRUE]
    PROVE  Threads
<1> DEFINE n == [run[h] EXCEPT !.lost = TRUE]
<1>1. run[h] \in Run /\ run \in [Handlers -> Run]
  BY Row DEF AuthorityInv
<1>2. run' = [run EXCEPT ![h] = n]
  BY <1>1
<1>3. n.pc = run[h].pc /\ n.job = run[h].job /\ n.attempt = run[h].attempt /\ n.tried = run[h].tried
  BY <1>1 DEF Run
<1> HIDE DEF n
<1> QED
  BY <1>2, <1>3 DEF Threads, Follows

LEMMA EndFollows ==
    ASSUME NEW h \in Handlers, End(h)
    PROVE  Threads
<1>1. Idle.pc = "idle"
  BY DEF Idle
<1> QED
  BY <1>1 DEF End, Threads, Follows

LEMMA StartFollows ==
    ASSUME NEW h \in Handlers, NEW j \in Jobs, NEW a \in 1..MaxTries, NEW g \in Nat,
           run' = [run EXCEPT ![h] = Started(j, a, g)],
           "expired" \in Calls \/ (tries[j] < a /\ a <= tries'[j])
    PROVE  Threads
<1> DEFINE n == Started(j, a, g)
<1>1. n.pc = "recover" /\ n.job = j /\ n.attempt = a
  BY StartedRow
<1> HIDE DEF n
<1>2. Follows(h, n)
  BY <1>1 DEF Follows
<1> QED
  BY <1>2 DEF Threads, n

LEMMA MarkingsAttend ==
    ASSUME AuthorityInv, NEW j \in Jobs, RequestCancel(j) \/ MarkCancel(j, tries[j]),
           UNCHANGED queue, Threads
    PROVE  Attends
<1>1. StoreInv /\ ReceiptsKnown /\ PublishedKnown /\ tries[j] \in 0..MaxTries /\ PublicationInv
  BY QueueRow DEF AuthorityInv, PublicationInv
<1>2. StoreStep /\ Quiet /\ guard' = guard /\ UNCHANGED document
  BY <1>1, MarkingKeeps DEF Quiet
<1>3. ASSUME NEW k \in Jobs PROVE Decided(k)
  <2>1. receipt[k] \in Receipt /\ receipt \in [Jobs -> Receipt]
    BY <1>1 DEF StoreInv, StoreTyped
  <2>2. receipt'[k] = receipt[k] \/ receipt'[k] = [receipt[k] EXCEPT !.cancel = TRUE]
    BY <2>1 DEF RequestCancel, MarkCancel
  <2>3. /\ receipt'[k].owner = receipt[k].owner /\ receipt'[k].attempt = receipt[k].attempt
        /\ receipt'[k].ready = receipt[k].ready /\ receipt'[k].outcome = receipt[k].outcome
    BY <2>1, <2>2 DEF Receipt
  <2> QED
    BY <2>3 DEF Decided
<1>4. Rightful /\ AttemptsStay /\ Spared
  BY <1>1, <1>2, <1>3, Unmoved, OrderKept
<1> QED
  BY <1>2, <1>4, SameTries DEF Attends

LEMMA StandingThreads ==
    ASSUME UNCHANGED run
    PROVE  Threads
BY DEF Threads

LEMMA StoreUnmoved ==
    ASSUME UNCHANGED store
    PROVE  UNCHANGED <<receipt, document, guard>>
BY DEF store

LEMMA JobsAttend ==
    ASSUME AuthorityInv, NEW j \in Jobs,
           \/ Submit(j) \/ Withdrawn(j) \/ Expire(j) \/ Poll(j) \/ Cancel(j)
           \/ Mark(j) \/ Read(j) \/ Abandon(j)
    PROVE  Attends
<1>1. tries[j] \in 0..MaxTries /\ tries[j] <= tries[j]
  BY QueueRow, PublicationAssumption DEF AuthorityInv
<1>2. CASE Submit(j) \/ Withdrawn(j)
  <2>1. UNCHANGED store /\ UNCHANGED run /\ \E P : Queue(j, P, tries[j], grants[j])
    BY <1>2 DEF Submit, Withdrawn, Become
  <2>2. \A k \in Jobs : tries[k] <= tries'[k]
    BY <1>1, <2>1, SameTries
  <2> QED
    BY <2>1, <2>2, StoreUnmoved, StandingThreads, StillAttends
<1>3. CASE Expire(j) \/ Poll(j) \/ Read(j)
  BY <1>3, SameTries, StoreUnmoved, StandingThreads, StillAttends DEF Expire, Poll, Read
<1>4. CASE Cancel(j)
  <2>1. UNCHANGED run /\ UNCHANGED queue /\ (UNCHANGED store \/ RequestCancel(j))
    BY <1>4 DEF Cancel, Request
  <2> QED
    BY <2>1, SameTries, StoreUnmoved, StandingThreads, StillAttends, MarkingsAttend
<1>5. CASE Mark(j)
  BY <1>5, StandingThreads, MarkingsAttend DEF Mark
<1>6. CASE Abandon(j)
  BY <1>6, SameTries, StandingThreads, StillAttends DEF Abandon
<1> QED
  BY <1>2, <1>3, <1>4, <1>5, <1>6

LEMMA AskAttends ==
    ASSUME AuthorityInv, NEW j \in Jobs, Ask(j)
    PROVE  Attends
<1>1. UNCHANGED run /\ UNCHANGED queue
  BY DEF Ask
<1>2. CASE UNCHANGED store
  BY <1>1, <1>2, SameTries, StoreUnmoved, StandingThreads, StillAttends
<1>3. CASE \E o : RecoverPublication(j, tries[j], FALSE, o)
  <2>1. StoreInv /\ ReceiptsKnown /\ PublishedKnown
    BY DEF AuthorityInv, PublicationInv
  <2>2. Recovery
    BY <1>3, <2>1, RecoverRightful
  <2>3. (~Free => Quiet) /\ guard' = guard
    BY <1>3, <2>1, RecoverWrites
  <2> QED
    BY <1>1, <2>2, <2>3, SameTries, StandingThreads DEF Recovery, Attends
<1> QED
  BY <1>2, <1>3 DEF Ask

LEMMA ApplyAttends ==
    ASSUME AuthorityInv, NEW j \in Jobs, Apply(j)
    PROVE  Attends
<1>1. UNCHANGED <<receipt, document, guard>>
  BY StoreUnmoved DEF Apply
<1>2. /\ tries[j] \in 0..MaxTries /\ grants[j] \in 0..MaxGrants /\ tries[j] <= tries[j]
      /\ PublicationInv
  BY QueueRow, PublicationAssumption DEF AuthorityInv
<1>3. CASE call[j].why = "expired" /\ Continue(j)
  <2>1. "expired" \in Calls
    <3>1. call[j] # NoCall
      BY <1>3 DEF NoCall
    <3> QED
      BY <1>2, <1>3, <3>1, HeldCall
  <2>2. PICK h \in Handlers : /\ Queue(j, "owned", tries[j], grants[j] + 1)
                              /\ run' = [run EXCEPT ![h] = Started(j, tries[j], grants[j] + 1)]
    BY <1>3 DEF Continue
  <2>3. tries[j] \in 1..MaxTries /\ grants[j] + 1 \in Nat
    <3>1. call[j] # NoCall
      BY <1>3 DEF NoCall
    <3>2. tries[j] # 0
      BY <1>2, <1>3, <3>1, QueueRow DEF CallInv, Holding
    <3> QED
      BY <1>2, <3>2, PublicationAssumption, QueuePublicationAssumption
  <2>4. Threads
    BY <2>1, <2>2, <2>3, StartFollows
  <2>5. \A k \in Jobs : tries[k] <= tries'[k]
    BY <1>2, <2>2, SameTries
  <2> QED
    BY <1>1, <2>4, <2>5, StillAttends
<1>4. CASE UNCHANGED run /\ (UNCHANGED queue \/ \E P : Queue(j, P, tries[j], grants[j]))
  <2>1. \A k \in Jobs : tries[k] <= tries'[k]
    BY <1>2, <1>4, SameTries
  <2> QED
    BY <1>1, <1>4, <2>1, StandingThreads, StillAttends
<1>5. \/ call[j].why = "expired" /\ Continue(j)
      \/ UNCHANGED run /\ (UNCHANGED queue \/ \E P : Queue(j, P, tries[j], grants[j]))
  BY DEF Apply, Become, Absent, Failed
<1> QED
  BY <1>3, <1>4, <1>5

LEMMA OwnersAttend ==
    ASSUME AuthorityInv, NEW h \in Handlers,
           LoseHeartbeat(h) \/ GiveUp(h) \/ Report(h) \/ \E j \in Jobs : ClaimNew(j, h)
    PROVE  Attends
<1>1. PublicationInv
  BY DEF AuthorityInv
<1>2. CASE LoseHeartbeat(h)
  BY <1>2, SameTries, StoreUnmoved, LostFollows, StillAttends DEF LoseHeartbeat
<1>3. CASE GiveUp(h)
  <2>1. /\ run' = [run EXCEPT ![h].lost = TRUE] /\ UNCHANGED queue
        /\ UNCHANGED store \/ RequestCancel(run[h].job)
    BY <1>3 DEF GiveUp, Request
  <2>2. run[h].job \in Jobs
    BY <1>1, <1>3, Row DEF GiveUp
  <2>3. Threads
    BY <2>1, LostFollows
  <2> QED
    BY <2>1, <2>2, <2>3, SameTries, StoreUnmoved, StillAttends, MarkingsAttend
<1>4. CASE Report(h)
  BY <1>4, SameTries, StoreUnmoved, EndFollows, StillAttends DEF Report
<1>5. ASSUME NEW j \in Jobs, ClaimNew(j, h) PROVE Attends
  <2>1. /\ tries[j] < MaxTries /\ Queue(j, "owned", tries[j] + 1, grants[j] + 1) /\ UNCHANGED store
        /\ run' = [run EXCEPT ![h] = Started(j, tries[j] + 1, grants[j] + 1)]
    BY <1>5 DEF ClaimNew
  <2>2. tries[j] \in Nat /\ grants[j] \in Nat /\ MaxTries \in Nat
    BY <1>1, QueueRow, PublicationAssumption, QueuePublicationAssumption
  <2>3. /\ tries[j] + 1 \in 1..MaxTries /\ grants[j] + 1 \in Nat /\ tries[j] <= tries[j] + 1
        /\ tries[j] < tries[j] + 1
    BY <2>1, <2>2
  <2>4. tries'[j] = tries[j] + 1 /\ \A k \in Jobs : tries[k] <= tries'[k]
    BY <2>1, <2>3, SameTries
  <2>5. tries[j] + 1 <= tries'[j]
    BY <2>2, <2>4
  <2>6. Threads
    BY <2>1, <2>3, <2>5, StartFollows
  <2> QED
    BY <2>1, <2>4, <2>6, StoreUnmoved, StillAttends
<1> QED
  BY <1>2, <1>3, <1>4, <1>5

LEMMA MaintenanceAttends ==
    ASSUME AuthorityInv, Archive \/ DeletePoints \/ DeleteDocument
    PROVE  Attends
<1>1. /\ UNCHANGED receipt /\ UNCHANGED run /\ UNCHANGED queue /\ guard' = guard
      /\ StoreInv /\ ReceiptsKnown /\ PublishedKnown /\ document \in Document
  BY DEF Archive, DeletePoints, DeleteDocument, AuthorityInv, PublicationInv, StoreInv, StoreTyped
<1>2. CASE UNCHANGED document
  BY <1>1, <1>2, SameTries, StandingThreads, StillAttends
<1>3. CASE Free /\ document' = [document EXCEPT !.status = "deleted", !.chunks = FALSE]
  <2>1. document'.status = "deleted" /\ document'.owner = document.owner
    BY <1>1, <1>3 DEF Document
  <2>2. Stands /\ Spared
    BY <2>1 DEF Stands, Spared
  <2>3. Rightful /\ AttemptsStay
    BY <1>1, <2>2, DecidedAll, OrderKept
  <2> QED
    BY <1>1, <1>3, <2>2, <2>3, SameTries, StandingThreads DEF Attends
<1> QED
  BY <1>2, <1>3 DEF Archive, DeletePoints, DeleteDocument

LEMMA NextActs ==
    ASSUME AuthorityInv, Next
    PROVE  \/ Attends
           \/ \E h \in Handlers : Live(h) /\ Acts(h) /\ UNCHANGED queue
<1>1. ASSUME NEW h \in Handlers, HandlerStep(h), UNCHANGED queue
      PROVE  Live(h) /\ Acts(h) /\ UNCHANGED queue
  BY <1>1, HandlerActs, HandlerLives
<1>2. ASSUME NEW j \in Jobs,
             \/ Submit(j) \/ Withdrawn(j) \/ Expire(j) \/ Poll(j) \/ Cancel(j)
             \/ Mark(j) \/ Read(j) \/ Ask(j) \/ Apply(j) \/ Abandon(j)
      PROVE  Attends
  BY <1>2, JobsAttend, AskAttends, ApplyAttends
<1>3. CASE \E j \in Jobs : \/ Submit(j) \/ Withdrawn(j) \/ Expire(j) \/ Poll(j) \/ Cancel(j)
                           \/ Mark(j) \/ Read(j) \/ Ask(j) \/ Apply(j) \/ Abandon(j)
  BY <1>2, <1>3
<1>4. CASE \E h \in Handlers : LoseHeartbeat(h) \/ GiveUp(h) \/ Report(h) \/ \E j \in Jobs : ClaimNew(j, h)
  BY <1>4, OwnersAttend
<1>5. CASE \E h \in Handlers : HandlerStep(h) /\ UNCHANGED <<queue, call, deleting>>
  BY <1>1, <1>5
<1>6. CASE Archive \/ DeletePoints \/ DeleteDocument
  BY <1>6, MaintenanceAttends
<1> QED
  BY <1>3, <1>4, <1>5, <1>6 DEF Next

LEMMA ActsKeep ==
    ASSUME AuthorityInv, PublicationInv', NEW a \in Handlers, Acts(a)
    PROVE  AuthorityInv'
<1>1. PICK n : Turns(a, n)
  BY DEF Acts
<1>2. run \in [Handlers -> Run] /\ PublicationInv
  BY DEF AuthorityInv, PublicationInv
<1>3. run'[a] = n /\ \A k \in Handlers \ {a} : run'[k] = run[k]
  BY <1>1, <1>2 DEF Turns
<1>4. DuplicateInv(a)'
  BY <1>1, <1>3 DEF Turns, Doubles, DuplicateInv
<1>5. ASSUME NEW k \in Handlers \ {a} PROVE DuplicateInv(k)'
  <2>1. DuplicateInv(k) /\ run'[k] = run[k] /\ k # NoHandler
    BY <1>3, PublicationAssumption DEF AuthorityInv
  <2>2. run[k].pc \in {"dup_decide", "dup_commit"} => guard = k
    BY <1>2, Row DEF Informed, Publishing
  <2>3. guard' = k => guard = k
    BY <2>1 DEF Acts
  <2>4. guard = k => Quiet
    BY <2>1 DEF Acts, Fenced
  <2>5. Live(k) => run[k].job \in Jobs
    BY <1>2, Row
  <2> QED
    BY <2>1, <2>2, <2>3, <2>4, <2>5 DEF DuplicateInv, Quiet, Same, Live
<1> QED
  BY <1>4, <1>5 DEF AuthorityInv, Acts, Rightful

LEMMA AttendsKeep ==
    ASSUME AuthorityInv, PublicationInv', Attends
    PROVE  AuthorityInv'
<1>1. run \in [Handlers -> Run] /\ PublicationInv
  BY DEF AuthorityInv, PublicationInv
<1>2. ASSUME NEW k \in Handlers PROVE DuplicateInv(k)'
  <2>1. DuplicateInv(k) /\ k # NoHandler /\ guard' = guard
    BY PublicationAssumption DEF AuthorityInv, Attends
  <2>2. \/ run'[k].pc = run[k].pc /\ run'[k].job = run[k].job
        \/ run'[k].pc \in {"idle", "recover"}
    BY <1>1 DEF Attends, Threads, Follows
  <2>3. run[k].pc \in {"dup_decide", "dup_commit"} => guard = k
    BY <1>1, Row DEF Informed, Publishing
  <2>4. guard = k => Quiet
    BY <2>1 DEF Attends, Free
  <2>5. Live(k) => run[k].job \in Jobs
    BY <1>1, Row
  <2> QED
    BY <2>1, <2>2, <2>3, <2>4, <2>5 DEF DuplicateInv, Quiet, Same, Live
<1> QED
  BY <1>2 DEF AuthorityInv, Attends, Rightful

LEMMA AuthorityStarts ==
    ASSUME Init
    PROVE  AuthorityInv
<1>1. /\ \A j \in Jobs : receipt[j] = NoReceipt
      /\ document = NoDocument /\ \A h \in Handlers : run[h] = Idle
  BY DEF Init
<1>2. ~NoReceipt.ready /\ NoDocument.status = "absent" /\ Idle.pc = "idle"
  BY DEF NoReceipt, NoDocument, Idle
<1> QED
  BY <1>1, <1>2, InitKeeps
     DEF AuthorityInv, ReceiptsKnown, ReadyIsOwn, PublishedKnown, DuplicateInv

LEMMA AuthorityStep ==
    ASSUME AuthorityInv, [Next]_vars
    PROVE  AuthorityInv'
<1>1. CASE Next
  <2>1. PublicationInv'
    BY <1>1, NextKeeps DEF AuthorityInv, Kept
  <2> QED
    BY <1>1, <2>1, NextActs, ActsKeep, AttendsKeep
<1>2. CASE UNCHANGED vars
  <2>1. PublicationInv'
    BY <1>2, StutterKeeps DEF AuthorityInv
  <2> QED
    BY <1>2, <2>1 DEF vars, AuthorityInv, ReceiptsKnown, ReadyIsOwn, PublishedKnown,
                      CommittedOwn, DuplicateInv
<1> QED
  BY <1>1, <1>2

(* Who may publish: a published document has a committed attempt that      *)
(* wrote it (set_document_status commits the receipts that wait for the    *)
(* row, and publish_duplicate finds the row published), in every           *)
(* environment: this is the second half of CommittedIsKept.                *)
THEOREM AuthorityInvariant == Spec => []AuthorityInv
<1>1. Init => AuthorityInv
  BY AuthorityStarts
<1>2. AuthorityInv /\ [Next]_vars => AuthorityInv'
  BY AuthorityStep
<1> QED
  BY <1>1, <1>2, PTL DEF Spec

LEMMA NextRightful ==
    ASSUME AuthorityInv, Next
    PROVE  Rightful
BY NextActs DEF Attends, Acts

(* A receipt that was asked to cancel is committed, if at all, as a        *)
(* duplicate: set_document_status publishes no document whose receipt is   *)
(* being cancelled (publication_decision_guard), but publish_duplicate     *)
(* does not read the flag again and the document was published before.     *)
THEOREM CancelledCommitIsDuplicate ==
    Spec => [][\A j \in Jobs : receipt[j].outcome = "pending" /\ receipt[j].cancel
                                 /\ receipt'[j].outcome = "committed" =>
                   document.status = "published" /\ document'.owner = receipt'[j].owner]_vars
<1>1. AuthorityInv /\ [Next]_vars =>
          [\A j \in Jobs : receipt[j].outcome = "pending" /\ receipt[j].cancel
                             /\ receipt'[j].outcome = "committed" =>
              document.status = "published" /\ document'.owner = receipt'[j].owner]_vars
  BY NextRightful DEF Rightful
<1> QED
  BY <1>1, AuthorityInvariant, PTL DEF Spec

(* Cancellation and commit have one winner (publication_decision_guard):   *)
(* where no second job was submitted for the content, there are no         *)
(* duplicates and a receipt asked to cancel is never committed.            *)
THEOREM CancelledStaysUncommitted ==
    (\A j, k \in Jobs : j = k) => (Spec => CommitWasNotCancelled)
<1> SUFFICES ASSUME \A j, k \in Jobs : j = k PROVE Spec => CommitWasNotCancelled
  OBVIOUS
<1>1. AuthorityInv /\ [Next]_vars =>
          [\A j \in Jobs : receipt[j].outcome = "pending" /\ receipt[j].cancel =>
              receipt'[j].outcome # "committed"]_vars
  <2> SUFFICES ASSUME AuthorityInv, Next, NEW j \in Jobs, receipt[j].outcome = "pending", receipt[j].cancel,
                      receipt'[j].outcome = "committed"
               PROVE  FALSE
    OBVIOUS
  <2>1. document.status = "published"
    BY NextRightful DEF Rightful
  <2>2. PICK k \in Jobs : receipt[k].outcome = "committed"
    BY <2>1 DEF AuthorityInv, PublishedKnown, CommittedOwn
  <2> QED
    BY <2>2
<1> QED
  BY <1>1, AuthorityInvariant, PTL DEF Spec, CommitWasNotCancelled

-----------------------------------------------------------------------------
(* What is committed is kept *)

(* Each attempt has one thread, and a thread that has not tried to publish *)
(* has no receipt of its attempt; so a thread that compensates does not    *)
(* find its own attempt committed.                                         *)
Unpublished(h) ==
    Working(run[h]) /\ ~run[h].tried => receipt[run[h].job].attempt # run[h].attempt

AttemptsInv ==
    /\ AuthorityInv
    /\ \A j \in Jobs : receipt[j].attempt <= tries[j]
    /\ \A h \in Handlers : Live(h) => run[h].attempt <= tries[run[h].job]
    /\ \A h, k \in Handlers :
          Live(h) /\ Live(k) /\ run[h].job = run[k].job /\ run[h].attempt = run[k].attempt => h = k
    /\ \A h \in Handlers : Unpublished(h)
    /\ \A j \in Jobs : CommittedOwn(j) => Published(j)

LEMMA AttemptNumbers ==
    ASSUME PublicationInv
    PROVE  /\ \A j \in Jobs : receipt[j].attempt \in Nat /\ tries[j] \in Nat
           /\ \A h \in Handlers : run[h].attempt \in Nat /\ (Live(h) => run[h].job \in Jobs)
<1>1. ASSUME NEW j \in Jobs PROVE receipt[j].attempt \in Nat /\ tries[j] \in Nat
  BY QueueRow, PublicationAssumption DEF StoreInv, StoreTyped, Receipt
<1>2. ASSUME NEW h \in Handlers PROVE run[h].attempt \in Nat /\ (Live(h) => run[h].job \in Jobs)
  BY Row, PublicationAssumption DEF Run
<1> QED
  BY <1>1, <1>2

LEMMA CommitsKept ==
    ASSUME AttemptsInv, Rightful, \A j \in Jobs : Evolves(receipt[j], receipt'[j]),
           (\E j \in Jobs : Published(j)) =>
               document'.owner = document.owner /\ document'.status \in {document.status, "deleted"}
    PROVE  \A j \in Jobs : CommittedOwn(j)' => Published(j)'
<1> SUFFICES ASSUME NEW j \in Jobs, CommittedOwn(j)' PROVE Published(j)'
  OBVIOUS
<1>1. CASE receipt[j].outcome = "committed"
  <2>1. Same(receipt[j], receipt'[j])
    BY <1>1 DEF Evolves
  <2>2. Published(j)
    BY <1>1, <2>1 DEF AttemptsInv, CommittedOwn, Same
  <2> QED
    BY <2>1, <2>2 DEF Published, Same, CommittedOwn
<1>2. CASE receipt[j].outcome # "committed"
  BY <1>2 DEF Rightful, CommittedOwn, Published
<1> QED
  BY <1>1, <1>2

LEMMA ActsKeepAttempts ==
    ASSUME AttemptsInv, AuthorityInv', \A j \in Jobs : Evolves(receipt[j], receipt'[j]),
           "intent" \notin Failures, NEW a \in Handlers, Live(a), Acts(a), UNCHANGED queue
    PROVE  AttemptsInv'
<1> DEFINE m == run[a]
<1>1. /\ PublicationInv /\ run \in [Handlers -> Run] /\ m.job \in Jobs /\ UNCHANGED tries
  BY Row DEF AttemptsInv, AuthorityInv, queue
<1>2. PICK n : /\ run' = [run EXCEPT ![a] = n]
               /\ Continues(m, n, receipt[m.job], receipt'[m.job])
  BY DEF Acts, Turns
<1>3. run'[a] = n /\ \A k \in Handlers \ {a} : run'[k] = run[k]
  BY <1>1, <1>2
<1>4. n.pc = "idle" \/ (n.job = m.job /\ n.attempt = m.attempt)
  BY <1>2 DEF Continues
<1>5. \A j \in Jobs : \/ receipt'[j].attempt = receipt[j].attempt
                      \/ j = m.job /\ receipt'[j].attempt = m.attempt
  BY DEF Acts
<1>6. \A j \in Jobs : receipt'[j].attempt <= tries'[j]
  BY <1>1, <1>5 DEF AttemptsInv
<1>7. \A h \in Handlers : Live(h)' =>
          Live(h) /\ run'[h].job = run[h].job /\ run'[h].attempt = run[h].attempt
  BY <1>3, <1>4 DEF Live
<1>8. \A h \in Handlers : Live(h)' => run'[h].attempt <= tries'[run'[h].job]
  BY <1>1, <1>7 DEF AttemptsInv
<1>9. \A h, k \in Handlers : Live(h)' /\ Live(k)' /\ run'[h].job = run'[k].job
                             /\ run'[h].attempt = run'[k].attempt => h = k
  BY <1>7 DEF AttemptsInv
<1>10. Unpublished(a)'
  <2> SUFFICES ASSUME Working(n), ~n.tried PROVE receipt'[n.job].attempt # n.attempt
    BY <1>3 DEF Unpublished
  <2>1. /\ n.job = m.job /\ n.attempt = m.attempt /\ Working(m) /\ ~m.tried
        /\ receipt'[m.job].attempt = receipt[m.job].attempt
    BY <1>2 DEF Continues, Working
  <2> QED
    BY <2>1 DEF AttemptsInv, Unpublished
<1>11. ASSUME NEW k \in Handlers \ {a} PROVE Unpublished(k)'
  <2>1. run'[k] = run[k] /\ Unpublished(k) /\ (Working(run[k]) => Live(k) /\ run[k].job \in Jobs)
    BY <1>1, <1>3, Row DEF AttemptsInv, Working, Live
  <2>2. Live(k) /\ run[k].job = m.job => run[k].attempt # m.attempt
    BY DEF AttemptsInv
  <2> QED
    BY <1>5, <2>1, <2>2 DEF Unpublished
<1>12. (\E j \in Jobs : Published(j)) =>
           document'.owner = document.owner /\ document'.status \in {document.status, "deleted"}
  <2>1. CASE Spared
    BY <2>1 DEF Spared
  <2>2. CASE Compensating(a)
    <3>1. receipt[m.job].attempt # m.attempt
      BY <2>2 DEF AttemptsInv, Unpublished, Compensating, Working
    <3>2. ASSUME NEW j \in Jobs, Published(j) PROVE document.owner # Me(a)
      BY <3>1, <3>2 DEF Published, CommittedOwn, Me
    <3> QED
      BY <2>2, <3>2 DEF Compensating
  <2> QED
    BY <2>1, <2>2 DEF Acts
<1>13. \A j \in Jobs : CommittedOwn(j)' => Published(j)'
  BY <1>12, CommitsKept DEF Acts
<1> QED
  BY <1>6, <1>8, <1>9, <1>10, <1>11, <1>13 DEF AttemptsInv

LEMMA AttendsKeepAttempts ==
    ASSUME AttemptsInv, AuthorityInv', \A j \in Jobs : Evolves(receipt[j], receipt'[j]),
           "expired" \notin Calls, Attends
    PROVE  AttemptsInv'
<1>1. PublicationInv /\ run \in [Handlers -> Run] /\ PublicationInv'
  BY DEF AttemptsInv, AuthorityInv, PublicationInv
<1>2. /\ \A j \in Jobs : receipt[j].attempt \in Nat /\ tries[j] \in Nat
      /\ \A h \in Handlers : run[h].attempt \in Nat /\ (Live(h) => run[h].job \in Jobs)
  BY <1>1, AttemptNumbers
<1>3. /\ \A j \in Jobs : tries'[j] \in Nat
      /\ \A h \in Handlers : run'[h].attempt \in Nat /\ (Live(h)' => run'[h].job \in Jobs)
  <2>1. tries' \in [Jobs -> 0..MaxTries] /\ run' \in [Handlers -> Run]
        /\ \A h \in Handlers : RunInv(h)'
    BY <1>1 DEF PublicationInv, QueueTyped
  <2>2. ASSUME NEW h \in Handlers PROVE run'[h].attempt \in Nat /\ (Live(h)' => run'[h].job \in Jobs)
    BY <2>1, PublicationAssumption DEF Run, RunInv, Informed, Equipped, Live
  <2> QED
    BY <2>1, <2>2, PublicationAssumption
<1>4. \A j \in Jobs : tries[j] <= tries'[j] /\ receipt'[j].attempt = receipt[j].attempt
  BY DEF Attends, AttemptsStay
<1> DEFINE Carried(h) == /\ run'[h].pc = run[h].pc /\ run'[h].job = run[h].job
                         /\ run'[h].attempt = run[h].attempt /\ run'[h].tried = run[h].tried
           Fresh(h) == /\ run'[h].job \in Jobs /\ tries[run'[h].job] < run'[h].attempt
                       /\ run'[h].attempt <= tries'[run'[h].job]
<1>5. \E g \in Handlers \cup {NoHandler} :
          /\ \A h \in Handlers \ {g} : Carried(h)
          /\ g \in Handlers => Carried(g) \/ run'[g].pc = "idle" \/ Fresh(g)
  <2>1. CASE UNCHANGED run
    BY <2>1, PublicationAssumption
  <2>2. ASSUME NEW g \in Handlers, NEW n, run' = [run EXCEPT ![g] = n], Follows(g, n)
        PROVE  /\ \A h \in Handlers \ {g} : Carried(h)
               /\ Carried(g) \/ run'[g].pc = "idle" \/ Fresh(g)
    <3>1. run'[g] = n /\ \A h \in Handlers \ {g} : run'[h] = run[h]
      BY <1>1, <2>2
    <3> QED
      BY <2>2, <3>1 DEF Follows
  <2> QED
    BY <2>1, <2>2 DEF Attends, Threads
<1>6. PICK g \in Handlers \cup {NoHandler} :
          /\ \A h \in Handlers \ {g} : Carried(h)
          /\ g \in Handlers => Carried(g) \/ run'[g].pc = "idle" \/ Fresh(g)
  BY <1>5
<1>7. \A j \in Jobs : receipt'[j].attempt <= tries'[j]
  BY <1>2, <1>3, <1>4 DEF AttemptsInv
<1>8. ASSUME NEW h \in Handlers, Live(h)'
      PROVE  (Live(h) /\ Carried(h)) \/ (h = g /\ Fresh(h))
  BY <1>6, <1>8 DEF Live
<1> HIDE DEF Fresh, Carried
<1>9. ASSUME NEW h \in Handlers, Live(h), Carried(h)
      PROVE  /\ run[h].job \in Jobs /\ run'[h].job = run[h].job /\ run'[h].attempt = run[h].attempt
             /\ run[h].attempt <= tries[run[h].job]
  BY <1>2, <1>9 DEF AttemptsInv, Carried
<1>10. ASSUME NEW h \in Handlers, Live(h)' PROVE run'[h].attempt <= tries'[run'[h].job]
  <2>1. CASE Fresh(h)
    BY <2>1 DEF Fresh
  <2>2. CASE Live(h) /\ Carried(h)
    BY <1>2, <1>3, <1>4, <1>9, <2>2
  <2> QED
    BY <1>8, <1>10, <2>1, <2>2
<1>11. ASSUME NEW h \in Handlers, NEW k \in Handlers, Live(h)', Live(k)',
              run'[h].job = run'[k].job, run'[h].attempt = run'[k].attempt
       PROVE  h = k
  <2>1. CASE Live(h) /\ Carried(h) /\ Live(k) /\ Carried(k)
    BY <1>9, <1>11, <2>1 DEF AttemptsInv
  <2>2. CASE h = g /\ Fresh(h) /\ Live(k) /\ Carried(k)
    BY <1>2, <1>3, <1>9, <1>11, <2>2 DEF Fresh
  <2>3. CASE k = g /\ Fresh(k) /\ Live(h) /\ Carried(h)
    BY <1>2, <1>3, <1>9, <1>11, <2>3 DEF Fresh
  <2> QED
    BY <1>8, <1>11, <2>1, <2>2, <2>3
<1>12. ASSUME NEW h \in Handlers PROVE Unpublished(h)'
  <2> SUFFICES ASSUME Working(run'[h]), ~run'[h].tried
               PROVE  receipt'[run'[h].job].attempt # run'[h].attempt
    BY DEF Unpublished
  <2>1. Live(h)'
    BY DEF Working, Live
  <2>2. CASE Live(h) /\ Carried(h)
    BY <1>4, <1>9, <2>2 DEF AttemptsInv, Unpublished, Carried, Working
  <2>3. CASE Fresh(h)
    BY <1>2, <1>3, <1>4, <2>3 DEF AttemptsInv, Fresh
  <2> QED
    BY <1>8, <2>1, <2>2, <2>3
<1>13. \A j \in Jobs : CommittedOwn(j)' => Published(j)'
  BY CommitsKept DEF Attends, Spared
<1> QED
  BY <1>7, <1>10, <1>11, <1>12, <1>13 DEF AttemptsInv

LEMMA AttemptsStart ==
    ASSUME Init
    PROVE  AttemptsInv
<1>1. /\ \A j \in Jobs : receipt[j] = NoReceipt /\ tries[j] = 0
      /\ \A h \in Handlers : run[h] = Idle
  BY DEF Init, Lifecycle!Init
<1>2. NoReceipt.attempt = 0 /\ NoReceipt.outcome # "committed" /\ Idle.pc = "idle"
  BY DEF NoReceipt, Idle
<1> QED
  BY <1>1, <1>2, AuthorityStarts
     DEF AttemptsInv, Unpublished, Live, Working, CommittedOwn

LEMMA AttemptsStep ==
    ASSUME "expired" \notin Calls, "intent" \notin Failures, AttemptsInv, [Next]_vars
    PROVE  AttemptsInv'
<1>1. AuthorityInv /\ AuthorityInv'
  BY AuthorityStep DEF AttemptsInv
<1>2. CASE Next
  <2>1. \A j \in Jobs : Evolves(receipt[j], receipt'[j])
    BY <1>1, <1>2, NextKeeps DEF AuthorityInv, Kept
  <2> QED
    BY <1>1, <1>2, <2>1, NextActs, ActsKeepAttempts, AttendsKeepAttempts
<1>3. CASE UNCHANGED vars
  BY <1>1, <1>3 DEF vars, queue, AttemptsInv, Unpublished, Live, CommittedOwn, Published
<1> QED
  BY <1>2, <1>3

(* Where no lease expires under a thread and no acknowledgement of an      *)
(* intent is lost, a publication an attempt has committed is taken back by *)
(* a deletion only: no failing or late thread compensates it               *)
(* (recover_attempt, _cleanup_failed_document).                            *)
THEOREM CommitsAreKept ==
    "expired" \notin Calls /\ "intent" \notin Failures => (Spec => []CommittedIsKept)
<1> SUFFICES ASSUME "expired" \notin Calls, "intent" \notin Failures
             PROVE  Spec => []CommittedIsKept
  OBVIOUS
<1>1. Init => AttemptsInv
  BY AttemptsStart
<1>2. AttemptsInv /\ [Next]_vars => AttemptsInv'
  BY AttemptsStep
<1>3. AttemptsInv => CommittedIsKept
  BY DEF AttemptsInv, AuthorityInv, PublishedKnown, CommittedOwn, Published, CommittedIsKept
<1> QED
  BY <1>1, <1>2, <1>3, PTL DEF Spec

-----------------------------------------------------------------------------
(* What is left of an attempt that is over *)

(* Without expiring leases, an attempt has one thread.  What follows says  *)
(* which traces each attempt has left in the store, what its thread may    *)
(* rely on, and what the threads of former attempts can still do.          *)

Early == {"recover", "restart", "begin"}
Before == Early \cup {"identify", "outputs", "produced", "claim", "chunks", "manifest", "index",
                      "verify", "intent", "dup"}
Deciding == {"decide", "publish", "dup_decide", "dup_commit"}
Named == (Before \cup Deciding) \ (Early \cup {"identify"})
Unwritten == Early \cup {"identify", "outputs", "produced", "claim", "dup", "dup_decide", "dup_commit"}

(* Nothing of the document can be found.                                   *)
Gone(d, p) == d.status # "published" /\ p = NoPoints

(* The traces of job j: its checkpoint has named the document it wrote, a  *)
(* cancelled attempt has left nothing, and neither has one that found the  *)
(* document of another attempt.                                            *)
Traces(j, c, r, d, p) ==
    /\ \A x \in 1..MaxTries : d.owner = <<j, x>> =>
          x <= c.attempt /\ (x = c.attempt => c.named)
    /\ c.state = "cancelled" /\ d.owner = <<j, c.attempt>> => Gone(d, p)
    /\ r.outcome = "cancelled" /\ d.owner = <<j, r.attempt>> => Gone(d, p)
    /\ r.owner # <<j, r.attempt>> => d.owner # <<j, r.attempt>>
    /\ c.state = "cancelled" => c.cancel \/ c.attempt = r.attempt

TraceInv(j) == Traces(j, checkpoint[j], receipt[j], document, points)

-----------------------------------------------------------------------------
(* What a step may do to the store *)

(* A checkpoint is cancelled when nothing is left of its attempt, and no   *)
(* thread of the attempt holds the guards.                                 *)
Leaves(i) ==
    /\ checkpoint'[i].cancel \/ checkpoint'[i].attempt = receipt'[i].attempt
    /\ document'.owner = <<i, checkpoint[i].attempt>> => Gone(document', points')

Ends(i) ==
    /\ Leaves(i)
    /\ \/ Free \/ ~checkpoint[i].named
       \/ receipt[i].outcome = "cancelled" /\ receipt[i].attempt = checkpoint[i].attempt

(* The checkpoint of an attempt keeps its name and its cancellation.       *)
Extends(c, e) ==
    /\ e.attempt = c.attempt /\ (c.named => e.named) /\ (c.cancel => e.cancel)

CheckpointKept(i) ==
    LET c == checkpoint[i] e == checkpoint'[i] IN
    /\ Extends(c, e) /\ (e.outputs # << >> => c.outputs # << >>)
    /\ e.state = "cancelled" /\ c.state # "cancelled" => Ends(i)

(* A receipt that was asked to cancel is not committed, and one that is    *)
(* cancelled leaves nothing of its attempt.                                *)
Holds(r, s) ==
    /\ s.outcome = r.outcome /\ s.attempt = r.attempt /\ s.owner = r.owner
    /\ r.cancel => s.cancel

Resolves(i, r, s) ==
    /\ r.outcome = "pending" /\ s.outcome \in {"committed", "failed", "cancelled"}
    /\ s.attempt = r.attempt /\ s.owner = r.owner
    /\ s.outcome = "cancelled" /\ document'.owner = <<i, r.attempt>> => Gone(document', points')

ReceiptKeptBy(i) ==
    LET r == receipt[i] s == receipt'[i] IN
    \/ Holds(r, s)
    \/ Resolves(i, r, s) /\ ~(r.cancel /\ s.outcome = "committed")

(* The document is hidden or deleted, with its points or without: in the   *)
(* name of a cancelled attempt, of one whose receipt is being decided, or  *)
(* by an operator.                                                         *)
Sweepable ==
    \E i \in Jobs, x \in 1..MaxTries :
        /\ document.owner = <<i, x>> /\ Free /\ document.status # "published"
        /\ \/ checkpoint[i].attempt = x /\ checkpoint[i].cancel
           \/ receipt[i].attempt = x

Standing == document'.owner = document.owner /\ document'.lineage = document.lineage /\ Stands

Hushed(sweep) ==
    /\ Standing
    /\ \/ points' = points /\ (document.chunks => document'.chunks)
       \/ points' \in {points, NoPoints} /\ sweep

Complete ==
    /\ document.chunks
    /\ \A b \in 1..Batches : points[b] = Origin(document.owner, document.lineage)

Publicizes == document' = [document EXCEPT !.status = "published"] /\ UNCHANGED points

DocumentHeld == Hushed(Sweepable) \/ (Publicizes /\ Complete)

(* What recovery does, whoever asks for it.                                *)
Settled == DocumentHeld /\ \A i \in Jobs : CheckpointKept(i) /\ ReceiptKeptBy(i)

LEMMA CleanupSweeps ==
    ASSUME StoreInv, NEW t \in Token, NEW complete \in BOOLEAN, Cleanup(t, complete)
    PROVE  /\ Standing /\ points' \in {points, NoPoints}
           /\ document.owner # t => UNCHANGED <<document, points>>
           /\ document.owner = t /\ complete => Gone(document', points')
<1>1. document.owner # t => UNCHANGED <<document, points>>
  BY DEF Cleanup
<1>2. Stands /\ document'.owner = document.owner
  BY CleanupStands
<1>3. CASE document.owner = t
  <2>1. document \in Document
    BY DEF StoreInv, StoreTyped
  <2>2. PICK clean \in {TRUE, complete} :
            /\ points' = IF clean THEN NoPoints ELSE points
            /\ IF document.status = "deleted" THEN UNCHANGED document
               ELSE IF complete THEN document' = Hidden
               ELSE document' \in Unfinished(clean)
    BY <1>3 DEF Cleanup
  <2>3. Hidden.lineage = document.lineage /\ Hidden.status = "failed"
    BY <2>1 DEF Hidden, Document
  <2>4. \A e \in Unfinished(TRUE) \cup Unfinished(complete) : e.lineage = document.lineage
    BY <2>1 DEF Unfinished, Hidden, Document
  <2>5. document'.lineage = document.lineage
    BY <2>2, <2>3, <2>4
  <2>6. complete => Gone(document', points')
    BY <2>2, <2>3 DEF Gone
  <2> QED
    BY <1>2, <1>3, <2>2, <2>5, <2>6 DEF Standing
<1>4. CASE document.owner # t
  BY <1>1, <1>2, <1>4 DEF Standing
<1> QED
  BY <1>3, <1>4

LEMMA StoreRests ==
    ASSUME UNCHANGED <<receipt, document, points>>
    PROVE  DocumentHeld /\ \A i \in Jobs : ReceiptKeptBy(i)
BY DEF DocumentHeld, Hushed, Standing, Stands, ReceiptKeptBy, Holds

(* A compensation that recovery makes.                                     *)
LEMMA CleanupHushes ==
    ASSUME StoreInv, NEW i \in Jobs, NEW x, <<i, x>> \in Token, NEW complete \in BOOLEAN,
           Cleanup(<<i, x>>, complete), Free,
           document.owner = <<i, x>> => document.status # "published",
           (checkpoint[i].attempt = x /\ checkpoint[i].cancel) \/ receipt[i].attempt = x
    PROVE  DocumentHeld /\ document'.owner = document.owner
<1>1. /\ Standing /\ points' \in {points, NoPoints}
      /\ document.owner # <<i, x>> => UNCHANGED <<document, points>>
  BY CleanupSweeps
<1>2. x \in 1..MaxTries
  BY DEF Token
<1>3. document.owner = <<i, x>> => Sweepable
  BY <1>2 DEF Sweepable
<1>4. CASE document.owner = <<i, x>>
  BY <1>1, <1>3, <1>4 DEF DocumentHeld, Hushed, Standing
<1>5. CASE document.owner # <<i, x>>
  BY <1>1, <1>5 DEF DocumentHeld, Hushed, Standing
<1> QED
  BY <1>4, <1>5

LEMMA ResolveKeeps ==
    ASSUME StoreInv, NEW j \in Jobs, receipt[j].outcome = "pending",
           NEW outcome \in {"committed", "failed", "cancelled"},
           receipt' = [receipt EXCEPT ![j] = Resolved(receipt[j], outcome)],
           receipt[j].cancel => outcome = "cancelled",
           outcome = "cancelled" /\ document'.owner = <<j, receipt[j].attempt>> =>
               Gone(document', points')
    PROVE  (\A i \in Jobs : ReceiptKeptBy(i)) /\ receipt'[j].outcome = outcome
<1>1. receipt \in [Jobs -> Receipt] /\ receipt[j] \in Receipt
  BY DEF StoreInv, StoreTyped
<1>2. receipt'[j] = Resolved(receipt[j], outcome) /\ \A i \in Jobs \ {j} : receipt'[i] = receipt[i]
  BY <1>1
<1>3. LET s == Resolved(receipt[j], outcome) IN
      s.outcome = outcome /\ s.attempt = receipt[j].attempt /\ s.owner = receipt[j].owner
  BY <1>1 DEF Resolved, Receipt
<1>4. ReceiptKeptBy(j)
  BY <1>2, <1>3 DEF ReceiptKeptBy, Resolves
<1>5. ASSUME NEW i \in Jobs \ {j} PROVE ReceiptKeptBy(i)
  BY <1>2 DEF ReceiptKeptBy, Holds
<1> QED
  BY <1>2, <1>3, <1>4, <1>5

LEMMA PublishSettles ==
    ASSUME StoreInv, CanPublish, PublishDocument
    PROVE  \A i \in Jobs : ReceiptKeptBy(i)
<1>1. \A i \in Jobs : receipt[i] \in Receipt
  BY DEF StoreInv, StoreTyped
<1>2. ASSUME NEW i \in Jobs PROVE ReceiptKeptBy(i)
  <2>1. CASE Awaiting(i)
    <3>1. receipt'[i] = [receipt[i] EXCEPT !.outcome = "committed"]
      BY <2>1 DEF PublishDocument
    <3>2. /\ receipt'[i].outcome = "committed" /\ receipt'[i].attempt = receipt[i].attempt
          /\ receipt'[i].owner = receipt[i].owner
      BY <1>1, <3>1 DEF Receipt
    <3>3. ~receipt[i].cancel /\ receipt[i].outcome = "pending"
      BY <2>1 DEF CanPublish, Awaiting
    <3> QED
      BY <3>2, <3>3 DEF ReceiptKeptBy, Resolves
  <2>2. CASE ~Awaiting(i)
    BY <2>2 DEF PublishDocument, ReceiptKeptBy, Holds
  <2> QED
    BY <2>1, <2>2
<1> QED
  BY <1>2

LEMMA DecideSettles ==
    ASSUME StoreInv, ReceiptsKnown, PublishedKnown, \A i \in Jobs : TraceInv(i),
           NEW j \in Jobs, NEW cancel \in BOOLEAN, NEW d, Decide(j, cancel, d)
    PROVE  /\ DocumentHeld /\ (\A i \in Jobs : ReceiptKeptBy(i))
           /\ d # "verifying" => Free /\ receipt'[j].outcome = d
<1> DEFINE r == receipt[j]
           own == <<j, r.attempt>>
           owned == document.owner = r.owner
           flag == cancel \/ r.cancel
           published == owned /\ document.status = "published"
           ready == owned /\ ~published /\ r.ready /\ ~flag
           publishable == collection = "active" /\ document.status = "processing"
           retired == IF ready THEN r.owner ELSE own
           resolve(outcome) == /\ receipt' = [receipt EXCEPT ![j] = Resolved(r, outcome)]
                               /\ d = Resolved(r, outcome).outcome
<1>1. r.outcome = "pending" /\ (d # "verifying" => Free)
  BY DEF Decide
<1>2. r \in Receipt /\ ReceiptOK(r)
  BY DEF StoreInv, StoreTyped
<1>3. own \in Token
  BY <1>1, <1>2, PublicationAssumption DEF ReceiptOK, Receipt, Token
<1>4. \A complete \in Completeness : complete \in BOOLEAN
  BY DEF Completeness
<1>5. ready => r.owner = own
  BY DEF ReceiptsKnown, ReadyIsOwn
<1>6. r.owner # own => document.owner # own
  BY DEF TraceInv, Traces
<1>7. published => r.owner # own
  <2> SUFFICES ASSUME published, r.owner = own PROVE FALSE
    OBVIOUS
  <2>1. PICK k \in Jobs : CommittedOwn(k) /\ receipt[k].owner = document.owner
    BY DEF PublishedKnown
  <2>2. k = j
    BY <2>1 DEF CommittedOwn
  <2> QED
    BY <1>1, <2>1, <2>2 DEF CommittedOwn
<1>8. ASSUME NEW complete \in Completeness, Cleanup(own, complete), Free, owned, ~published
      PROVE  DocumentHeld /\ document'.owner = document.owner
  BY <1>3, <1>4, <1>8, CleanupHushes
<1>9. ASSUME UNCHANGED receipt
      PROVE  \A i \in Jobs : ReceiptKeptBy(i)
  BY <1>9 DEF ReceiptKeptBy, Holds
<1>10. ASSUME NEW outcome \in {"committed", "failed", "cancelled"}, resolve(outcome),
              r.cancel => outcome = "cancelled",
              outcome = "cancelled" /\ document'.owner = own => Gone(document', points')
       PROVE  /\ \A i \in Jobs : ReceiptKeptBy(i)
              /\ d # "verifying" => Free /\ receipt'[j].outcome = d
  <2>1. (\A i \in Jobs : ReceiptKeptBy(i)) /\ receipt'[j].outcome = outcome
    BY <1>1, <1>10, ResolveKeeps
  <2>2. receipt'[j] = Resolved(r, outcome)
    BY <1>10 DEF StoreInv, StoreTyped
  <2> QED
    BY <1>1, <1>10, <2>1, <2>2
<1>11. CASE /\ d = "verifying" /\ UNCHANGED receipt
            /\ \/ UNCHANGED <<document, points>>
               \/ /\ Free /\ owned /\ ~published
                  /\ \E complete \in Completeness : Cleanup(retired, complete)
  <2>1. CASE UNCHANGED <<document, points>>
    BY <1>11, <2>1, StoreRests
  <2>2. CASE /\ Free /\ owned /\ ~published
             /\ \E complete \in Completeness : Cleanup(retired, complete)
    BY <1>5, <1>8, <1>9, <1>11, <2>2
  <2> QED
    BY <1>11, <2>1, <2>2
<1>12. CASE /\ published
            /\ resolve(IF r.owner = own THEN "committed"
                       ELSE IF flag THEN "cancelled"
                       ELSE IF collection # "active" THEN "failed"
                       ELSE "committed")
            /\ UNCHANGED <<document, points>>
  <2>1. PICK outcome \in {"committed", "failed", "cancelled"} :
             resolve(outcome) /\ (r.cancel => outcome = "cancelled")
    BY <1>7, <1>12
  <2>2. document'.owner # own
    BY <1>6, <1>7, <1>12
  <2>3. DocumentHeld
    BY <1>12 DEF DocumentHeld, Hushed, Standing, Stands
  <2> QED
    BY <1>10, <2>1, <2>2, <2>3
<1>13. CASE /\ ready /\ ~publishable
            /\ \E complete \in Completeness : Cleanup(r.owner, complete)
            /\ resolve("failed")
  <2>1. ~r.cancel /\ owned /\ ~published /\ r.owner = own
    BY <1>5, <1>13
  <2>2. CASE Free
    <3>1. DocumentHeld
      BY <1>8, <1>13, <2>1, <2>2
    <3> QED
      BY <1>10, <1>13, <2>1, <3>1
  <2>3. Free
    <3>1. Resolved(r, "failed").outcome = "failed"
      BY <1>1, <1>2, <2>1 DEF Resolved, Receipt
    <3> QED
      BY <1>1, <1>13, <3>1
  <2> QED
    BY <2>2, <2>3
<1>14. CASE /\ ready /\ publishable /\ PointsVerified(j)
            /\ CanPublish /\ PublishDocument
            /\ d = "committed" /\ UNCHANGED points
  <2>1. \A i \in Jobs : ReceiptKeptBy(i)
    BY <1>14, PublishSettles
  <2>2. DocumentHeld
    BY <1>14 DEF PublishDocument, PointsVerified, DocumentHeld, Publicizes, Complete
  <2>3. receipt'[j].outcome = "committed"
    <3>1. receipt'[j] = [receipt[j] EXCEPT !.outcome = "committed"]
      BY <1>1, <1>14 DEF PublishDocument, Awaiting
    <3> QED
      BY <1>2, <3>1 DEF Receipt
  <2> QED
    BY <1>1, <1>14, <2>1, <2>2, <2>3
<1>15. CASE /\ ~published /\ ~ready
            /\ \E complete \in Completeness :
                  /\ IF owned THEN Cleanup(own, complete) ELSE UNCHANGED <<document, points>>
                  /\ IF flag /\ ~complete /\ (owned \/ document.status = "absent")
                       THEN Free /\ d = "verifying" /\ UNCHANGED receipt
                       ELSE resolve(IF flag THEN "cancelled" ELSE "failed")
  <2>1. PICK complete \in Completeness :
                  /\ IF owned THEN Cleanup(own, complete) ELSE UNCHANGED <<document, points>>
                  /\ IF flag /\ ~complete /\ (owned \/ document.status = "absent")
                       THEN Free /\ d = "verifying" /\ UNCHANGED receipt
                       ELSE resolve(IF flag THEN "cancelled" ELSE "failed")
    BY <1>15
  <2>2. Free
    <3>1. \A outcome \in {"failed", "cancelled"} : Resolved(r, outcome).outcome # "verifying"
      BY <1>1, <1>2 DEF Resolved, Receipt
    <3> QED
      BY <1>1, <2>1, <3>1
  <2>3. DocumentHeld /\ document'.owner = document.owner
    <3>1. CASE owned
      BY <1>8, <1>15, <2>1, <2>2, <3>1
    <3>2. CASE ~owned
      BY <2>1, <3>2 DEF DocumentHeld, Hushed, Standing, Stands
    <3> QED
      BY <3>1, <3>2
  <2>4. CASE flag /\ ~complete /\ (owned \/ document.status = "absent")
    BY <1>9, <2>1, <2>3, <2>4
  <2>5. CASE ~(flag /\ ~complete /\ (owned \/ document.status = "absent"))
    <3>1. PICK outcome \in {"failed", "cancelled"} :
               /\ resolve(outcome) /\ (flag => outcome = "cancelled")
               /\ outcome = "cancelled" => flag
      BY <2>1, <2>5
    <3>2. outcome = "cancelled" /\ document'.owner = own => Gone(document', points')
      <4> SUFFICES ASSUME outcome = "cancelled", document.owner = own
                   PROVE  Gone(document', points')
        BY <2>3
      <4>1. owned /\ complete /\ Cleanup(own, complete)
        BY <1>6, <2>1, <2>5, <3>1
      <4> QED
        BY <1>3, <1>4, <4>1, CleanupSweeps
    <3> QED
      BY <1>10, <2>3, <3>1, <3>2
  <2> QED
    BY <2>4, <2>5
<1> QED
  BY <1>11, <1>12, <1>13, <1>14, <1>15 DEF Decide

LEMMA CheckpointsRest ==
    ASSUME UNCHANGED checkpoint
    PROVE  \A i \in Jobs : CheckpointKept(i)
BY DEF CheckpointKept, Extends

(* The row of a checkpoint that is finished.                               *)
LEMMA FinishedRow ==
    ASSUME NEW j \in Jobs, checkpoint \in [Jobs -> Checkpoint], NEW state, NEW cancel \in BOOLEAN,
           checkpoint' = [checkpoint EXCEPT ![j] = FinishedCheckpoint(j, state, cancel)]
    PROVE  LET c == checkpoint[j] e == checkpoint'[j] IN
           /\ Extends(c, e) /\ e.state = state /\ e.outputs = << >>
           /\ cancel => e.cancel
           /\ \A i \in Jobs \ {j} : checkpoint'[i] = checkpoint[i]
<1>1. checkpoint[j] \in Checkpoint /\ checkpoint'[j] = FinishedCheckpoint(j, state, cancel)
  OBVIOUS
<1>2. LET c == checkpoint[j] e == FinishedCheckpoint(j, state, cancel) IN
      /\ e.attempt = c.attempt /\ e.named = c.named /\ (e.cancel <=> c.cancel \/ cancel)
      /\ e.state = state /\ e.outputs = << >>
  BY <1>1 DEF FinishedCheckpoint, Checkpoint
<1> QED
  BY <1>1, <1>2 DEF Extends

LEMMA FinishKept ==
    ASSUME NEW j \in Jobs, checkpoint \in [Jobs -> Checkpoint], NEW state, NEW cancel \in BOOLEAN,
           checkpoint' = [checkpoint EXCEPT ![j] = FinishedCheckpoint(j, state, cancel)],
           state = "cancelled" => Ends(j)
    PROVE  \A i \in Jobs : CheckpointKept(i)
<1>1. LET c == checkpoint[j] e == checkpoint'[j] IN
      /\ Extends(c, e) /\ e.state = state /\ e.outputs = << >>
      /\ \A i \in Jobs \ {j} : checkpoint'[i] = checkpoint[i]
  BY FinishedRow
<1>2. CheckpointKept(j)
  BY <1>1 DEF CheckpointKept
<1>3. ASSUME NEW i \in Jobs \ {j} PROVE CheckpointKept(i)
  BY <1>1 DEF CheckpointKept, Extends
<1> QED
  BY <1>2, <1>3

LEMMA RetireSettles ==
    ASSUME StoreInv, \A i \in Jobs : TraceInv(i),
           NEW j \in Jobs, CancelledEarly(j), NEW o, RetireCancelled(j, o)
    PROVE  /\ Settled /\ UNCHANGED receipt
           /\ o = "cancelled" => checkpoint'[j].cancel
           /\ o \in {"cancelled", "verifying"}
<1> DEFINE c == checkpoint[j]
           own == <<j, c.attempt>>
           mine == c.named /\ document.owner = own
           missing == c.named /\ document.status = "absent"
<1>1. UNCHANGED receipt /\ c.cancel /\ (c.named => Free /\ ~(mine /\ document.status = "published"))
  BY DEF RetireCancelled, CancelledEarly
<1>2. PICK complete \in Completeness :
              /\ IF mine THEN Cleanup(own, complete) ELSE UNCHANGED <<document, points>>
              /\ IF ~complete /\ (mine \/ missing)
                   THEN o = "verifying" /\ UNCHANGED checkpoint
                   ELSE /\ o = "cancelled" /\ j \notin marking
                        /\ checkpoint' = [checkpoint EXCEPT ![j] =
                                             FinishedCheckpoint(j, "cancelled", TRUE)]
  BY DEF RetireCancelled
<1>3. complete \in BOOLEAN /\ checkpoint \in [Jobs -> Checkpoint] /\ c \in Checkpoint
  BY DEF Completeness, StoreInv, StoreTyped
<1>4. document.owner = own => own \in Token /\ c.named
  <2> SUFFICES ASSUME document.owner = own PROVE own \in Token /\ c.named
    OBVIOUS
  <2>1. own \in Token
    BY DEF StoreInv, StoreTyped, DocumentOK, Token, Nobody, Document
  <2>2. c.attempt \in 1..MaxTries
    BY <2>1 DEF Token
  <2> QED
    BY <2>1, <2>2 DEF TraceInv, Traces
<1>5. \A i \in Jobs : ReceiptKeptBy(i)
  BY <1>1 DEF ReceiptKeptBy, Holds
<1>6. DocumentHeld /\ document'.owner = document.owner
  <2>1. CASE mine
    BY <1>1, <1>2, <1>3, <1>4, <2>1, CleanupHushes
  <2>2. CASE ~mine
    BY <1>2, <2>2 DEF DocumentHeld, Hushed, Standing, Stands
  <2> QED
    BY <2>1, <2>2
<1>7. CASE UNCHANGED checkpoint /\ o = "verifying"
  BY <1>1, <1>5, <1>6, <1>7, CheckpointsRest DEF Settled
<1>8. CASE /\ ~(~complete /\ (mine \/ missing)) /\ o = "cancelled"
           /\ checkpoint' = [checkpoint EXCEPT ![j] = FinishedCheckpoint(j, "cancelled", TRUE)]
  <2>1. checkpoint'[j].cancel
    BY <1>3, <1>8, FinishedRow
  <2>2. document'.owner = own => Gone(document', points')
    <3> SUFFICES ASSUME document.owner = own PROVE Gone(document', points')
      BY <1>6
    <3>1. own \in Token /\ complete /\ Cleanup(own, complete)
      BY <1>2, <1>3, <1>4, <1>8
    <3> QED
      BY <1>3, <3>1, CleanupSweeps
  <2>3. Ends(j)
    BY <1>1, <2>1, <2>2 DEF Ends, Leaves
  <2>4. \A i \in Jobs : CheckpointKept(i)
    BY <1>3, <1>8, <2>3, FinishKept
  <2> QED
    BY <1>1, <1>5, <1>6, <1>8, <2>1, <2>4 DEF Settled
<1> QED
  BY <1>2, <1>7, <1>8

(* What the caller of a recovery is told of the receipt.                   *)
Telling(j, o) ==
    /\ o \in {"none", "failed"} => receipt'[j].outcome \in {"none", "failed"}
    /\ o = "cancelled" => \/ receipt'[j].outcome = "cancelled"
                          \/ /\ checkpoint'[j].cancel
                             /\ receipt'[j].outcome \in {"none", "failed"}

LEMMA DecisionSettles ==
    ASSUME StoreInv, ReceiptsKnown, PublishedKnown, \A i \in Jobs : TraceInv(i),
           NEW j \in Jobs, NEW cancel \in BOOLEAN,
           NEW d \in {"committed", "failed", "cancelled", "verifying"},
           Decide(j, cancel, d) \/ (receipt[j].outcome = d /\ UNCHANGED <<receipt, document, points>>),
           FollowUp(j, d, cancel)
    PROVE  Settled /\ (d # "verifying" => receipt'[j].outcome = d)
<1>1. /\ DocumentHeld /\ (\A i \in Jobs : ReceiptKeptBy(i))
      /\ d # "verifying" => receipt'[j].outcome = d
      /\ d # "verifying" => Free \/ UNCHANGED <<receipt, document, points>>
  BY DecideSettles, StoreRests
<1>2. checkpoint \in [Jobs -> Checkpoint] /\ receipt[j] \in Receipt
  BY DEF StoreInv, StoreTyped
<1>3. CASE UNCHANGED checkpoint
  BY <1>1, <1>3, CheckpointsRest DEF Settled
<1>4. CASE /\ d # "verifying" /\ checkpoint[j].attempt = receipt[j].attempt
           /\ checkpoint' = [checkpoint EXCEPT ![j] =
                                FinishedCheckpoint(j, d, cancel \/ receipt[j].cancel)]
  <2>1. (cancel \/ receipt[j].cancel) \in BOOLEAN
    BY <1>2 DEF Receipt
  <2>2. checkpoint'[j].attempt = checkpoint[j].attempt
    BY <1>2, <1>4, <2>1, FinishedRow DEF Extends
  <2>3. d = "cancelled" => Ends(j)
    <3> SUFFICES ASSUME d = "cancelled" PROVE Ends(j)
      OBVIOUS
    <3>1. ReceiptKeptBy(j) /\ receipt'[j].outcome = "cancelled"
      BY <1>1, <1>4
    <3>2. receipt'[j].attempt = receipt[j].attempt
      BY <3>1 DEF ReceiptKeptBy, Holds, Resolves
    <3>3. document'.owner = <<j, receipt[j].attempt>> => Gone(document', points')
      <4>1. CASE UNCHANGED <<receipt, document, points>>
        BY <3>1, <4>1 DEF TraceInv, Traces
      <4>2. CASE Decide(j, cancel, d)
        <5>1. receipt[j].outcome = "pending"
          BY <4>2 DEF Decide
        <5> QED
          BY <3>1, <5>1 DEF ReceiptKeptBy, Holds, Resolves
      <4> QED
        BY <4>1, <4>2
    <3>4. Free \/ receipt[j].outcome = "cancelled"
      BY <1>1, <1>4, <3>1
    <3> QED
      BY <1>4, <2>2, <3>2, <3>3, <3>4 DEF Ends, Leaves
  <2>4. \A i \in Jobs : CheckpointKept(i)
    BY <1>2, <1>4, <2>1, <2>3, FinishKept
  <2> QED
    BY <1>1, <1>4, <2>4 DEF Settled
<1> QED
  BY <1>3, <1>4 DEF FollowUp

LEMMA RecoverSettles ==
    ASSUME StoreInv, ReceiptsKnown, PublishedKnown, \A i \in Jobs : TraceInv(i),
           NEW j \in Jobs, NEW cancel \in BOOLEAN,
           NEW expected, NEW o, RecoverPublication(j, expected, cancel, o)
    PROVE  Settled /\ Telling(j, o)
<1>1. CASE o = "unavailable" /\ UNCHANGED <<checkpoint, receipt, document, points>>
  BY <1>1, StoreRests, CheckpointsRest DEF Settled, Telling
<1>2. CASE CancelledEarly(j) /\ RetireCancelled(j, o)
  <2>1. /\ Settled /\ UNCHANGED receipt /\ (o = "cancelled" => checkpoint'[j].cancel)
        /\ o \in {"cancelled", "verifying"}
    BY <1>2, RetireSettles
  <2>2. receipt[j].outcome \in {"none", "failed"}
    BY <1>2 DEF CancelledEarly
  <2> QED
    BY <2>1, <2>2 DEF Telling
<1>3. CASE /\ receipt[j].outcome = "none" \/ RetriedSince(j)
           /\ o = "none" /\ UNCHANGED <<checkpoint, receipt, document, points>>
  BY <1>3, StoreRests, CheckpointsRest DEF Settled, Telling, RetriedSince
<1>4. CASE \E d \in {"committed", "failed", "cancelled", "verifying"} :
                /\ \/ Decide(j, cancel, d)
                   \/ receipt[j].outcome = d /\ UNCHANGED <<receipt, document, points>>
                /\ FollowUp(j, d, cancel) /\ o = Told(d)
  <2>1. PICK d \in {"committed", "failed", "cancelled", "verifying"} :
                /\ \/ Decide(j, cancel, d)
                   \/ receipt[j].outcome = d /\ UNCHANGED <<receipt, document, points>>
                /\ FollowUp(j, d, cancel) /\ o = Told(d)
    BY <1>4
  <2>2. Settled /\ (d # "verifying" => receipt'[j].outcome = d)
    BY <2>1, DecisionSettles
  <2> QED
    BY <2>1, <2>2 DEF Telling, Told
<1> QED
  BY <1>1, <1>2, <1>3, <1>4 DEF RecoverPublication

-----------------------------------------------------------------------------
(* What a thread relies on.  n is the record of thread h, g the holder of  *)
(* the guards, c and r the checkpoint and the receipt of its job, d and p  *)
(* the document and its points.                                            *)

Writing == {"manifest", "index", "verify", "intent", "decide", "publish"}

(* A thread has no receipt of its attempt before its intent, and a pending *)
(* one while it decides; the checkpoint of its attempt exists, and names   *)
(* the document, before the thread goes on to it, and has no outputs of    *)
(* another execution.                                                      *)
Heeds(n, c, r) ==
    /\ n.pc \in Before => r.attempt # n.attempt
    /\ n.pc \in Deciding => r.attempt = n.attempt /\ r.outcome = "pending"
    /\ Working(n) /\ n.pc \notin Early => n.attempt <= c.attempt
    /\ n.pc \in Named /\ n.attempt = c.attempt => c.named
    /\ c.outputs # << >> /\ c.attempt = n.attempt => n.pc \notin Early

(* The document is not the attempt's until its thread has written it.      *)
Wrote(n, d) ==
    /\ Working(n) /\ ~n.wrote => d.owner # <<n.job, n.attempt>>
    /\ n.pc \in Unwritten => ~n.wrote
    /\ n.pc \in Unwritten \cup {"chunks", "manifest"} => n.next = 1
    /\ ~n.resumed

(* The holder of the guards works on a checkpoint of its own attempt that  *)
(* is not cancelled, and writes to a document of its own.                  *)
Grips(h, n, g, c, d) ==
    g = h => /\ n.pc \in {"chunks", "index"} => d.owner = <<n.job, n.attempt>>
             /\ c.attempt = n.attempt /\ c.state # "cancelled"

(* A thread about to record a cancellation has left nothing.               *)
Purged(n, d, p) ==
    n.pc = "finish" /\ n.cancel /\ d.owner = <<n.job, n.attempt>> => Gone(d, p)

(* What a thread has written of its document is there, unless its attempt  *)
(* was asked to cancel or an operator deletes points.                      *)
Filled(h, n, g, c, d, p) ==
    d.owner = <<n.job, n.attempt>> =>
        /\ n.pc \in Writing \cup {"chunks"} => d.lineage = n.lineage
        /\ n.pc \in Writing /\ (g = h \/ ~c.cancel) /\ "delete" \notin Maintenance =>
              /\ d.chunks
              /\ n.pc # "manifest" =>
                    \A b \in 1..Batches : b < n.next => p[b] = Origin(d.owner, d.lineage)
              /\ n.pc \in {"verify", "intent", "decide", "publish"} => n.next = Batches + 1

Sound(h, n, g, c, r, d, p) ==
    /\ Heeds(n, c, r) /\ Wrote(n, d) /\ Grips(h, n, g, c, d) /\ Purged(n, d, p)
    /\ Filled(h, n, g, c, d, p)

SoundRun(h) == LET j == run[h].job IN
    Sound(h, run[h], guard, checkpoint[j], receipt[j], document, points)

(* A thread of a former attempt knows that its lease is lost and is not    *)
(* past a check: it changes nothing any more.                              *)
Harmless(m) ==
    /\ m.lost
    /\ m.pc \in {"recover", "restart", "begin", "identify", "except", "published", "failed"}

Alone(h) ==
    LET m == run[h] IN
    /\ m.grant = m.attempt /\ m.attempt <= tries[m.job]
    /\ m.attempt < tries[m.job] => Harmless(m)
    /\ \A k \in Handlers : Live(k) /\ run[k].job = m.job /\ run[k].attempt = m.attempt => k = h

JobInv(j) ==
    /\ grants[j] = tries[j] /\ checkpoint[j].attempt <= tries[j] /\ receipt[j].attempt <= tries[j]
    /\ TraceInv(j)

StepInv ==
    /\ AuthorityInv /\ \A j \in Jobs : JobInv(j)
    /\ \A h \in Handlers : Live(h) => Alone(h) /\ SoundRun(h)

-----------------------------------------------------------------------------
(* What a step of thread a, or of nobody, may do to the store *)

Renews(c, e, x) ==
    /\ c.attempt < x /\ x \in Nat /\ e.attempt = x /\ e.state = "active" /\ e.outputs = << >>

(* A thread extends the checkpoint of its attempt; a checkpoint is         *)
(* replaced for a later attempt.                                           *)
CheckpointServed(a, i) ==
    LET c == checkpoint[i] e == checkpoint'[i] IN
    \/ CheckpointKept(i)
    \/ Renews(c, e, tries[i])
    \/ /\ a \in Handlers /\ i = run[a].job
       /\ \/ Renews(c, e, run[a].attempt)
          \/ /\ c.attempt = run[a].attempt /\ Extends(c, e)
             /\ e.state = "cancelled" /\ c.state # "cancelled" => Leaves(i)

(* A thread commits a duplicate, or intends to publish what there is.      *)
Intends(a, i) ==
    LET r == receipt[i] s == receipt'[i] IN
    /\ guard = a /\ run[a].pc \in {"intent", "dup"} /\ r.outcome \in {"none", "failed"}
    /\ s.outcome = "pending" /\ s.attempt = run[a].attempt /\ s.owner = document.owner
    /\ checkpoint[i].cancel => s.cancel
    /\ document' = document

ReceiptServed(a, i) ==
    LET r == receipt[i] s == receipt'[i] IN
    \/ ReceiptKeptBy(i)
    \/ /\ a \in Handlers /\ i = run[a].job
       /\ \/ run[a].pc = "dup_commit" /\ s.outcome = "committed" /\ Resolves(i, r, s)
          \/ Intends(a, i)

(* A thread removes what it wrote, publishes it, takes the document over,  *)
(* or writes points.                                                       *)
Undoes(a) ==
    a \in Handlers /\ Free /\ Compensating(a) /\ document.owner = Me(a)

Claims(a) ==
    /\ run[a].pc = "claim" /\ guard = a /\ document.status \notin {"published", "deleted"}
    /\ document'.owner = Me(a) /\ document'.status = "processing"

DocumentServed(a) ==
    \/ Hushed(Sweepable \/ Undoes(a) \/ "delete" \in Maintenance)
    \/ Publicizes /\ (Complete \/ (a \in Handlers /\ run[a].pc = "publish"))
    \/ a \in Handlers /\ Claims(a)
    \/ a \in Handlers /\ guard = a /\ run[a].pc = "index" /\ document' = document

Serves(a) ==
    /\ DocumentServed(a) /\ Fenced(a) /\ guard' \in {guard, a, NoHandler}
    /\ \A i \in Jobs : CheckpointServed(a, i) /\ ReceiptServed(a, i)

LEMMA StepRow ==
    ASSUME StepInv, NEW h \in Handlers, Live(h)
    PROVE  LET m == run[h] j == m.job IN
           /\ m \in Run /\ j \in Jobs /\ m.attempt \in 1..MaxTries /\ m.attempt \in Nat
           /\ checkpoint[j] \in Checkpoint /\ checkpoint[j].attempt \in Nat
           /\ receipt[j] \in Receipt /\ ReceiptOK(receipt[j]) /\ receipt[j].attempt \in Nat
           /\ tries[j] \in Nat /\ Alone(h) /\ SoundRun(h) /\ JobInv(j)
           /\ Informed(h, m, guard, receipt[j], document)
           /\ AuthorityInv /\ PublicationInv /\ StoreInv /\ h # NoHandler
<1>1. AuthorityInv /\ PublicationInv /\ StoreInv
  BY DEF StepInv, AuthorityInv, PublicationInv
<1>2. /\ run[h] \in Run /\ run[h].job \in Jobs
      /\ checkpoint[run[h].job] \in Checkpoint /\ receipt[run[h].job] \in Receipt
      /\ Informed(h, run[h], guard, receipt[run[h].job], document)
      /\ ReceiptOK(receipt[run[h].job])
  BY <1>1, Row DEF StoreInv
<1>3. /\ run[h].attempt \in 1..MaxTries /\ checkpoint[run[h].job].attempt \in 0..MaxTries
      /\ receipt[run[h].job].attempt \in 0..MaxTries
  BY <1>2 DEF Run, Checkpoint, Receipt
<1>4. tries[run[h].job] \in 0..MaxTries
  BY <1>1, <1>2, QueueRow
<1> QED
  BY <1>1, <1>2, <1>3, <1>4, PublicationAssumption DEF StepInv

(* A thread of the latest attempt only is past the checks, and a later     *)
(* attempt replaces its checkpoint when it no longer is.                   *)
LEMMA Superseded ==
    ASSUME StepInv, NEW k \in Handlers, Live(k), NEW x \in Nat,
           checkpoint[run[k].job].attempt < x, x <= tries[run[k].job]
    PROVE  run[k].pc \notin Named /\ run[k].pc \notin Deciding /\ guard # k
<1> DEFINE m == run[k]  j == m.job
<1>1. /\ m.attempt \in Nat /\ checkpoint[j].attempt \in Nat /\ tries[j] \in Nat
      /\ Alone(k) /\ SoundRun(k) /\ Informed(k, m, guard, receipt[j], document)
  BY StepRow
<1>2. m.pc \in Named \cup Deciding => FALSE
  <2> SUFFICES ASSUME m.pc \in Named \cup Deciding PROVE FALSE
    OBVIOUS
  <2>1. m.attempt <= checkpoint[j].attempt
    BY <1>1 DEF SoundRun, Sound, Heeds, Working, Named, Deciding, Before, Early
  <2>2. Harmless(m)
    BY <1>1, <2>1 DEF Alone
  <2> QED
    BY <2>2 DEF Harmless, Named, Deciding, Before, Early
<1>3. guard = k => m.pc \in Named \cup Deciding
  BY <1>1 DEF Informed, Publishing, Holders, Guarded, Named, Deciding, Before, Early
<1> QED
  BY <1>2, <1>3

(* How the checkpoint and the receipt of thread k change in a step of      *)
(* another thread.                                                         *)
Bystander(k) ==
    LET m == run[k] c == checkpoint[m.job] e == checkpoint'[m.job]
        r == receipt[m.job] s == receipt'[m.job]
    IN  /\ \/ Extends(c, e)
           \/ /\ c.attempt < e.attempt /\ e.attempt \in Nat /\ m.pc \notin Named /\ m.pc \notin Deciding
              /\ m.pc \notin Writing /\ guard # k
        /\ e.outputs # << >> /\ e.attempt = m.attempt =>
              c.outputs # << >> /\ c.attempt = m.attempt
        /\ guard = k => c.attempt = e.attempt /\ e.state # "cancelled"
        /\ s.attempt = m.attempt => r.attempt = m.attempt
        /\ m.pc \in Deciding => Same(r, s)

LEMMA NamedWriting ==
    /\ Writing \subseteq Named /\ Deciding \subseteq Named /\ Holders \subseteq Named
    /\ Early \cap Named = {} /\ Named \subseteq Before \cup Deciding
BY DEF Writing, Named, Deciding, Before, Early, Holders, Guarded

LEMMA BystanderKept ==
    ASSUME StepInv, NEW a \in Handlers \cup {NoHandler}, a \in Handlers => Live(a), Serves(a),
           NEW k \in Handlers, k # a, Live(k)
    PROVE  Bystander(k) /\ (guard' = k => guard = k) /\ (guard = k => guard' = k /\ Quiet)
<1> DEFINE m == run[k]  j == m.job  c == checkpoint[j]  e == checkpoint'[j]
           r == receipt[j]  s == receipt'[j]
<1>1. /\ m \in Run /\ j \in Jobs /\ m.attempt \in Nat /\ c.attempt \in Nat /\ tries[j] \in Nat
      /\ Alone(k) /\ SoundRun(k) /\ JobInv(j) /\ k # NoHandler
      /\ Informed(k, m, guard, r, document)
  BY StepRow
<1>2. a \in Handlers /\ run[a].job = j =>
          /\ run[a].attempt # m.attempt /\ run[a].attempt \in Nat /\ run[a].attempt <= tries[j]
  <2> SUFFICES ASSUME a \in Handlers, run[a].job = j
               PROVE /\ run[a].attempt # m.attempt /\ run[a].attempt \in Nat
                     /\ run[a].attempt <= tries[j]
    OBVIOUS
  <2>1. Alone(a) /\ run[a].attempt \in Nat
    BY StepRow
  <2> QED
    BY <1>1, <2>1 DEF Alone
<1>3. (guard' = k => guard = k) /\ (guard = k => guard' = k /\ Quiet)
  BY <1>1 DEF Serves, Fenced
<1>4. m.pc \in Deciding => guard = k
  BY <1>1 DEF Informed, Publishing, Deciding
<1>5. m.pc \in Deciding => Same(r, s)
  BY <1>1, <1>3, <1>4 DEF Quiet
<1>6. CheckpointServed(a, j) /\ ReceiptServed(a, j)
  BY <1>1 DEF Serves
<1>7. s.attempt = m.attempt => r.attempt = m.attempt
  BY <1>2, <1>6 DEF ReceiptServed, ReceiptKeptBy, Holds, Resolves, Intends
<1>8. guard = k => c.attempt = m.attempt /\ c.state # "cancelled" /\ c.named
  BY <1>1, NamedWriting DEF SoundRun, Sound, Grips, Heeds, Informed, Publishing
<1>9. guard = k => ~(r.outcome = "cancelled" /\ r.attempt = c.attempt)
  BY <1>1, <1>8, NamedWriting DEF SoundRun, Sound, Heeds, Informed, Publishing
<1>10. ASSUME NEW x \in Nat, Renews(c, e, x), x <= tries[j]
       PROVE  Bystander(k)
  <2>1. m.pc \notin Named /\ m.pc \notin Deciding /\ guard # k
    BY <1>10, Superseded DEF Renews
  <2>2. c.attempt < e.attempt /\ e.attempt \in Nat /\ e.outputs = << >>
    BY <1>10 DEF Renews
  <2> QED
    BY <1>5, <1>7, <2>1, <2>2, NamedWriting DEF Bystander
<1>11. CASE CheckpointKept(j)
  <2>1. guard = k => e.state # "cancelled"
    BY <1>1, <1>8, <1>9, <1>11 DEF CheckpointKept, Ends, Free
  <2> QED
    BY <1>3, <1>5, <1>7, <1>11, <2>1 DEF Bystander, CheckpointKept, Extends
<1>12. CASE /\ a \in Handlers /\ run[a].job = j
            /\ c.attempt = run[a].attempt /\ Extends(c, e)
  BY <1>2, <1>3, <1>5, <1>7, <1>8, <1>12 DEF Bystander, Extends
<1>13. \/ CheckpointKept(j)
       \/ Renews(c, e, tries[j])
       \/ a \in Handlers /\ run[a].job = j /\ Renews(c, e, run[a].attempt)
       \/ /\ a \in Handlers /\ run[a].job = j
          /\ c.attempt = run[a].attempt /\ Extends(c, e)
  BY <1>6 DEF CheckpointServed
<1>14. tries[j] <= tries[j]
  BY <1>1
<1> QED
  BY <1>1, <1>2, <1>3, <1>10, <1>11, <1>12, <1>13, <1>14

(* How the document of thread k changes in a step of another thread.       *)
Stays(k) ==
    LET m == run[k] c == checkpoint[m.job] IN
    /\ document.owner = Me(k) /\ document'.lineage = document.lineage
    /\ points' \in {points, NoPoints}
    /\ document'.status = "published" => document.status = "published" \/ Complete
    /\ \/ points' = points /\ (document.chunks => document'.chunks)
       \/ "delete" \in Maintenance
       \/ Free /\ c.attempt = m.attempt /\ c.cancel
       \/ Free /\ receipt[m.job].attempt = m.attempt

LEMMA OtherTokens ==
    ASSUME StepInv, NEW a \in Handlers, NEW k \in Handlers, a # k, Live(a), Live(k)
    PROVE  Me(a) # Me(k)
<1>1. Alone(a)
  BY StepRow
<1> QED
  BY <1>1 DEF Alone, Me

LEMMA DocumentStays ==
    ASSUME StepInv, NEW a \in Handlers \cup {NoHandler}, a \in Handlers => Live(a), Serves(a),
           NEW k \in Handlers, k # a, Live(k), document'.owner = Me(k)
    PROVE  Stays(k)
<1>1. a \in Handlers => Me(a) # Me(k)
  BY OtherTokens
<1>2. document \in Document
  BY StepRow DEF StoreInv, StoreTyped
<1>3. a \in Handlers /\ run[a].pc \in {"publish", "index"} /\ (run[a].pc = "index" => guard = a) =>
          document.owner = Me(a)
  <2> SUFFICES ASSUME a \in Handlers, run[a].pc \in {"publish", "index"}, run[a].pc = "index" => guard = a
               PROVE  document.owner = Me(a)
    OBVIOUS
  <2>1. SoundRun(a) /\ Informed(a, run[a], guard, receipt[run[a].job], document)
    BY StepRow
  <2> QED
    BY <2>1 DEF SoundRun, Sound, Grips, Informed, Publishing, Me
<1>4. CASE Hushed(Sweepable \/ Undoes(a) \/ "delete" \in Maintenance)
  <2>1. /\ Standing /\ points' \in {points, NoPoints} /\ document.owner = Me(k)
        /\ \/ points' = points /\ (document.chunks => document'.chunks)
           \/ Sweepable \/ "delete" \in Maintenance
    BY <1>1, <1>4 DEF Hushed, Standing, Undoes
  <2>2. Sweepable => Free /\ \/ checkpoint[run[k].job].attempt = run[k].attempt /\ checkpoint[run[k].job].cancel
                             \/ receipt[run[k].job].attempt = run[k].attempt
    BY <2>1 DEF Sweepable, Me
  <2> QED
    BY <2>1, <2>2 DEF Stays, Standing, Stands
<1>5. CASE Publicizes /\ (Complete \/ (a \in Handlers /\ run[a].pc = "publish"))
  <2>1. /\ document'.owner = document.owner /\ document'.lineage = document.lineage
        /\ document'.chunks = document.chunks /\ points' = points
    BY <1>2, <1>5 DEF Publicizes, Document
  <2> QED
    BY <1>1, <1>3, <1>5, <2>1 DEF Stays
<1>6. CASE a \in Handlers /\ Claims(a)
  BY <1>1, <1>6 DEF Claims
<1>7. CASE a \in Handlers /\ guard = a /\ run[a].pc = "index" /\ document' = document
  BY <1>1, <1>3, <1>7
<1> QED
  BY <1>4, <1>5, <1>6, <1>7 DEF Serves, DocumentServed

LEMMA CompleteIsThere ==
    ASSUME Complete
    PROVE  points # NoPoints
<1>1. 1 \in 1..Batches
  BY PublicationAssumption
<1>2. points[1] = <<document.owner, document.lineage>>
  BY <1>1 DEF Complete, Origin
<1>3. <<document.owner, document.lineage>> # << >>
  OBVIOUS
<1> QED
  BY <1>1, <1>2, <1>3 DEF NoPoints, Nobody

LEMMA SoundStands ==
    ASSUME StepInv, NEW a \in Handlers \cup {NoHandler}, a \in Handlers => Live(a), Serves(a),
           NEW k \in Handlers, k # a, Live(k)
    PROVE  Sound(k, run[k], guard', checkpoint'[run[k].job], receipt'[run[k].job], document', points')
<1> DEFINE m == run[k]  j == m.job  c == checkpoint[j]  e == checkpoint'[j]
           r == receipt[j]  s == receipt'[j]
<1>1. /\ m \in Run /\ j \in Jobs /\ m.attempt \in Nat /\ c.attempt \in Nat /\ tries[j] \in Nat
      /\ Sound(k, m, guard, c, r, document, points)
      /\ Informed(k, m, guard, r, document)
  BY StepRow DEF SoundRun
<1>2. Bystander(k) /\ (guard' = k => guard = k) /\ (guard = k => guard' = k /\ Quiet)
  BY BystanderKept
<1>3. document'.owner = Me(k) => Stays(k)
  BY DocumentStays
<1>4. Me(k) = <<j, m.attempt>>
  BY DEF Me
<1>5. Heeds(m, e, s)
  <2>1. c.attempt <= e.attempt /\ e.attempt \in Nat
    BY <1>1, <1>2 DEF Bystander, Extends
  <2>2. m.pc \in Named /\ m.attempt = e.attempt => Extends(c, e)
    BY <1>2 DEF Bystander
  <2>3. m.pc \in Named /\ m.attempt = e.attempt => e.named
    BY <1>1, <2>2 DEF Sound, Heeds, Extends
  <2>4. Working(m) /\ m.pc \notin Early => m.attempt <= e.attempt
    BY <1>1, <2>1 DEF Sound, Heeds
  <2>5. e.outputs # << >> /\ e.attempt = m.attempt => m.pc \notin Early
    BY <1>1, <1>2 DEF Sound, Heeds, Bystander
  <2>6. /\ m.pc \in Before => s.attempt # m.attempt
        /\ m.pc \in Deciding => s.attempt = m.attempt /\ s.outcome = "pending"
    BY <1>1, <1>2 DEF Sound, Heeds, Bystander, Same
  <2> QED
    BY <2>3, <2>4, <2>5, <2>6 DEF Heeds
<1>6. Wrote(m, document')
  BY <1>1, <1>3, <1>4 DEF Sound, Wrote, Stays
<1>7. Grips(k, m, guard', e, document')
  BY <1>1, <1>2 DEF Sound, Grips, Bystander, Quiet
<1>8. Purged(m, document', points')
  BY <1>1, <1>3, <1>4, CompleteIsThere DEF Sound, Purged, Stays, Gone
<1>9. Filled(k, m, guard', e, document', points')
  <2> SUFFICES ASSUME document'.owner = Me(k) PROVE Filled(k, m, guard', e, document', points')
    BY <1>4 DEF Filled
  <2>1. Stays(k)
    BY <1>3
  <2>2. m.pc \in Writing /\ (guard' = k \/ ~e.cancel) => guard = k \/ ~c.cancel
    BY <1>2 DEF Bystander, Extends
  <2>3. m.pc \in Writing /\ (guard' = k \/ ~e.cancel) /\ "delete" \notin Maintenance =>
            points' = points /\ (document.chunks => document'.chunks)
    <3> SUFFICES ASSUME m.pc \in Writing, guard' = k \/ ~e.cancel, "delete" \notin Maintenance,
                        Free /\ ((c.attempt = m.attempt /\ c.cancel) \/ r.attempt = m.attempt)
                 PROVE  FALSE
      BY <2>1 DEF Stays
    <3>1. guard # k
      BY PublicationAssumption DEF Free
    <3>2. ~c.cancel /\ r.attempt = m.attempt
      BY <1>2, <2>2, <3>1
    <3>3. m.pc \in Deciding
      BY <1>1, <3>2, NamedWriting DEF Sound, Heeds
    <3> QED
      BY <1>1, <3>1, <3>3 DEF Informed, Publishing, Deciding
  <2>4. document.owner = Me(k) /\ document'.lineage = document.lineage
    BY <2>1 DEF Stays
  <2> QED
    BY <1>1, <1>4, <2>2, <2>3, <2>4 DEF Sound, Filled
<1> QED
  BY <1>5, <1>6, <1>7, <1>8, <1>9 DEF Sound

-----------------------------------------------------------------------------
(* The traces of a job *)

Advances(i) ==
    LET c == checkpoint[i] e == checkpoint'[i] IN
    \/ Extends(c, e) /\ (e.state = "cancelled" /\ c.state # "cancelled" => Leaves(i))
    \/ /\ c.attempt < e.attempt /\ e.attempt \in Nat /\ e.attempt <= tries[i]
       /\ e.state # "cancelled"

LEMMA CheckpointAdvances ==
    ASSUME StepInv, NEW a \in Handlers \cup {NoHandler}, a \in Handlers => Live(a), Serves(a),
           NEW i \in Jobs
    PROVE  Advances(i)
<1>1. tries[i] \in Nat
  BY QueueRow, PublicationAssumption DEF StepInv, AuthorityInv
<1>2. a \in Handlers /\ i = run[a].job => run[a].attempt \in Nat /\ run[a].attempt <= tries[i]
  BY StepRow DEF Alone
<1>3. CheckpointServed(a, i)
  BY DEF Serves
<1>4. CASE CheckpointKept(i)
  BY <1>4 DEF CheckpointKept, Advances, Ends
<1>5. CASE Renews(checkpoint[i], checkpoint'[i], tries[i])
  BY <1>1, <1>5 DEF Renews, Advances
<1>6. CASE /\ a \in Handlers /\ i = run[a].job
           /\ Renews(checkpoint[i], checkpoint'[i], run[a].attempt)
  BY <1>2, <1>6 DEF Renews, Advances
<1> QED
  BY <1>3, <1>4, <1>5, <1>6 DEF CheckpointServed, Advances

(* Thread a writes to the document of attempt t.                           *)
Touches(a, t) ==
    a \in Handlers /\ guard = a /\ Me(a) = t /\ run[a].pc \in {"claim", "index", "publish"}

LEMMA Untouched ==
    ASSUME StepInv, NEW a \in Handlers \cup {NoHandler}, a \in Handlers => Live(a), Serves(a),
           NEW t, document'.owner = t, ~Touches(a, t)
    PROVE  document.owner = t /\ (Gone(document, points) => Gone(document', points'))
<1>1. document \in Document
  BY DEF StepInv, AuthorityInv, PublicationInv, StoreInv, StoreTyped
<1>2. a \in Handlers /\ run[a].pc = "publish" => document.owner = Me(a) /\ guard = a
  BY StepRow DEF Informed, Publishing, Me
<1>3. a \in Handlers /\ run[a].pc = "index" /\ guard = a => document.owner = Me(a)
  <2> SUFFICES ASSUME a \in Handlers, run[a].pc = "index", guard = a PROVE document.owner = Me(a)
    OBVIOUS
  <2>1. SoundRun(a)
    BY StepRow
  <2> QED
    BY <2>1 DEF SoundRun, Sound, Grips, Me
<1>4. CASE Hushed(Sweepable \/ Undoes(a) \/ "delete" \in Maintenance)
  BY <1>4 DEF Hushed, Standing, Stands, Gone
<1>5. CASE Publicizes /\ (Complete \/ (a \in Handlers /\ run[a].pc = "publish"))
  <2>1. document'.owner = document.owner /\ points' = points
    BY <1>1, <1>5 DEF Publicizes, Document
  <2>2. Complete
    BY <1>2, <1>5, <2>1 DEF Touches
  <2> QED
    BY <2>1, <2>2, CompleteIsThere DEF Gone
<1>6. CASE a \in Handlers /\ Claims(a)
  BY <1>6 DEF Claims, Touches
<1>7. CASE a \in Handlers /\ guard = a /\ run[a].pc = "index" /\ document' = document
  BY <1>3, <1>7 DEF Touches
<1> QED
  BY <1>4, <1>5, <1>6, <1>7 DEF Serves, DocumentServed

LEMMA Touched ==
    ASSUME StepInv, NEW a \in Handlers, Live(a), NEW i, NEW x, Touches(a, <<i, x>>)
    PROVE  /\ i \in Jobs /\ i = run[a].job /\ x = run[a].attempt
           /\ checkpoint[i].attempt = x /\ checkpoint[i].state # "cancelled" /\ checkpoint[i].named
           /\ \/ receipt[i].attempt # x /\ run[a].pc \in {"claim", "index"}
              \/ receipt[i].outcome = "pending" /\ receipt[i].owner = <<i, x>> /\ run[a].pc = "publish"
<1>1. i = run[a].job /\ x = run[a].attempt /\ guard = a /\ run[a].pc \in {"claim", "index", "publish"}
  BY DEF Touches, Me
<1>2. /\ i \in Jobs /\ Sound(a, run[a], guard, checkpoint[i], receipt[i], document, points)
      /\ Informed(a, run[a], guard, receipt[i], document)
  BY <1>1, StepRow DEF SoundRun
<1>3. checkpoint[i].attempt = x /\ checkpoint[i].state # "cancelled"
  BY <1>1, <1>2 DEF Sound, Grips
<1>4. run[a].pc \in Named /\ (run[a].pc # "publish" => run[a].pc \in Before)
  BY <1>1 DEF Named, Before, Deciding, Early
<1>5. checkpoint[i].named
  BY <1>1, <1>2, <1>3, <1>4 DEF Sound, Heeds
<1>6. run[a].pc # "publish" => receipt[i].attempt # x
  BY <1>1, <1>2, <1>4 DEF Sound, Heeds
<1>7. run[a].pc = "publish" => receipt[i].outcome = "pending" /\ receipt[i].owner = <<i, x>>
  BY <1>1, <1>2 DEF Informed, Publishing
<1> QED
  BY <1>1, <1>2, <1>3, <1>5, <1>6, <1>7

(* A receipt is decided, or the intent of the thread replaces it.          *)
Progresses(a, i) ==
    LET r == receipt[i] s == receipt'[i] IN
    \/ /\ s.attempt = r.attempt /\ s.owner = r.owner
       /\ s.outcome = "cancelled" /\ r.outcome # "cancelled" /\ document'.owner = <<i, r.attempt>> =>
             Gone(document', points')
    \/ a \in Handlers /\ i = run[a].job /\ Intends(a, i)

LEMMA ReceiptProgresses ==
    ASSUME NEW a, Serves(a), NEW i \in Jobs
    PROVE  Progresses(a, i)
BY DEF Serves, ReceiptServed, ReceiptKeptBy, Holds, Resolves, Progresses

LEMMA TracesKept ==
    ASSUME StepInv, NEW a \in Handlers \cup {NoHandler}, a \in Handlers => Live(a), Serves(a),
           NEW i \in Jobs
    PROVE  TraceInv(i)'
<1> DEFINE c == checkpoint[i]  e == checkpoint'[i]  r == receipt[i]  s == receipt'[i]
<1>1. Advances(i) /\ Progresses(a, i)
  BY CheckpointAdvances, ReceiptProgresses
<1>2. TraceInv(i) /\ c.attempt \in Nat /\ r.attempt \in Nat
  <2>1. JobInv(i) /\ c \in Checkpoint /\ r \in Receipt
    BY DEF StepInv, AuthorityInv, PublicationInv, StoreInv, StoreTyped
  <2> QED
    BY <2>1, PublicationAssumption DEF JobInv, Checkpoint, Receipt
<1>3. ASSUME NEW x, Touches(a, <<i, x>>)
      PROVE  /\ c.attempt = x /\ c.state # "cancelled" /\ c.named
             /\ x = s.attempt => /\ s.owner = <<i, x>> /\ r.outcome = "pending"
                                 /\ s.attempt = r.attempt
                                 /\ s.outcome = "cancelled" /\ document'.owner = <<i, x>> =>
                                        Gone(document', points')
  <2>1. a \in Handlers /\ Live(a)
    BY <1>3 DEF Touches
  <2>2. /\ c.attempt = x /\ c.state # "cancelled" /\ c.named
        /\ \/ r.attempt # x /\ run[a].pc \in {"claim", "index"}
           \/ r.outcome = "pending" /\ r.owner = <<i, x>> /\ run[a].pc = "publish"
    BY <1>3, <2>1, Touched
  <2>3. ~Intends(a, i)
    BY <2>2 DEF Intends
  <2> QED
    BY <1>1, <2>2, <2>3 DEF Progresses
<1>4. ASSUME NEW x, document'.owner = <<i, x>>, ~Touches(a, <<i, x>>)
      PROVE  document.owner = <<i, x>> /\ (Gone(document, points) => Gone(document', points'))
  BY <1>4, Untouched
<1> HIDE DEF c, e, r, s
<1>5. ASSUME NEW x \in 1..MaxTries, document'.owner = <<i, x>>
      PROVE  x <= e.attempt /\ (x = e.attempt => e.named)
  <2>1. x \in Nat /\ x <= c.attempt /\ (x = c.attempt => c.named)
    <3>1. x \in Nat
      BY PublicationAssumption
    <3>2. CASE Touches(a, <<i, x>>)
      BY <1>2, <1>3, <3>1, <3>2
    <3>3. CASE ~Touches(a, <<i, x>>)
      BY <1>2, <1>4, <1>5, <3>1, <3>3 DEF TraceInv, Traces, c
    <3> QED
      BY <3>2, <3>3
  <2> QED
    BY <1>1, <1>2, <2>1 DEF Advances, Extends, c, e
<1>6. ASSUME e.state = "cancelled", document'.owner = <<i, e.attempt>>
      PROVE  Gone(document', points')
  <2>1. e.attempt = c.attempt /\ (c.state # "cancelled" => Leaves(i))
    BY <1>1, <1>6 DEF Advances, Extends, c, e
  <2>2. CASE c.state # "cancelled"
    BY <1>6, <2>1, <2>2 DEF Leaves, c
  <2>3. CASE c.state = "cancelled"
    <3>1. ~Touches(a, <<i, e.attempt>>)
      BY <1>3, <2>3
    <3>2. Gone(document, points)
      BY <1>2, <1>4, <1>6, <2>1, <2>3, <3>1 DEF TraceInv, Traces, c
    <3> QED
      BY <1>4, <1>6, <3>1, <3>2
  <2> QED
    BY <2>2, <2>3
<1>7. ASSUME s.outcome = "cancelled", document'.owner = <<i, s.attempt>>
      PROVE  Gone(document', points')
  <2>1. CASE Touches(a, <<i, s.attempt>>)
    BY <1>3, <1>7, <2>1
  <2>2. CASE ~Touches(a, <<i, s.attempt>>)
    <3>1. /\ s.attempt = r.attempt
          /\ r.outcome # "cancelled" /\ document'.owner = <<i, r.attempt>> => Gone(document', points')
      BY <1>1, <1>7 DEF Progresses, Intends, r, s
    <3>2. r.outcome = "cancelled" => Gone(document, points)
      BY <1>2, <1>4, <1>7, <2>2, <3>1 DEF TraceInv, Traces, r
    <3> QED
      BY <1>4, <1>7, <2>2, <3>1, <3>2
  <2> QED
    BY <2>1, <2>2
<1>8. ASSUME s.owner # <<i, s.attempt>>, document'.owner = <<i, s.attempt>>
      PROVE  FALSE
  <2>1. CASE Touches(a, <<i, s.attempt>>)
    BY <1>3, <1>8, <2>1
  <2>2. CASE ~Touches(a, <<i, s.attempt>>)
    <3>1. document.owner = <<i, s.attempt>>
      BY <1>4, <1>8, <2>2
    <3> QED
      BY <1>1, <1>2, <1>8, <3>1 DEF Progresses, Intends, TraceInv, Traces, r, s
  <2> QED
    BY <2>1, <2>2
<1>9. ASSUME e.state = "cancelled"
      PROVE  e.cancel \/ e.attempt = s.attempt
  <2>1. e.attempt = c.attempt /\ (c.cancel => e.cancel) /\ (c.state # "cancelled" => Leaves(i))
    BY <1>1, <1>9 DEF Advances, Extends, c, e
  <2>2. CASE c.state # "cancelled"
    BY <2>1, <2>2 DEF Leaves, e, s
  <2>3. CASE c.state = "cancelled"
    <3>1. c.cancel \/ c.attempt = r.attempt
      BY <1>2, <2>3 DEF TraceInv, Traces, c, r
    <3>2. ~(a \in Handlers /\ i = run[a].job /\ Intends(a, i))
      <4> SUFFICES ASSUME a \in Handlers, i = run[a].job, Intends(a, i) PROVE FALSE
        OBVIOUS
      <4>1. SoundRun(a) /\ guard = a
        BY StepRow DEF Intends
      <4> QED
        BY <2>3, <4>1 DEF SoundRun, Sound, Grips, c
    <3>3. s.attempt = r.attempt
      BY <1>1, <3>2 DEF Progresses, r, s
    <3> QED
      BY <2>1, <3>1, <3>3
  <2> QED
    BY <2>2, <2>3
<1> QED
  BY <1>5, <1>6, <1>7, <1>8, <1>9 DEF TraceInv, Traces, e, s

LEMMA JobsKept ==
    ASSUME StepInv, NEW a \in Handlers \cup {NoHandler}, a \in Handlers => Live(a), Serves(a),
           UNCHANGED queue, NEW i \in Jobs
    PROVE  JobInv(i)'
<1>1. TraceInv(i)' /\ Advances(i) /\ Progresses(a, i)
  BY TracesKept, CheckpointAdvances, ReceiptProgresses
<1>2. JobInv(i) /\ tries' = tries /\ grants' = grants
  BY DEF StepInv, queue
<1>3. checkpoint'[i].attempt <= tries[i]
  BY <1>1, <1>2 DEF Advances, Extends, JobInv
<1>4. receipt'[i].attempt <= tries[i]
  <2>1. a \in Handlers /\ i = run[a].job => run[a].attempt <= tries[i]
    BY StepRow DEF Alone
  <2> QED
    BY <1>1, <1>2, <2>1 DEF Progresses, Intends, JobInv
<1> QED
  BY <1>1, <1>2, <1>3, <1>4 DEF JobInv

-----------------------------------------------------------------------------
(* What becomes of the threads, and of jobs that are over *)

(* Thread h is still in its attempt, or has ended.                         *)
Endures(h) ==
    run'[h].pc # "idle" =>
        LET m == run[h] n == run'[h] IN
        /\ m.pc # "idle" /\ n.job = m.job /\ n.attempt = m.attempt /\ n.grant = m.grant
        /\ m.lost => n.lost
        /\ Harmless(m) => Harmless(n)
        /\ n.pc = "dup_commit" =>
              m.pc = "dup_commit" \/ (m.pc = "dup_decide" /\ ~receipt[m.job].cancel)
        /\ SoundRun(h)'

LEMMA StepKept ==
    ASSUME StepInv, AuthorityInv', \A i \in Jobs : JobInv(i)', \A h \in Handlers : Endures(h),
           UNCHANGED queue
    PROVE  StepInv'
<1>1. tries' = tries
  BY DEF queue
<1>2. ASSUME NEW h \in Handlers, Live(h)' PROVE Alone(h)' /\ SoundRun(h)'
  <2>1. /\ Live(h) /\ run'[h].job = run[h].job /\ run'[h].attempt = run[h].attempt
        /\ run'[h].grant = run[h].grant /\ (Harmless(run[h]) => Harmless(run'[h])) /\ SoundRun(h)'
    BY <1>2 DEF Endures, Live
  <2>2. Alone(h)
    BY <2>1 DEF StepInv
  <2>3. ASSUME NEW k \in Handlers, Live(k)', run'[k].job = run'[h].job,
               run'[k].attempt = run'[h].attempt
        PROVE  k = h
    <3>1. Live(k) /\ run'[k].job = run[k].job /\ run'[k].attempt = run[k].attempt
      BY <2>3 DEF Endures, Live
    <3> QED
      BY <2>1, <2>2, <2>3, <3>1 DEF Alone
  <2> QED
    BY <1>1, <2>1, <2>2, <2>3 DEF Alone
<1> QED
  BY <1>2 DEF StepInv

(* No thread of job j changes anything any more.                           *)
Stale(j) == \A h \in Handlers : Live(h) /\ run[h].job = j => Harmless(run[h])

Warned(j) == \A h \in Handlers : Live(h) /\ run[h].job = j => run[h].lost

(* Job j has not published, and no thread of it will.                      *)
Over(j) == receipt[j].outcome \in {"none", "failed"} /\ Stale(j)

(* Job j was cancelled before it published.                                *)
Shut(j) ==
    \/ receipt[j].outcome = "cancelled"
    \/ /\ checkpoint[j].attempt = tries[j] /\ checkpoint[j].cancel
       /\ \/ receipt[j].outcome \in {"none", "failed"}
          \/ /\ receipt[j].outcome = "pending" /\ receipt[j].cancel
             /\ \A h \in Handlers : run[h].job = j => run[h].pc # "dup_commit"

LEMMA StaleKept ==
    ASSUME NEW j \in Jobs, \A h \in Handlers : Endures(h)
    PROVE  (Stale(j) => Stale(j)') /\ (Warned(j) => Warned(j)')
BY DEF Stale, Warned, Endures, Live

LEMMA OverKept ==
    ASSUME StepInv, NEW a \in Handlers \cup {NoHandler}, a \in Handlers => Live(a), Serves(a),
           NEW j \in Jobs, \A h \in Handlers : Endures(h), Over(j)
    PROVE  Over(j)'
<1>1. Stale(j)'
  BY StaleKept DEF Over
<1>2. ReceiptServed(a, j)
  BY DEF Serves
<1>3. ~(a \in Handlers /\ j = run[a].job /\ Intends(a, j))
  BY DEF Over, Stale, Harmless, Intends
<1>4. receipt'[j].outcome \in {"none", "failed"}
  BY <1>2, <1>3 DEF ReceiptServed, ReceiptKeptBy, Holds, Resolves, Over
<1> QED
  BY <1>1, <1>4 DEF Over

LEMMA ShutKept ==
    ASSUME StepInv, NEW a \in Handlers \cup {NoHandler}, a \in Handlers => Live(a), Serves(a),
           NEW j \in Jobs, \A h \in Handlers : Endures(h), UNCHANGED queue, Shut(j)
    PROVE  Shut(j)'
<1> DEFINE c == checkpoint[j]  e == checkpoint'[j]  r == receipt[j]  s == receipt'[j]
<1>1. ReceiptServed(a, j) /\ Advances(j)
  BY CheckpointAdvances DEF Serves
<1>2. CASE r.outcome = "cancelled"
  BY <1>1, <1>2 DEF ReceiptServed, ReceiptKeptBy, Holds, Resolves, Intends, Shut
<1>3. CASE c.attempt = tries[j] /\ c.cancel
  <2>1. e.attempt = tries'[j] /\ e.cancel
    <3>1. tries[j] \in Nat
      BY QueueRow, PublicationAssumption DEF StepInv, AuthorityInv
    <3> QED
      BY <1>1, <1>3, <3>1 DEF Advances, Extends, queue
  <2>2. ASSUME NEW h \in Handlers, run'[h].job = j, run'[h].pc = "dup_commit",
               r.outcome = "pending" => r.cancel /\ (run[h].job = j => run[h].pc # "dup_commit"),
               r.outcome \in {"none", "failed", "pending"}
        PROVE  FALSE
    <3>1. /\ Live(h) /\ run[h].job = j
          /\ run[h].pc = "dup_commit" \/ (run[h].pc = "dup_decide" /\ ~r.cancel)
      BY <2>2 DEF Endures, Live
    <3>2. r.outcome = "pending"
      BY <3>1, StepRow DEF SoundRun, Sound, Heeds, Deciding
    <3> QED
      BY <2>2, <3>1, <3>2
  <2>3. CASE r.outcome \in {"none", "failed"}
    <3>1. s.outcome \in {"none", "failed"} \/ (s.outcome = "pending" /\ s.cancel)
      <4>1. CASE Intends(a, j)
        BY <1>3, <4>1 DEF Intends
      <4>2. CASE ~Intends(a, j)
        BY <1>1, <2>3, <4>2 DEF ReceiptServed, ReceiptKeptBy, Holds, Resolves
      <4> QED
        BY <4>1, <4>2
    <3>2. \A h \in Handlers : run'[h].job = j => run'[h].pc # "dup_commit"
      BY <2>2, <2>3
    <3> QED
      BY <2>1, <3>1, <3>2 DEF Shut
  <2>4. CASE /\ r.outcome = "pending" /\ r.cancel
             /\ \A h \in Handlers : run[h].job = j => run[h].pc # "dup_commit"
    <3>1. ~(a \in Handlers /\ j = run[a].job /\ run[a].pc = "dup_commit")
      BY <2>4
    <3>2. s.outcome \in {"failed", "cancelled"} \/ (s.outcome = "pending" /\ s.cancel)
      BY <1>1, <2>4, <3>1 DEF ReceiptServed, ReceiptKeptBy, Holds, Resolves, Intends
    <3>3. \A h \in Handlers : run'[h].job = j => run'[h].pc # "dup_commit"
      BY <2>2, <2>4
    <3> QED
      BY <2>1, <3>2, <3>3 DEF Shut
  <2>5. CASE r.outcome = "cancelled"
    BY <1>2, <2>5
  <2> QED
    BY <2>3, <2>4, <2>5 DEF Shut
<1> QED
  BY <1>2, <1>3 DEF Shut

(* What the call on job j has found out, and what the end of a job means.  *)
Ruled(j) ==
    LET k == call[j] IN
    /\ k.why = "fail" => Stale(j)
    /\ k.why \in {"timeout", "release"} => Warned(j)
    /\ k.why \in {"timeout", "release"} /\ k.stage = "apply" => Stale(j)
    /\ k.why \in {"fail", "timeout", "release"} /\ k.stage = "apply" /\ k.note = "none" => Over(j)
    /\ k.stage = "apply" /\ k.note = "cancelled" => Shut(j)

Closed(j) ==
    /\ phase[j] \in {"absent", "waiting", "dead"} => Over(j)
    /\ phase[j] = "cancelled" => Over(j) \/ Shut(j)

EndsInv == /\ StepInv /\ (deleting => "delete" \in Maintenance)
           /\ \A j \in Jobs : Ruled(j) /\ Closed(j)

(* A step that leaves the queue and the calls alone.                       *)
LEMMA ServesKeep ==
    ASSUME EndsInv, AuthorityInv', NEW a \in Handlers \cup {NoHandler}, a \in Handlers => Live(a),
           Serves(a), \A h \in Handlers : Endures(h), UNCHANGED queue
    PROVE  /\ StepInv'
           /\ \A j \in Jobs : Closed(j)' /\ (call'[j] = call[j] => Ruled(j)')
           /\ \A j \in Jobs : /\ Over(j) => Over(j)'
                              /\ Stale(j) => Stale(j)'
                              /\ Warned(j) => Warned(j)'
<1>1. StepInv
  BY DEF EndsInv
<1>2. StepInv'
  BY <1>1, JobsKept, StepKept
<1>3. ASSUME NEW j \in Jobs PROVE /\ Over(j) => Over(j)'
                                  /\ Stale(j) => Stale(j)'
                                  /\ Warned(j) => Warned(j)'
                                  /\ Shut(j) => Shut(j)'
  BY <1>1, StaleKept, OverKept, ShutKept
<1>4. ASSUME NEW j \in Jobs PROVE Closed(j)' /\ (call'[j] = call[j] => Ruled(j)')
  <2>1. Ruled(j) /\ Closed(j) /\ phase' = phase
    BY DEF EndsInv, queue
  <2>2. Closed(j)'
    BY <1>3, <2>1 DEF Closed
  <2>3. call'[j] = call[j] => Ruled(j)'
    BY <1>3, <2>1 DEF Ruled
  <2> QED
    BY <2>2, <2>3
<1> QED
  BY <1>2, <1>3, <1>4

-----------------------------------------------------------------------------
(* The steps of a thread *)

Stores(a) == DocumentServed(a) /\ \A i \in Jobs : CheckpointServed(a, i) /\ ReceiptServed(a, i)

LEMMA SettledStores ==
    ASSUME NEW a, Settled
    PROVE  Stores(a)
<1>1. DocumentServed(a)
  BY DEF Settled, DocumentHeld, DocumentServed, Hushed
<1> QED
  BY <1>1 DEF Settled, Stores, CheckpointServed, ReceiptServed

LEMMA IdleStores ==
    ASSUME NEW a, UNCHANGED <<checkpoint, receipt, document, points>>
    PROVE  Stores(a)
BY StoreRests, CheckpointsRest, SettledStores DEF Settled

(* A thread that ends, or reports.                                         *)
LEMMA EndEndures ==
    ASSUME NEW a \in Handlers, run \in [Handlers -> Run], End(a)
    PROVE  Endures(a)
<1>1. run'[a].pc = "idle"
  BY DEF End, Idle
<1> QED
  BY <1>1 DEF Endures

LEMMA DoneEndures ==
    ASSUME StepInv, NEW a \in Handlers, Live(a), NEW pc \in {"published", "failed"}, Done(a, pc),
           guard' # a
    PROVE  Endures(a)
<1> DEFINE m == run[a]
           n == Reporting(m.job, m.attempt, m.grant, pc, m.lost)
<1>1. m \in Run /\ m.job \in Jobs /\ run \in [Handlers -> Run]
  BY StepRow, Row DEF StepInv, AuthorityInv
<1>2. m.attempt \in 1..MaxTries /\ m.grant \in Nat /\ m.lost \in BOOLEAN
  BY <1>1 DEF Run
<1>3. n.pc = pc /\ n.job = m.job /\ n.attempt = m.attempt /\ n.grant = m.grant /\ n.lost = m.lost
  BY <1>1, <1>2, ReportingRow
<1>4. ~n.resumed
  BY DEF Reporting, Started, Idle
<1>5. run'[a] = n
  BY <1>1 DEF Done, Reporting
<1> HIDE DEF n
<1>6. SoundRun(a)'
  <2>1. pc \notin Before \cup Deciding \cup Early \cup Named \cup Unwritten \cup Writing
               \cup {"chunks", "manifest", "finish"}
    BY DEF Before, Deciding, Early, Named, Unwritten, Writing
  <2>2. ~Working(n)
    BY <1>3 DEF Working
  <2> QED
    BY <1>3, <1>4, <1>5, <2>1, <2>2 DEF SoundRun, Sound, Heeds, Wrote, Grips, Purged, Filled
<1> QED
  BY <1>3, <1>5, <1>6 DEF Endures, Harmless, Live

(* A thread that moves on with what it has.                                *)
Alters(m, n) ==
    /\ n.job = m.job /\ n.attempt = m.attempt /\ n.grant = m.grant /\ n.lost = m.lost
    /\ n.wrote = m.wrote /\ n.resumed = m.resumed /\ n.lineage = m.lineage /\ n.next = m.next

Onward(p, q) ==
    /\ p \notin {"idle", "published", "failed"} /\ q \notin {"idle", "published", "failed", "finish"}
    /\ q \in Before => p \in Before
    /\ q \in Deciding => p \in Deciding
    /\ q \in Early <=> p \in Early
    /\ q \in Named => p \in Named
    /\ q \in Unwritten => p \in Unwritten
    /\ q \notin {"chunks", "manifest", "index"}
    /\ q \in Writing => /\ p \in {"verify", "intent", "decide", "publish"}
                        /\ q \in {"intent", "decide", "publish"}

Unseen(a, q) ==
    LET j == run[a].job c == checkpoint[j] e == checkpoint'[j] r == receipt[j] s == receipt'[j] IN
    /\ Extends(c, e) /\ (q \in Early /\ e.outputs # << >> => c.outputs # << >>)
    /\ q \in Before => s.attempt = r.attempt
    /\ q \in Deciding => s.attempt = r.attempt /\ s.outcome = r.outcome
    /\ document'.owner = document.owner /\ document'.lineage = document.lineage
    /\ q \in Writing => points' = points /\ (document.chunks => document'.chunks)
    /\ guard' = a => guard = a /\ e.state = c.state

LEMMA MoveEndures ==
    ASSUME StepInv, NEW a \in Handlers, NEW n, run' = [run EXCEPT ![a] = n],
           Alters(run[a], n), Onward(run[a].pc, n.pc), Unseen(a, n.pc),
           Harmless(run[a]) => Harmless(n),
           n.pc = "dup_commit" =>
               run[a].pc = "dup_decide" /\ ~receipt[run[a].job].cancel
    PROVE  Endures(a)
<1> DEFINE m == run[a]  j == m.job  c == checkpoint[j]  e == checkpoint'[j]
           r == receipt[j]  s == receipt'[j]
<1>1. Live(a) /\ Working(m) /\ Working(n) /\ m.pc # "idle"
  BY DEF Onward, Live, Working
<1>2. /\ m \in Run /\ m.attempt \in Nat /\ c.attempt \in Nat /\ run \in [Handlers -> Run]
      /\ Sound(a, m, guard, c, r, document, points)
  BY <1>1, StepRow, Row DEF SoundRun, StepInv, AuthorityInv
<1>3. run'[a] = n
  BY <1>2
<1>4. Heeds(n, e, s)
  BY <1>1, <1>2 DEF Sound, Heeds, Alters, Onward, Unseen, Extends
<1>5. Wrote(n, document')
  <2>1. ~n.resumed /\ (n.pc \in Unwritten => ~n.wrote) /\ (~n.wrote => ~m.wrote)
    BY <1>2 DEF Sound, Wrote, Alters, Onward
  <2>2. n.pc \in Unwritten \cup {"chunks", "manifest"} => n.next = 1
    BY <1>2 DEF Sound, Wrote, Alters, Onward
  <2>3. ~n.wrote => document'.owner # <<n.job, n.attempt>>
    BY <1>1, <1>2, <2>1 DEF Sound, Wrote, Alters, Unseen
  <2> QED
    BY <2>1, <2>2, <2>3 DEF Wrote
<1>6. Grips(a, n, guard', e, document')
  BY <1>2 DEF Sound, Grips, Alters, Onward, Unseen, Extends
<1>7. Purged(n, document', points')
  BY DEF Onward, Purged
<1>8. Filled(a, n, guard', e, document', points')
  <2> SUFFICES ASSUME document'.owner = <<n.job, n.attempt>>
               PROVE  Filled(a, n, guard', e, document', points')
    BY DEF Filled
  <2>1. document.owner = <<m.job, m.attempt>>
    BY DEF Alters, Unseen
  <2>2. n.pc \in Writing \cup {"chunks"} => n.pc \in Writing /\ m.pc \in Writing
    BY DEF Onward, Writing
  <2>3. n.pc \in Writing \cup {"chunks"} => document'.lineage = n.lineage
    BY <1>2, <2>1, <2>2 DEF Sound, Filled, Alters, Unseen
  <2>4. ASSUME n.pc \in Writing, guard' = a \/ ~e.cancel, "delete" \notin Maintenance
        PROVE  /\ document'.chunks /\ n.next = Batches + 1
               /\ \A b \in 1..Batches : b < n.next => points'[b] = Origin(document'.owner, document'.lineage)
    <3>1. guard = a \/ ~c.cancel
      BY <2>4 DEF Unseen, Extends
    <3>2. m.pc \in {"verify", "intent", "decide", "publish"}
      BY <2>4 DEF Onward
    <3>3. /\ document.chunks /\ m.next = Batches + 1
          /\ \A b \in 1..Batches : b < m.next => points[b] = Origin(document.owner, document.lineage)
      BY <1>2, <2>1, <2>2, <2>4, <3>1, <3>2 DEF Sound, Filled
    <3> QED
      BY <2>4, <3>3 DEF Alters, Unseen
  <2> QED
    BY <2>3, <2>4 DEF Filled
<1>9. SoundRun(a)'
  <2>1. n.job = j
    BY DEF Alters
  <2> QED
    BY <1>3, <1>4, <1>5, <1>6, <1>7, <1>8, <2>1 DEF SoundRun, Sound
<1> QED
  BY <1>1, <1>3, <1>9 DEF Endures, Alters

LEMMA GotoEndures ==
    ASSUME StepInv, NEW a \in Handlers, NEW pc \in Pc, Goto(a, pc),
           Onward(run[a].pc, pc), Unseen(a, pc), Harmless(run[a]) => pc \in {"restart", "begin"},
           pc = "dup_commit" => run[a].pc = "dup_decide" /\ ~receipt[run[a].job].cancel
    PROVE  Endures(a)
<1> DEFINE n == [run[a] EXCEPT !.pc = pc]
<1>1. run[a] \in Run /\ run \in [Handlers -> Run]
  BY Row DEF StepInv, AuthorityInv
<1>2. run' = [run EXCEPT ![a] = n]
  BY <1>1 DEF Goto
<1>3. n.pc = pc /\ Alters(run[a], n)
  BY <1>1 DEF Run, Alters
<1>4. Harmless(run[a]) => Harmless(n)
  <2>1. n.lost = run[a].lost
    BY <1>3 DEF Alters
  <2> QED
    BY <1>3, <2>1 DEF Harmless
<1> HIDE DEF n
<1> QED
  BY <1>2, <1>3, <1>4, MoveEndures

LEMMA ThrowEndures ==
    ASSUME StepInv, NEW a \in Handlers, NEW e, Throw(a, e),
           Onward(run[a].pc, "except"), Unseen(a, "except")
    PROVE  Endures(a)
<1> DEFINE n == [run[a] EXCEPT !.pc = "except", !.error = e, !.cancel = @ \/ e = "cancel"]
<1>1. run[a] \in Run /\ run \in [Handlers -> Run]
  BY Row DEF StepInv, AuthorityInv
<1>2. run' = [run EXCEPT ![a] = n]
  BY <1>1 DEF Throw
<1>3. n.pc = "except" /\ Alters(run[a], n)
  BY <1>1 DEF Run, Alters
<1>4. Harmless(run[a]) => Harmless(n)
  <2>1. n.lost = run[a].lost
    BY <1>3 DEF Alters
  <2> QED
    BY <1>3, <2>1 DEF Harmless
<1> HIDE DEF n
<1> QED
  BY <1>2, <1>3, <1>4, MoveEndures

(* A thread in one of these places that throws leaves its store as it is.  *)
Thrower == Checked \cup {"produced", "manifest", "decide", "publish", "dup_decide", "dup_commit"}

LEMMA ThrowLeaves ==
    ASSUME StepInv, NEW a \in Handlers, NEW e, Throw(a, e), run[a].pc \in Thrower,
           UNCHANGED <<checkpoint, receipt, document, points>>
    PROVE  Stores(a) /\ Endures(a)
<1>1. Stores(a)
  BY IdleStores
<1>2. a # NoHandler
  BY PublicationAssumption
<1>3. Unseen(a, "except")
  BY <1>2 DEF Unseen, Extends, Throw, Before, Deciding, Early, Writing
<1>4. Onward(run[a].pc, "except")
  BY DEF Onward, Thrower, Checked, Before, Deciding, Early, Named, Unwritten, Writing
<1> QED
  BY <1>1, <1>3, <1>4, ThrowEndures

(* Recovery before the work.                                               *)
LEMMA RecoversServe ==
    ASSUME StepInv, NEW a \in Handlers, Recover(a) \/ Restart(a)
    PROVE  Stores(a) /\ Endures(a)
<1>1. Live(a) /\ run[a].pc \in {"recover", "restart"}
  BY DEF Recover, Restart, At, Live
<1>2. run[a].job \in Jobs /\ StoreInv /\ AuthorityInv /\ PublicationInv
  BY <1>1, StepRow
<1>3. run \in [Handlers -> Run] /\ guard # a
  BY <1>1, <1>2, Row DEF Holders, Guarded
<1>4. \A i \in Jobs : TraceInv(i)
  BY DEF StepInv, JobInv
<1>5. \E o, expected :
          /\ RecoverPublication(run[a].job, expected, FALSE, o)
          /\ \/ Done(a, "published") \/ Done(a, "failed") \/ End(a)
             \/ Goto(a, "restart") \/ Goto(a, "begin")
  <2>1. CASE Recover(a)
    BY <2>1 DEF Recover
  <2>2. CASE Restart(a)
    BY <2>2 DEF Restart
  <2> QED
    BY <2>1, <2>2
<1>6. Settled /\ guard' = guard
  <2>1. \E o, expected : RecoverPublication(run[a].job, expected, FALSE, o)
    BY <1>5
  <2>2. PICK o, expected : RecoverPublication(run[a].job, expected, FALSE, o)
    BY <2>1
  <2>3. ReceiptsKnown /\ PublishedKnown
    BY <1>2 DEF AuthorityInv
  <2>4. Settled
    BY <1>2, <1>4, <2>2, <2>3, RecoverSettles
  <2> QED
    BY <2>2, <2>4 DEF RecoverPublication
<1>7. Stores(a)
  BY <1>6, SettledStores
<1>8. CASE Done(a, "published") \/ Done(a, "failed")
  BY <1>1, <1>3, <1>6, <1>7, <1>8, DoneEndures
<1>9. CASE End(a)
  BY <1>3, <1>7, <1>9, EndEndures
<1>10. CASE Goto(a, "restart") \/ Goto(a, "begin")
  <2>1. PICK pc \in {"restart", "begin"} : Goto(a, pc)
    BY <1>10
  <2>2. Onward(run[a].pc, pc)
    BY <1>1 DEF Onward, Before, Deciding, Early, Named, Unwritten, Writing
  <2>3. CheckpointKept(run[a].job) /\ ReceiptKeptBy(run[a].job) /\ DocumentHeld
    BY <1>2, <1>6 DEF Settled
  <2>4. receipt'[run[a].job].attempt = receipt[run[a].job].attempt
    BY <2>3 DEF ReceiptKeptBy, Holds, Resolves
  <2>5. document'.owner = document.owner /\ document'.lineage = document.lineage
    <3>1. document \in Document
      BY <1>2 DEF StoreInv, StoreTyped
    <3> QED
      BY <2>3, <3>1 DEF DocumentHeld, Hushed, Standing, Publicizes, Document
  <2>6. Unseen(a, pc)
    BY <1>3, <1>6, <2>3, <2>4, <2>5 DEF Unseen, CheckpointKept, Deciding, Writing
  <2> QED
    BY <1>7, <2>1, <2>2, <2>6, GotoEndures DEF Pc
<1> QED
  BY <1>5, <1>8, <1>9, <1>10

(* A thread that moves on and leaves the store as it is.                   *)
LEMMA GotoLeaves ==
    ASSUME StepInv, NEW a \in Handlers, NEW pc \in Pc, Goto(a, pc), Onward(run[a].pc, pc),
           UNCHANGED <<checkpoint, receipt, document, points>>, guard' = a => guard = a,
           ~Harmless(run[a]),
           pc = "dup_commit" => run[a].pc = "dup_decide" /\ ~receipt[run[a].job].cancel
    PROVE  Stores(a) /\ Endures(a)
<1>1. Unseen(a, pc)
  BY DEF Unseen, Extends
<1> QED
  BY <1>1, IdleStores, GotoEndures

LEMMA OutputsServe ==
    ASSUME StepInv, NEW a \in Handlers, Outputs(a) \/ Verify(a)
    PROVE  Stores(a) /\ Endures(a)
<1>1. run[a].pc \in {"outputs", "verify"} /\ ~Harmless(run[a])
  BY DEF Outputs, Verify, At, Harmless
<1>2. UNCHANGED <<checkpoint, receipt, document, points>>
  BY DEF Outputs, Verify, store
<1>3. CASE Outputs(a)
  <2>1. PICK pc \in {"produced", "claim"} : Goto(a, pc)
    BY <1>3 DEF Outputs
  <2>2. guard' = guard
    BY <1>3 DEF Outputs, store
  <2>3. run[a].pc = "outputs"
    BY <1>3 DEF Outputs, At
  <2>4. Onward(run[a].pc, pc)
    BY <2>3 DEF Onward, Before, Deciding, Early, Named, Unwritten, Writing
  <2> QED
    BY <1>1, <1>2, <2>1, <2>2, <2>4, GotoLeaves DEF Pc
<1>4. CASE Verify(a)
  <2>1. run[a].pc = "verify"
    BY <1>4 DEF Verify, At
  <2>2. CASE Goto(a, "intent") /\ UNCHANGED guard
    <3>1. Onward(run[a].pc, "intent")
      BY <2>1 DEF Onward, Before, Deciding, Early, Named, Unwritten, Writing
    <3> QED
      BY <1>1, <1>2, <2>2, <3>1, GotoLeaves DEF Pc
  <2>3. CASE Throw(a, "other")
    BY <1>2, <2>1, <2>3, ThrowLeaves DEF Thrower, Checked
  <2> QED
    BY <1>4, <2>2, <2>3 DEF Verify
<1> QED
  BY <1>3, <1>4

LEMMA ExceptServes ==
    ASSUME StepInv, NEW a \in Handlers, Except(a)
    PROVE  Stores(a) /\ Endures(a)
<1>1. Live(a) /\ run[a].pc = "except" /\ UNCHANGED <<checkpoint, receipt, document, points, guard>>
  BY DEF Except, At, Live, store
<1>2. guard # a /\ run \in [Handlers -> Run]
  BY <1>1, Row DEF Holders, Guarded, StepInv, AuthorityInv
<1>3. CASE End(a)
  BY <1>1, <1>2, <1>3, EndEndures, IdleStores
<1>4. CASE Done(a, "failed")
  BY <1>1, <1>2, <1>4, DoneEndures, IdleStores
<1>5. CASE ~run[a].lost /\ Goto(a, "compensate")
  <2>1. Onward(run[a].pc, "compensate") /\ ~Harmless(run[a])
    BY <1>1, <1>5 DEF Onward, Before, Deciding, Early, Named, Unwritten, Writing, Harmless
  <2> QED
    BY <1>1, <1>5, <2>1, GotoLeaves DEF Pc
<1> QED
  BY <1>3, <1>4, <1>5 DEF Except

LEMMA InterruptionsServe ==
    ASSUME StepInv, NEW a \in Handlers, Interrupted(a) \/ Fault(a) \/ Crash(a)
    PROVE  Stores(a) /\ Endures(a)
<1>1. UNCHANGED <<checkpoint, receipt, document, points>>
  BY DEF Interrupted, Fault, Crash
<1>2. CASE Interrupted(a) \/ Fault(a)
  <2>1. run[a].pc \in Thrower /\ \E e : Throw(a, e)
    BY <1>2 DEF Interrupted, Fault, Thrower
  <2> QED
    BY <1>1, <2>1, ThrowLeaves
<1>3. CASE Crash(a)
  <2>1. End(a) /\ run \in [Handlers -> Run]
    BY <1>3, Row DEF Crash, StepInv, AuthorityInv
  <2> QED
    BY <1>1, <2>1, EndEndures, IdleStores
<1> QED
  BY <1>2, <1>3

LEMMA EnterServes ==
    ASSUME StepInv, NEW a \in Handlers, Enter(a)
    PROVE  Stores(a) /\ Endures(a)
<1> DEFINE m == run[a]  j == m.job  c == checkpoint[j]  r == receipt[j]
<1>1. /\ m.pc \in Guarded /\ Clear(a) /\ UNCHANGED <<checkpoint, receipt, document, points, run>>
      /\ m.pc \in {"chunks", "index", "intent"} => document.owner = <<j, m.attempt>>
  BY DEF Enter, OwnsDocument, Me
<1>2. Live(a) /\ m.pc \in Before
  BY <1>1 DEF Live, Guarded, Before
<1>3. Sound(a, m, guard, c, r, document, points) /\ JobInv(j)
  BY <1>2, StepRow DEF SoundRun
<1>4. c.attempt = m.attempt /\ ~c.cancel
  BY <1>1 DEF Clear, Raised
<1>5. c.state # "cancelled"
  BY <1>2, <1>3, <1>4 DEF JobInv, TraceInv, Traces, Sound, Heeds
<1>6. Grips(a, m, guard', c, document)
  BY <1>1, <1>4, <1>5 DEF Grips
<1>7. Filled(a, m, guard', c, document, points)
  BY <1>3, <1>4 DEF Sound, Filled
<1>8. SoundRun(a)'
  BY <1>1, <1>3, <1>6, <1>7 DEF SoundRun, Sound
<1> QED
  BY <1>1, <1>8, IdleStores DEF Endures

LEMMA BeginServes ==
    ASSUME StepInv, NEW a \in Handlers, Begin(a)
    PROVE  Stores(a) /\ Endures(a)
<1> DEFINE m == run[a]  j == m.job  c == checkpoint[j]  b == BegunCheckpoint(j, m.attempt)
           e == checkpoint'[j]
<1>1. Live(a) /\ m.pc = "begin" /\ UNCHANGED <<receipt, document, points, guard>>
  BY DEF Begin, At, Live
<1>2. /\ m \in Run /\ j \in Jobs /\ m.attempt \in Nat /\ m.attempt # 0 /\ c.attempt \in Nat
      /\ Sound(a, m, guard, c, receipt[j], document, points)
      /\ checkpoint \in [Jobs -> Checkpoint] /\ StoreInv
  BY <1>1, StepRow DEF SoundRun, StoreInv, StoreTyped
<1>3. run \in [Handlers -> Run] /\ guard # a
  BY <1>1, Row DEF Holders, Guarded, StepInv, AuthorityInv
<1>4. CASE UNCHANGED checkpoint /\ Done(a, "failed")
  BY <1>1, <1>3, <1>4, DoneEndures, IdleStores
<1>5. CASE /\ CanBeginCheckpoint(j, m.attempt) /\ checkpoint' = [checkpoint EXCEPT ![j] = b]
           /\ run' = [run EXCEPT ![a].pc = "identify", ![a].out = b.outputs,
                                 ![a].resumed = b.outputs # << >>, ![a].cancel = b.cancel]
  <2> DEFINE n == [m EXCEPT !.pc = "identify", !.out = b.outputs,
                            !.resumed = b.outputs # << >>, !.cancel = b.cancel]
  <2>1. e = b /\ \A i \in Jobs \ {j} : checkpoint'[i] = checkpoint[i]
    BY <1>2, <1>5
  <2>2. /\ b.attempt = m.attempt /\ b.outputs = << >>
        /\ b = c \/ (c.attempt < m.attempt /\ b.state = "active")
    <3>1. CASE c.attempt = m.attempt
      BY <1>1, <1>2, <3>1 DEF BegunCheckpoint, Sound, Heeds, Early
    <3>2. CASE c.attempt # m.attempt
      <4>1. c.attempt < m.attempt
        BY <1>2, <1>5, <3>2 DEF CanBeginCheckpoint
      <4> QED
        BY <3>2, <4>1 DEF BegunCheckpoint, FreshCheckpoint
    <3> QED
      BY <3>1, <3>2
  <2> HIDE DEF b
  <2>3. CheckpointServed(a, j)
    BY <1>2, <2>1, <2>2 DEF CheckpointServed, Renews, CheckpointKept, Extends
  <2>4. \A i \in Jobs \ {j} : CheckpointServed(a, i)
    BY <2>1 DEF CheckpointServed, CheckpointKept, Extends
  <2>5. Stores(a)
    BY <1>1, <2>3, <2>4, StoreRests DEF Stores, ReceiptServed, DocumentServed, DocumentHeld, Hushed
  <2>6. run' = [run EXCEPT ![a] = n]
    BY <1>3, <1>5
  <2>7. /\ n.pc = "identify" /\ n.job = j /\ n.attempt = m.attempt /\ n.grant = m.grant
        /\ n.lost = m.lost /\ n.wrote = m.wrote /\ ~n.resumed /\ n.next = m.next
    BY <1>2, <2>2 DEF Run
  <2> HIDE DEF n
  <2>8. run'[a] = n
    BY <1>3, <2>6
  <2>9. Heeds(n, e, receipt[j])
    BY <1>1, <1>2, <2>1, <2>2, <2>7 DEF Sound, Heeds, Early, Before, Named, Deciding
  <2>10. Wrote(n, document)
    BY <1>1, <1>2, <2>7 DEF Sound, Wrote, Working, Unwritten, Early
  <2>11. /\ Grips(a, n, guard, e, document) /\ Purged(n, document, points)
         /\ Filled(a, n, guard, e, document, points)
    BY <1>3, <2>7 DEF Grips, Purged, Filled, Writing
  <2>12. SoundRun(a)'
    BY <1>1, <2>7, <2>8, <2>9, <2>10, <2>11 DEF SoundRun, Sound
  <2>13. Endures(a)
    BY <1>1, <2>7, <2>8, <2>12 DEF Endures, Harmless
  <2> QED
    BY <2>5, <2>13
<1> QED
  BY <1>4, <1>5 DEF Begin

(* Saving outputs, between two checks.                                     *)
LEMMA SaveServes ==
    ASSUME StepInv, NEW a \in Handlers, run[a].pc \in {"identify", "produced", "manifest"},
           NEW outputs, NEW pc, Save(a, outputs, pc),
           run[a].pc = "identify" => pc \in {"dup", "outputs"} /\ Clear(a),
           run[a].pc = "produced" => pc = "claim",
           run[a].pc = "manifest" => pc = "index"
    PROVE  Stores(a) /\ Endures(a)
<1> DEFINE m == run[a]  j == m.job  c == checkpoint[j]  b == SavedCheckpoint(j, outputs)
           e == checkpoint'[j]
<1>1. Live(a) /\ UNCHANGED <<receipt, document, points>> /\ Working(m) /\ m.pc \in Before
  BY DEF Save, Live, Working, Before, Early
<1>2. /\ m \in Run /\ j \in Jobs /\ m.attempt \in Nat /\ c.attempt \in Nat /\ c \in Checkpoint
      /\ Sound(a, m, guard, c, receipt[j], document, points)
      /\ checkpoint \in [Jobs -> Checkpoint]
  BY <1>1, StepRow DEF SoundRun, StoreInv, StoreTyped
<1>3. run \in [Handlers -> Run] /\ guard # a
  BY <1>1, Row DEF Holders, Guarded, StepInv, AuthorityInv
<1>4. CASE UNCHANGED checkpoint /\ Throw(a, "owner")
  BY <1>1, <1>4, ThrowLeaves DEF Thrower, Checked
<1>5. CASE /\ CanSave(j, m.attempt, outputs) /\ checkpoint' = [checkpoint EXCEPT ![j] = b]
           /\ run' = [run EXCEPT ![a].pc = pc, ![a].out = outputs,
                                 ![a].cancel = @ \/ checkpoint[j].cancel]
           /\ UNCHANGED guard
  <2> DEFINE n == [m EXCEPT !.pc = pc, !.out = outputs, !.cancel = @ \/ checkpoint[j].cancel]
  <2>1. e = b /\ \A i \in Jobs \ {j} : checkpoint'[i] = checkpoint[i]
    BY <1>2, <1>5
  <2>2. c.attempt = m.attempt
    BY <1>5 DEF CanSave
  <2>3. b.attempt = c.attempt /\ b.state = c.state /\ Extends(c, b) /\ b.named
    <3>1. CASE c.cancel
      <4>1. b = c
        BY <3>1 DEF SavedCheckpoint
      <4>2. m.pc # "identify"
        BY <3>1 DEF Clear, Raised
      <4>3. m.pc \in Named
        BY <4>2 DEF Named, Before, Early
      <4> QED
        BY <1>2, <2>2, <4>1, <4>3 DEF Sound, Heeds, Extends
    <3>2. CASE ~c.cancel
      <4>1. b = [c EXCEPT !.named = TRUE, !.outputs = outputs]
        BY <3>2 DEF SavedCheckpoint
      <4>2. b.attempt = c.attempt /\ b.state = c.state /\ b.cancel = c.cancel /\ b.named
        BY <1>2, <4>1 DEF Checkpoint
      <4> QED
        BY <4>2 DEF Extends
    <3> QED
      BY <3>1, <3>2
  <2> HIDE DEF b
  <2>4. CheckpointServed(a, j)
    BY <1>2, <2>1, <2>2, <2>3 DEF CheckpointServed
  <2>5. \A i \in Jobs \ {j} : CheckpointServed(a, i)
    BY <2>1 DEF CheckpointServed, CheckpointKept, Extends
  <2>6. Stores(a)
    BY <1>1, <2>4, <2>5, StoreRests DEF Stores, ReceiptServed, DocumentServed, DocumentHeld, Hushed
  <2>7. run' = [run EXCEPT ![a] = n]
    BY <1>3, <1>5
  <2>8. /\ n.pc = pc /\ n.job = j /\ n.attempt = m.attempt /\ n.grant = m.grant
        /\ n.lost = m.lost /\ n.wrote = m.wrote /\ n.resumed = m.resumed /\ n.next = m.next
        /\ n.lineage = m.lineage
    BY <1>2 DEF Run
  <2> HIDE DEF n
  <2>9. run'[a] = n
    BY <1>3, <2>7
  <2>10. /\ pc \in {"dup", "outputs", "claim", "index"} /\ Working(n)
         /\ pc \in Before /\ pc \notin Early /\ pc \notin Deciding
         /\ pc \in Unwritten \cup {"chunks", "manifest"} => pc \in Unwritten /\ m.pc \in Unwritten
         /\ pc \in Writing \cup {"chunks"} => pc = "index" /\ m.pc = "manifest"
    BY <2>8 DEF Before, Early, Deciding, Unwritten, Writing, Working
  <2>11. Heeds(n, e, receipt[j])
    BY <1>1, <1>2, <2>1, <2>2, <2>3, <2>8, <2>10 DEF Sound, Heeds
  <2>12. Wrote(n, document)
    BY <1>1, <1>2, <2>8, <2>10 DEF Sound, Wrote
  <2>13. Grips(a, n, guard, e, document) /\ Purged(n, document, points)
    BY <1>3, <2>8, <2>10 DEF Grips, Purged
  <2>14. Filled(a, n, guard, e, document, points)
    <3>1. CASE pc # "index"
      BY <2>8, <2>10, <3>1 DEF Filled
    <3>2. CASE pc = "index"
      <4>1. m.pc = "manifest" /\ n.next = 1
        BY <1>2, <2>8, <2>10, <3>2 DEF Sound, Wrote, Writing
      <4>2. e.cancel \/ ~c.cancel
        BY <2>1, <2>3 DEF Extends
      <4> QED
        BY <1>2, <1>3, <2>8, <3>2, <4>1, <4>2 DEF Sound, Filled, Writing
    <3> QED
      BY <3>1, <3>2
  <2>15. SoundRun(a)'
    BY <1>1, <1>5, <2>8, <2>9, <2>11, <2>12, <2>13, <2>14 DEF SoundRun, Sound
  <2>16. ~Harmless(m)
    BY DEF Harmless, Clear, Raised
  <2>17. Endures(a)
    BY <1>1, <2>8, <2>9, <2>10, <2>15, <2>16 DEF Endures, Live
  <2> QED
    BY <2>6, <2>17
<1> QED
  BY <1>4, <1>5 DEF Save

LEMMA SavesServe ==
    ASSUME StepInv, NEW a \in Handlers, Identify(a) \/ SaveOutputs(a) \/ Manifest(a)
    PROVE  Stores(a) /\ Endures(a)
<1>1. CASE Identify(a)
  <2>1. PICK outputs, pc : Save(a, outputs, pc) /\ pc \in {"dup", "outputs"}
    BY <1>1 DEF Identify
  <2> QED
    BY <1>1, <2>1, SaveServes DEF Identify, At
<1>2. CASE SaveOutputs(a)
  BY <1>2, SaveServes DEF SaveOutputs, At
<1>3. CASE Manifest(a)
  BY <1>3, SaveServes DEF Manifest, At
<1> QED
  BY <1>1, <1>2, <1>3

(* A thread that goes on with a document it has written.                   *)
LEMMA WroteEndures ==
    ASSUME StepInv, NEW a \in Handlers, run[a].pc \in {"claim", "chunks", "index"}, NEW n,
           run' = [run EXCEPT ![a] = n], UNCHANGED <<checkpoint, receipt>>, guard' # a,
           n.job = run[a].job, n.attempt = run[a].attempt, n.grant = run[a].grant,
           n.lost = run[a].lost, n.resumed = run[a].resumed, n.wrote \/ n.wrote = run[a].wrote,
           n.wrote \/ document'.owner = document.owner,
           n.pc \in {"chunks", "manifest", "index", "verify", "except"},
           n.pc \in {"chunks", "manifest"} => n.next = 1,
           Filled(a, n, guard', checkpoint[n.job], document', points')
    PROVE  Endures(a)
<1> DEFINE m == run[a]  j == m.job  c == checkpoint[j]  r == receipt[j]
<1>1. Live(a) /\ Working(m) /\ m.pc \in Before /\ m.pc \in Named /\ Working(n) /\ m.pc \notin Early
  BY DEF Live, Working, Before, Named, Early
<1>2. run \in [Handlers -> Run] /\ Sound(a, m, guard, c, r, document, points)
  BY <1>1, StepRow, Row DEF SoundRun, StepInv, AuthorityInv
<1>3. run'[a] = n
  BY <1>2
<1>4. /\ n.pc \notin Early /\ n.pc \notin Deciding /\ n.pc \notin Unwritten
      /\ n.pc \notin {"dup_commit", "idle", "finish"}
  BY DEF Early, Deciding, Unwritten
<1>5. Heeds(n, c, r)
  BY <1>1, <1>2, <1>4 DEF Sound, Heeds
<1>6. Wrote(n, document')
  BY <1>1, <1>2, <1>4 DEF Sound, Wrote
<1>7. Grips(a, n, guard', c, document') /\ Purged(n, document', points')
  BY <1>4 DEF Grips, Purged
<1>8. SoundRun(a)'
  BY <1>3, <1>5, <1>6, <1>7 DEF SoundRun, Sound
<1> QED
  BY <1>1, <1>3, <1>4, <1>8 DEF Endures, Harmless, Live

LEMMA ClaimServes ==
    ASSUME StepInv, NEW a \in Handlers, Claim(a)
    PROVE  Stores(a) /\ Endures(a)
<1> DEFINE m == run[a]  j == m.job
           foreign == document.owner \notin {Nobody, Me(a)}
<1>1. /\ Live(a) /\ m.pc = "claim" /\ guard = a /\ guard' = NoHandler
      /\ UNCHANGED <<checkpoint, receipt>>
  BY DEF Claim, At, Live, Held
<1>2. /\ m \in Run /\ ~m.resumed /\ m.next = 1 /\ run \in [Handlers -> Run] /\ a # NoHandler
      /\ document \in Document
  BY <1>1, StepRow, Row DEF SoundRun, Sound, Wrote, Unwritten, StepInv, AuthorityInv, StoreInv, StoreTyped
<1>3. CASE Goto(a, "dup") /\ UNCHANGED <<document, points>>
  <2>1. Onward(m.pc, "dup") /\ ~Harmless(m)
    BY <1>1 DEF Onward, Before, Deciding, Early, Named, Unwritten, Writing, Harmless
  <2> QED
    BY <1>1, <1>2, <1>3, <2>1, GotoLeaves DEF Pc
<1>4. CASE (\E e : Throw(a, e)) /\ UNCHANGED <<document, points>>
  BY <1>1, <1>4, ThrowLeaves DEF Thrower, Checked
<1>5. CASE /\ document.status \notin {"published", "deleted"}
           /\ document' = [status |-> "processing", owner |-> Me(a), lineage |-> a,
                           chunks |-> document.chunks]
           /\ \/ run' = [run EXCEPT ![a].pc = "chunks", ![a].wrote = TRUE, ![a].lineage = a]
              \/ run' = [run EXCEPT ![a].pc = "except", ![a].wrote = TRUE, ![a].error = "other"]
              \/ End(a)
  <2>1. Claims(a)
    BY <1>1, <1>5 DEF Claims
  <2>2. Stores(a)
    BY <1>1, <2>1, CheckpointsRest
       DEF Stores, DocumentServed, CheckpointServed, ReceiptServed, ReceiptKeptBy, Holds
  <2>3. CASE run' = [run EXCEPT ![a].pc = "chunks", ![a].wrote = TRUE, ![a].lineage = a]
    <3> DEFINE n == [m EXCEPT !.pc = "chunks", !.wrote = TRUE, !.lineage = a]
    <3>1. run' = [run EXCEPT ![a] = n]
      BY <1>2, <2>3
    <3>2. /\ n.pc = "chunks" /\ n.job = j /\ n.attempt = m.attempt /\ n.grant = m.grant
          /\ n.lost = m.lost /\ n.resumed = m.resumed /\ n.next = 1 /\ n.wrote /\ n.lineage = a
      BY <1>2 DEF Run
    <3> HIDE DEF n
    <3>3. Filled(a, n, guard', checkpoint[n.job], document', points')
      BY <1>5, <3>2 DEF Filled, Writing
    <3> QED
      BY <1>1, <1>2, <2>2, <3>1, <3>2, <3>3, WroteEndures
  <2>4. CASE run' = [run EXCEPT ![a].pc = "except", ![a].wrote = TRUE, ![a].error = "other"]
    <3> DEFINE n == [m EXCEPT !.pc = "except", !.wrote = TRUE, !.error = "other"]
    <3>1. run' = [run EXCEPT ![a] = n]
      BY <1>2, <2>4
    <3>2. /\ n.pc = "except" /\ n.job = j /\ n.attempt = m.attempt /\ n.grant = m.grant
          /\ n.lost = m.lost /\ n.resumed = m.resumed /\ n.wrote
      BY <1>2 DEF Run
    <3> HIDE DEF n
    <3>3. Filled(a, n, guard', checkpoint[n.job], document', points')
      BY <3>2 DEF Filled, Writing
    <3> QED
      BY <1>1, <1>2, <2>2, <3>1, <3>2, <3>3, WroteEndures
  <2>5. CASE End(a)
    BY <1>2, <2>2, <2>5, EndEndures
  <2> QED
    BY <1>5, <2>3, <2>4, <2>5
<1> QED
  BY <1>2, <1>3, <1>4, <1>5 DEF Claim

LEMMA ChunksServe ==
    ASSUME StepInv, NEW a \in Handlers, Chunks(a)
    PROVE  Stores(a) /\ Endures(a)
<1> DEFINE m == run[a]  j == m.job  n == [m EXCEPT !.pc = "manifest"]
<1>1. /\ Live(a) /\ m.pc = "chunks" /\ guard = a /\ guard' = NoHandler
      /\ UNCHANGED <<checkpoint, receipt, points>> /\ Goto(a, "manifest")
      /\ document' = [document EXCEPT !.chunks = TRUE]
  BY DEF Chunks, At, Live, Held
<1>2. /\ m \in Run /\ m.next = 1 /\ run \in [Handlers -> Run] /\ a # NoHandler
      /\ document \in Document
      /\ Sound(a, m, guard, checkpoint[j], receipt[j], document, points)
  BY <1>1, StepRow, Row DEF SoundRun, Sound, Wrote, Unwritten, StepInv, AuthorityInv, StoreInv, StoreTyped
<1>3. /\ document'.owner = document.owner /\ document'.lineage = document.lineage
      /\ document'.status = document.status /\ document'.chunks
  BY <1>1, <1>2 DEF Document
<1>4. Stores(a)
  BY <1>1, <1>3, CheckpointsRest
     DEF Stores, DocumentServed, Hushed, Standing, Stands, CheckpointServed, ReceiptServed,
         ReceiptKeptBy, Holds
<1>5. run' = [run EXCEPT ![a] = n]
  BY <1>1, <1>2 DEF Goto
<1>6. /\ n.pc = "manifest" /\ n.job = j /\ n.attempt = m.attempt /\ n.grant = m.grant
      /\ n.lost = m.lost /\ n.resumed = m.resumed /\ n.next = 1 /\ n.wrote = m.wrote
      /\ n.lineage = m.lineage
  BY <1>2 DEF Run
<1> HIDE DEF n
<1>7. Filled(a, n, guard', checkpoint[n.job], document', points')
  BY <1>1, <1>2, <1>3, <1>6 DEF Sound, Filled, Writing
<1> QED
  BY <1>1, <1>2, <1>3, <1>4, <1>5, <1>6, <1>7, WroteEndures

LEMMA IndexServes ==
    ASSUME StepInv, NEW a \in Handlers, Index(a)
    PROVE  Stores(a) /\ Endures(a)
<1> DEFINE m == run[a]  j == m.job  pc == IF m.next = Batches THEN "verify" ELSE "index"
           n == [m EXCEPT !.next = @ + 1, !.pc = pc]
<1>1. /\ Live(a) /\ m.pc = "index" /\ guard = a /\ guard' = NoHandler
      /\ UNCHANGED <<checkpoint, receipt, document>>
      /\ points' = [points EXCEPT ![m.next] = Origin(Me(a), m.lineage)]
      /\ run' = [run EXCEPT ![a].next = @ + 1, ![a].pc = pc]
  BY DEF Index, At, Live, Held
<1>2. /\ m \in Run /\ run \in [Handlers -> Run] /\ a # NoHandler
      /\ Sound(a, m, guard, checkpoint[j], receipt[j], document, points)
      /\ m.next \in 1..Batches
      /\ points \in [1..Batches -> {Nobody} \cup (Token \X Handlers)]
  BY <1>1, StepRow, Row
     DEF SoundRun, StepInv, AuthorityInv, StoreInv, StoreTyped, Equipped
<1>3. Stores(a)
  BY <1>1, CheckpointsRest
     DEF Stores, DocumentServed, CheckpointServed, ReceiptServed, ReceiptKeptBy, Holds
<1>4. run' = [run EXCEPT ![a] = n]
  BY <1>1, <1>2
<1>5. /\ n.pc = pc /\ n.job = j /\ n.attempt = m.attempt /\ n.grant = m.grant
      /\ n.lost = m.lost /\ n.resumed = m.resumed /\ n.next = m.next + 1 /\ n.wrote = m.wrote
      /\ n.lineage = m.lineage
  BY <1>2 DEF Run
<1> HIDE DEF n
<1>6. pc \in {"index", "verify"} /\ (pc = "verify" => m.next = Batches)
  OBVIOUS
<1> HIDE DEF pc
<1>7. Filled(a, n, guard', checkpoint[n.job], document', points')
  <2> SUFFICES ASSUME document.owner = <<j, m.attempt>>
               PROVE  Filled(a, n, guard', checkpoint[n.job], document', points')
    BY <1>1, <1>5 DEF Filled
  <2>1. document.lineage = n.lineage
    BY <1>1, <1>2, <1>5 DEF Sound, Filled, Writing
  <2>2. ASSUME "delete" \notin Maintenance
        PROVE  /\ document.chunks
               /\ \A b \in 1..Batches : b < n.next =>
                     points'[b] = Origin(document.owner, document.lineage)
    <3>1. /\ document.chunks
          /\ \A b \in 1..Batches : b < m.next =>
                points[b] = Origin(document.owner, document.lineage)
      BY <1>1, <1>2, <2>2 DEF Sound, Filled, Writing
    <3>2. ASSUME NEW b \in 1..Batches, b < n.next
          PROVE  points'[b] = Origin(document.owner, document.lineage)
      <4>1. CASE b = m.next
        BY <1>1, <1>2, <1>5, <2>1, <4>1 DEF Me
      <4>2. CASE b # m.next
        <5>1. b < m.next
          BY <1>2, <1>5, <3>2, <4>2, PublicationAssumption
        <5> QED
          BY <1>1, <1>2, <3>1, <4>2, <5>1
      <4> QED
        BY <4>1, <4>2
    <3> QED
      BY <3>1, <3>2
  <2> QED
    BY <1>1, <1>5, <1>6, <2>1, <2>2 DEF Filled
<1> QED
  BY <1>1, <1>2, <1>3, <1>4, <1>5, <1>6, <1>7, WroteEndures

LEMMA IntendServes ==
    ASSUME StepInv, NEW a \in Handlers, run[a].pc \in {"intent", "dup"}, guard = a,
           NEW ready, NEW pc, Intend(a, document.owner, ready, pc),
           pc = IF run[a].pc = "intent" THEN "decide" ELSE "dup_decide"
    PROVE  Stores(a) /\ Endures(a)
<1> DEFINE m == run[a]  j == m.job  c == checkpoint[j]  r == receipt[j]  s == receipt'[j]
           t == Intent(j, m.attempt, document.owner, ready)
<1>1. /\ Live(a) /\ Working(m) /\ m.pc \in Before /\ m.pc \in Named /\ ~Harmless(m)
      /\ UNCHANGED <<checkpoint, document, points>> /\ m.pc \notin Early
  BY DEF Live, Working, Before, Named, Harmless, Intend, Early
<1>2. /\ m \in Run /\ j \in Jobs /\ m.attempt \in Nat /\ Sound(a, m, guard, c, r, document, points)
      /\ ReceiptOK(r) /\ receipt \in [Jobs -> Receipt] /\ run \in [Handlers -> Run] /\ a # NoHandler
  BY <1>1, StepRow, Row DEF SoundRun, StoreInv, StoreTyped, StepInv, AuthorityInv
<1>3. r.attempt # m.attempt
  BY <1>1, <1>2 DEF Sound, Heeds
<1>4. CASE UNCHANGED receipt /\ Throw(a, "owner")
  BY <1>1, <1>4, ThrowLeaves DEF Thrower, Checked
<1>5. CASE CanIntend(j, m.attempt, document.owner) /\ receipt' = [receipt EXCEPT ![j] = t]
  <2>1. s = t /\ \A i \in Jobs \ {j} : receipt'[i] = receipt[i]
    BY <1>2, <1>5
  <2>2. /\ t.attempt = m.attempt /\ t.outcome = "pending" /\ t.owner = document.owner
        /\ t.cancel = c.cancel
    BY <1>3 DEF Intent
  <2> HIDE DEF t
  <2>3. r.outcome \in {"none", "failed"}
    BY <1>2, <1>3, <1>5 DEF CanIntend, ReceiptOK
  <2>4. Intends(a, j)
    BY <1>1, <2>1, <2>2, <2>3 DEF Intends
  <2>5. ReceiptServed(a, j) /\ \A i \in Jobs \ {j} : ReceiptServed(a, i)
    BY <2>1, <2>4 DEF ReceiptServed, ReceiptKeptBy, Holds
  <2>6. DocumentServed(a)
    BY <1>1 DEF DocumentServed, Hushed, Standing, Stands
  <2>7. Stores(a)
    BY <1>1, <2>5, <2>6, CheckpointsRest DEF Stores, CheckpointServed
  <2>8. CASE UNCHANGED guard /\ run' = [run EXCEPT ![a].pc = pc, ![a].tried = TRUE]
    <3> DEFINE n == [m EXCEPT !.pc = pc, !.tried = TRUE]
    <3>1. run' = [run EXCEPT ![a] = n]
      BY <1>2, <2>8
    <3>2. /\ n.pc = pc /\ n.job = j /\ n.attempt = m.attempt /\ n.grant = m.grant
          /\ n.lost = m.lost /\ n.resumed = m.resumed /\ n.next = m.next /\ n.wrote = m.wrote
          /\ n.lineage = m.lineage
      BY <1>2 DEF Run
    <3> HIDE DEF n
    <3>3. run'[a] = n
      BY <1>2, <3>1
    <3>4. /\ pc \notin Before /\ pc \notin Early /\ Working(n) /\ pc \in {"decide", "dup_decide"}
          /\ pc \in Unwritten \cup {"chunks", "manifest"} => m.pc \in Unwritten
          /\ pc \in Writing \cup {"chunks"} => m.pc = "intent" /\ pc = "decide"
      BY <3>2 DEF Before, Early, Working, Unwritten, Writing
    <3>5. Heeds(n, c, s)
      BY <1>1, <1>2, <2>1, <2>2, <3>2, <3>4 DEF Sound, Heeds
    <3>6. Wrote(n, document)
      BY <1>1, <1>2, <3>2, <3>4 DEF Sound, Wrote
    <3>7. Grips(a, n, guard, c, document) /\ Purged(n, document, points)
      BY <1>2, <3>2, <3>4 DEF Sound, Grips, Purged
    <3>8. Filled(a, n, guard, c, document, points)
      BY <1>2, <3>2, <3>4 DEF Sound, Filled, Writing
    <3>9. SoundRun(a)'
      BY <1>1, <2>8, <3>2, <3>3, <3>5, <3>6, <3>7, <3>8 DEF SoundRun, Sound
    <3>10. Endures(a)
      BY <1>1, <3>2, <3>3, <3>4, <3>9 DEF Endures, Live
    <3> QED
      BY <2>7, <3>10
  <2>9. CASE Throw(a, "other")
    <3>1. Unseen(a, "except")
      BY <1>1, <1>2, <2>9 DEF Unseen, Extends, Throw, Before, Deciding, Early, Writing
    <3>2. Onward(m.pc, "except")
      BY DEF Onward, Before, Deciding, Early, Named, Unwritten, Writing
    <3> QED
      BY <2>7, <2>9, <3>1, <3>2, ThrowEndures
  <2> QED
    BY <1>5, <2>8, <2>9 DEF Intend
<1> QED
  BY <1>4, <1>5 DEF Intend

LEMMA IntentsServe ==
    ASSUME StepInv, NEW a \in Handlers, BeginPublication(a) \/ BeginDuplicate(a)
    PROVE  Stores(a) /\ Endures(a)
<1>1. CASE BeginPublication(a)
  <2>1. run[a].pc = "intent" /\ guard = a /\ Intend(a, Me(a), TRUE, "decide")
    BY <1>1 DEF BeginPublication, At, Held
  <2>2. Publishing(a, run[a], guard, receipt[run[a].job], document)
    BY Row DEF StepInv, AuthorityInv, Informed
  <2>3. document.owner = Me(a)
    BY <2>1, <2>2 DEF Publishing, Me
  <2> QED
    BY <2>1, <2>3, IntendServes
<1>2. CASE BeginDuplicate(a)
  BY <1>2, IntendServes DEF BeginDuplicate, At, Held
<1> QED
  BY <1>1, <1>2

LEMMA ReadsServe ==
    ASSUME StepInv, NEW a \in Handlers, ReadReceipt(a) \/ ReadDuplicate(a)
    PROVE  Stores(a) /\ Endures(a)
<1>1. /\ run[a].pc \in {"decide", "dup_decide"} /\ ~Harmless(run[a])
      /\ UNCHANGED <<checkpoint, receipt, document, points>>
  BY DEF ReadReceipt, ReadDuplicate, At, Harmless
<1>2. CASE \E e : Throw(a, e)
  BY <1>1, <1>2, ThrowLeaves DEF Thrower
<1>3. CASE run[a].pc = "decide" /\ Goto(a, "publish") /\ UNCHANGED guard
  <2>1. Onward("decide", "publish")
    BY DEF Onward, Before, Deciding, Early, Named, Unwritten, Writing
  <2> QED
    BY <1>1, <1>3, <2>1, GotoLeaves DEF Pc
<1>4. CASE /\ run[a].pc = "dup_decide" /\ Goto(a, "dup_commit") /\ UNCHANGED guard
           /\ ~receipt[run[a].job].cancel
  <2>1. Onward("dup_decide", "dup_commit")
    BY DEF Onward, Before, Deciding, Early, Named, Unwritten, Writing
  <2> QED
    BY <1>1, <1>4, <2>1, GotoLeaves DEF Pc
<1>5. CASE ReadReceipt(a)
  BY <1>2, <1>3, <1>5 DEF ReadReceipt, At
<1>6. CASE ReadDuplicate(a)
  BY <1>2, <1>4, <1>6 DEF ReadDuplicate, At
<1> QED
  BY <1>5, <1>6

LEMMA PublishServes ==
    ASSUME StepInv, NEW a \in Handlers, Publish(a)
    PROVE  Stores(a) /\ Endures(a)
<1>1. Live(a) /\ run[a].pc = "publish" /\ ~Harmless(run[a]) /\ UNCHANGED <<checkpoint, points>>
  BY DEF Publish, At, Live, Harmless
<1>2. StoreInv /\ a # NoHandler /\ document \in Document
  BY <1>1, StepRow DEF StoreInv, StoreTyped
<1>3. CASE Throw(a, "other") /\ UNCHANGED <<document, receipt>>
  BY <1>1, <1>3, ThrowLeaves DEF Thrower
<1>4. CASE CanPublish /\ PublishDocument /\
             ((Goto(a, "settle") /\ guard' = NoHandler) \/ Throw(a, "other"))
  <2>1. \A i \in Jobs : ReceiptKeptBy(i)
    BY <1>2, <1>4, PublishSettles
  <2>2. Publicizes /\ document'.owner = document.owner /\ document'.lineage = document.lineage
    BY <1>1, <1>2, <1>4 DEF PublishDocument, Publicizes, Document
  <2>3. Stores(a)
    BY <1>1, <2>1, <2>2, CheckpointsRest
       DEF Stores, DocumentServed, CheckpointServed, ReceiptServed
  <2>4. \A q \in {"settle", "except"} : Onward("publish", q) /\ Unseen(a, q)
    BY <1>1, <1>2, <1>4, <2>2
       DEF Onward, Unseen, Extends, Throw, Before, Deciding, Early, Named, Unwritten, Writing
  <2>5. Endures(a)
    BY <1>1, <1>4, <2>4, GotoEndures, ThrowEndures DEF Pc
  <2> QED
    BY <2>3, <2>5
<1> QED
  BY <1>3, <1>4 DEF Publish

LEMMA CommitDuplicateServes ==
    ASSUME StepInv, NEW a \in Handlers, CommitDuplicate(a)
    PROVE  Stores(a) /\ Endures(a)
<1> DEFINE j == run[a].job  r == receipt[j]  t == Resolved(r, "committed")
<1>1. /\ Live(a) /\ run[a].pc = "dup_commit" /\ ~Harmless(run[a])
      /\ UNCHANGED <<checkpoint, document, points>>
  BY DEF CommitDuplicate, At, Live, Harmless
<1>2. /\ j \in Jobs /\ r \in Receipt /\ receipt \in [Jobs -> Receipt] /\ r.outcome = "pending"
      /\ a # NoHandler
  BY <1>1, StepRow DEF SoundRun, Sound, Heeds, Deciding, StoreInv, StoreTyped
<1>3. CASE UNCHANGED receipt /\ Throw(a, "owner")
  BY <1>1, <1>3, ThrowLeaves DEF Thrower
<1>4. CASE receipt' = [receipt EXCEPT ![j] = t] /\ guard' = NoHandler /\ Goto(a, "settle")
  <2>1. t.outcome = "committed" /\ t.attempt = r.attempt /\ t.owner = r.owner
    BY <1>2 DEF Resolved, Receipt
  <2>2. receipt'[j] = t /\ \A i \in Jobs \ {j} : receipt'[i] = receipt[i]
    BY <1>2, <1>4
  <2> HIDE DEF t
  <2>3. ReceiptServed(a, j) /\ \A i \in Jobs \ {j} : ReceiptServed(a, i)
    BY <1>1, <1>2, <2>1, <2>2 DEF ReceiptServed, ReceiptKeptBy, Holds, Resolves
  <2>4. DocumentServed(a)
    BY <1>1 DEF DocumentServed, Hushed, Standing, Stands
  <2>5. Stores(a)
    BY <1>1, <2>3, <2>4, CheckpointsRest DEF Stores, CheckpointServed
  <2>6. Onward("dup_commit", "settle") /\ Unseen(a, "settle")
    BY <1>1, <1>2, <1>4
       DEF Onward, Unseen, Extends, Before, Deciding, Early, Named, Unwritten, Writing
  <2> QED
    BY <1>1, <1>4, <2>5, <2>6, GotoEndures DEF Pc
<1> QED
  BY <1>3, <1>4 DEF CommitDuplicate

LEMMA FinishesServe ==
    ASSUME StepInv, NEW a \in Handlers, Settle(a) \/ Finish(a)
    PROVE  Stores(a) /\ Endures(a)
<1> DEFINE m == run[a]  j == m.job  c == checkpoint[j]  e == checkpoint'[j]
<1>1. /\ Live(a) /\ m.pc \in {"settle", "finish"} /\ UNCHANGED <<receipt, document, points, guard>>
      /\ Done(a, "published") \/ Done(a, "failed")
  BY DEF Settle, Finish, At, Live
<1>2. /\ m \in Run /\ j \in Jobs /\ checkpoint \in [Jobs -> Checkpoint] /\ m.cancel \in BOOLEAN
      /\ Sound(a, m, guard, c, receipt[j], document, points)
  BY <1>1, StepRow DEF SoundRun, StoreInv, StoreTyped, Run
<1>3. guard' # a
  BY <1>1, Row DEF Holders, Guarded, StepInv, AuthorityInv
<1>4. Endures(a)
  BY <1>1, <1>3, DoneEndures
<1>5. CASE UNCHANGED checkpoint
  BY <1>1, <1>4, <1>5, IdleStores
<1>6. CASE \E state : /\ CanFinish(j, m.attempt, state)
                      /\ state = "cancelled" => m.cancel /\ m.pc = "finish"
                      /\ checkpoint' = [checkpoint EXCEPT ![j] = FinishedCheckpoint(j, state, m.cancel)]
  <2>1. PICK state : /\ CanFinish(j, m.attempt, state)
                     /\ state = "cancelled" => m.cancel /\ m.pc = "finish"
                     /\ checkpoint' = [checkpoint EXCEPT ![j] = FinishedCheckpoint(j, state, m.cancel)]
    BY <1>6
  <2>2. /\ Extends(c, e) /\ e.state = state /\ (m.cancel => e.cancel)
        /\ \A i \in Jobs \ {j} : checkpoint'[i] = checkpoint[i]
    BY <1>2, <2>1, FinishedRow
  <2>3. c.attempt = m.attempt
    BY <2>1 DEF CanFinish
  <2>4. state = "cancelled" => Leaves(j)
    BY <1>1, <1>2, <2>1, <2>2, <2>3 DEF Leaves, Sound, Purged
  <2>5. CheckpointServed(a, j) /\ \A i \in Jobs \ {j} : CheckpointServed(a, i)
    BY <1>2, <2>2, <2>3, <2>4 DEF CheckpointServed, CheckpointKept, Extends
  <2>6. Stores(a)
    BY <1>1, <2>5, StoreRests DEF Stores, ReceiptServed, DocumentServed, DocumentHeld, Hushed
  <2> QED
    BY <1>4, <2>6
<1>7. CASE Settle(a)
  BY <1>5, <1>6, <1>7 DEF Settle
<1>8. CASE Finish(a)
  BY <1>5, <1>6, <1>8 DEF Finish, At
<1> QED
  BY <1>7, <1>8

LEMMA ExceptResolveServes ==
    ASSUME StepInv, NEW a \in Handlers, ExceptResolve(a)
    PROVE  Stores(a) /\ Endures(a)
<1> DEFINE m == run[a]  j == m.job
<1>1. Live(a) /\ m.pc = "compensate" /\ ~Harmless(m) /\ Free
  BY DEF ExceptResolve, At, Live, Harmless
<1>2. /\ m \in Run /\ j \in Jobs /\ StoreInv /\ AuthorityInv /\ m.cancel \in BOOLEAN /\ a # NoHandler
      /\ run \in [Handlers -> Run]
  BY <1>1, StepRow, Row DEF Run
<1>3. Onward(m.pc, "settle")
  BY <1>1 DEF Onward, Before, Deciding, Early, Named, Unwritten, Writing
<1>4. CASE /\ UNCHANGED store
           /\ End(a) \/ Goto(a, "settle") \/ Done(a, "failed")
  <2>1. UNCHANGED <<checkpoint, receipt, document, points, guard>>
    BY <1>4 DEF store
  <2>2. Endures(a)
    BY <1>1, <1>2, <1>3, <1>4, <2>1, EndEndures, DoneEndures, GotoLeaves DEF Free, Pc
  <2> QED
    BY <2>1, <2>2, IdleStores
<1>5. CASE \E o : /\ RecoverPublication(j, m.attempt, m.cancel, o)
                  /\ End(a) \/ Goto(a, "settle") \/ Done(a, "failed")
  <2>1. PICK o : /\ RecoverPublication(j, m.attempt, m.cancel, o)
                 /\ End(a) \/ Goto(a, "settle") \/ Done(a, "failed")
    BY <1>5
  <2>2. \A i \in Jobs : TraceInv(i)
    BY DEF StepInv, JobInv
  <2>3. Settled /\ guard' = guard
    <3>1. ReceiptsKnown /\ PublishedKnown
      BY <1>2 DEF AuthorityInv
    <3>2. Settled
      BY <1>2, <2>1, <2>2, <3>1, RecoverSettles
    <3> QED
      BY <2>1, <3>2 DEF RecoverPublication
  <2>4. Stores(a)
    BY <2>3, SettledStores
  <2>5. document'.owner = document.owner /\ document'.lineage = document.lineage
    <3>1. document \in Document /\ DocumentHeld
      BY <1>2, <2>3 DEF StoreInv, StoreTyped, Settled
    <3> QED
      BY <3>1 DEF DocumentHeld, Hushed, Standing, Publicizes, Document
  <2>6. Unseen(a, "settle")
    BY <1>1, <1>2, <2>3, <2>5
       DEF Unseen, Settled, CheckpointKept, Before, Deciding, Early, Writing, Free
  <2>7. Endures(a)
    BY <1>1, <1>2, <1>3, <2>1, <2>3, <2>6, EndEndures, DoneEndures, GotoEndures DEF Free, Pc
  <2> QED
    BY <2>4, <2>7
<1> QED
  BY <1>4, <1>5 DEF ExceptResolve

LEMMA ExceptCleanupServes ==
    ASSUME StepInv, NEW a \in Handlers, ExceptCleanup(a)
    PROVE  Stores(a) /\ Endures(a)
<1> DEFINE m == run[a]  j == m.job  c == checkpoint[j]  r == receipt[j]
           cancelled == m.cancel \/ (m.tried /\ r.cancel)
<1>1. /\ Live(a) /\ m.pc = "compensate" /\ ~Harmless(m) /\ Free
      /\ UNCHANGED <<checkpoint, receipt, guard>>
      /\ ~m.tried \/ (r.attempt = m.attempt /\ ~(document.status = "published" /\ document.owner = Me(a)))
  BY DEF ExceptCleanup, At, Live, Harmless
<1>2. /\ m \in Run /\ j \in Jobs /\ StoreInv /\ a # NoHandler /\ Me(a) \in Token
      /\ m.attempt \in 1..MaxTries /\ run \in [Handlers -> Run]
      /\ Sound(a, m, guard, c, r, document, points)
  BY <1>1, StepRow, Row DEF Run, Me, Token, SoundRun
<1>3. PICK complete \in Completeness :
              /\ IF m.wrote THEN Cleanup(Me(a), complete) ELSE UNCHANGED <<document, points>>
              /\ \/ End(a) \/ Done(a, "failed")
                 \/ /\ ~(cancelled /\ m.wrote /\ ~complete)
                    /\ run' = [run EXCEPT ![a].pc = "finish", ![a].cancel = cancelled]
  BY DEF ExceptCleanup
<1>4. complete \in BOOLEAN /\ guard' # a
  BY <1>1, <1>2 DEF Completeness, Free
<1>5. /\ Standing /\ points' \in {points, NoPoints}
      /\ ~m.wrote \/ document.owner # Me(a) => UNCHANGED <<document, points>>
      /\ m.wrote /\ complete /\ document.owner = Me(a) => Gone(document', points')
  <2>1. CASE m.wrote
    BY <1>2, <1>3, <1>4, <2>1, CleanupSweeps
  <2>2. CASE ~m.wrote
    BY <1>3, <2>2 DEF Standing, Stands
  <2> QED
    BY <2>1, <2>2
<1>6. DocumentServed(a)
  <2>1. CASE document.owner # Me(a)
    BY <1>5, <2>1 DEF DocumentServed, Hushed
  <2>2. CASE document.owner = Me(a) /\ ~m.tried
    <3>1. Undoes(a)
      BY <1>1, <2>2 DEF Undoes, Compensating
    <3> QED
      BY <1>5, <3>1 DEF DocumentServed, Hushed
  <2>3. CASE document.owner = Me(a) /\ m.tried
    <3>1. Sweepable
      BY <1>1, <1>2, <2>3 DEF Sweepable, Me
    <3> QED
      BY <1>5, <3>1 DEF DocumentServed, Hushed
  <2> QED
    BY <2>1, <2>2, <2>3
<1>7. Stores(a)
  BY <1>1, <1>6, CheckpointsRest
     DEF Stores, CheckpointServed, ReceiptServed, ReceiptKeptBy, Holds
<1>8. CASE End(a) \/ Done(a, "failed")
  BY <1>1, <1>2, <1>4, <1>7, <1>8, EndEndures, DoneEndures
<1>9. CASE /\ ~(cancelled /\ m.wrote /\ ~complete)
           /\ run' = [run EXCEPT ![a].pc = "finish", ![a].cancel = cancelled]
  <2> DEFINE n == [m EXCEPT !.pc = "finish", !.cancel = cancelled]
  <2>1. run' = [run EXCEPT ![a] = n]
    BY <1>2, <1>9
  <2>2. /\ n.pc = "finish" /\ n.job = j /\ n.attempt = m.attempt /\ n.grant = m.grant
        /\ n.lost = m.lost /\ n.resumed = m.resumed /\ n.wrote = m.wrote /\ n.cancel = cancelled
    BY <1>2 DEF Run
  <2> HIDE DEF n
  <2>3. run'[a] = n
    BY <1>2, <2>1
  <2>4. document'.owner = document.owner /\ Me(a) = <<j, m.attempt>>
    BY <1>5 DEF Standing, Me
  <2>5. /\ "finish" \notin Before \cup Early \cup Deciding \cup Named \cup Unwritten \cup Writing
        /\ Working(m) /\ Working(n) /\ m.pc \notin Early
    BY <1>1, <2>2 DEF Before, Early, Deciding, Named, Unwritten, Writing, Working
  <2>6. Heeds(n, c, r)
    BY <1>2, <2>2, <2>5 DEF Sound, Heeds
  <2>7. Wrote(n, document')
    BY <1>2, <2>2, <2>4, <2>5 DEF Sound, Wrote
  <2>8. Purged(n, document', points')
    <3>1. ~m.wrote => document.owner # Me(a)
      BY <1>2, <2>4, <2>5 DEF Sound, Wrote
    <3> QED
      BY <1>5, <1>9, <2>2, <2>4, <3>1 DEF Purged
  <2>9. Grips(a, n, guard', c, document') /\ Filled(a, n, guard', c, document', points')
    BY <1>4, <2>2, <2>5 DEF Grips, Filled
  <2>10. SoundRun(a)'
    BY <1>1, <2>2, <2>3, <2>6, <2>7, <2>8, <2>9 DEF SoundRun, Sound
  <2>11. Endures(a)
    BY <1>1, <2>2, <2>3, <2>10 DEF Endures, Live
  <2> QED
    BY <1>7, <2>11
<1> QED
  BY <1>3, <1>8, <1>9

LEMMA HandlerStores ==
    ASSUME StepInv, NEW a \in Handlers, HandlerStep(a)
    PROVE  Stores(a) /\ Endures(a)
BY RecoversServe, BeginServes, SavesServe, OutputsServe, EnterServes, ClaimServes, ChunksServe,
   IndexServes, IntentsServe, ReadsServe, PublishServes, CommitDuplicateServes, FinishesServe,
   InterruptionsServe, ExceptServes, ExceptResolveServes, ExceptCleanupServes
   DEF HandlerStep

(* A step of thread a, seen by all threads.                                *)
LEMMA OthersEndure ==
    ASSUME StepInv, NEW a \in Handlers \cup {NoHandler}, a \in Handlers => Live(a), Serves(a),
           NEW k \in Handlers, k # a, run'[k] = run[k]
    PROVE  Endures(k)
<1> SUFFICES ASSUME Live(k) PROVE Endures(k)
  BY DEF Endures, Live
<1>1. Sound(k, run[k], guard', checkpoint'[run[k].job], receipt'[run[k].job], document', points')
  BY SoundStands
<1>2. SoundRun(k)'
  BY <1>1 DEF SoundRun
<1> QED
  BY <1>2 DEF Endures, Live

LEMMA HandlerServes ==
    ASSUME StepInv, NEW a \in Handlers, HandlerStep(a)
    PROVE  Serves(a) /\ \A h \in Handlers : Endures(h)
<1>1. AuthorityInv /\ Live(a) /\ run \in [Handlers -> Run]
  BY HandlerLives DEF StepInv, AuthorityInv, PublicationInv
<1>2. Stores(a) /\ Endures(a)
  BY HandlerStores
<1>3. Acts(a)
  BY <1>1, HandlerActs
<1>4. Serves(a)
  BY <1>2, <1>3 DEF Acts, Stores, Serves
<1>5. \A k \in Handlers \ {a} : run'[k] = run[k]
  BY <1>1, <1>3 DEF Acts, Turns
<1> QED
  BY <1>1, <1>2, <1>4, <1>5, OthersEndure

-----------------------------------------------------------------------------
(* The steps of the queue and of operators *)

(* Thread h is left alone, is told that its lease is lost, or has ended.   *)
Lingers(h) ==
    \/ run'[h] = run[h] \/ run'[h].pc = "idle"
    \/ run'[h] = [run[h] EXCEPT !.lost = TRUE]

Steady ==
    /\ StepInv'
    /\ \A j \in Jobs : Closed(j)' /\ (call'[j] = call[j] => Ruled(j)')
    /\ \A j \in Jobs : /\ Over(j) => Over(j)'
                       /\ Stale(j) => Stale(j)'
                       /\ Warned(j) => Warned(j)'

LEMMA Steadies ==
    ASSUME EndsInv, AuthorityInv', Attends, Stores(NoHandler), UNCHANGED queue,
           \A h \in Handlers : Lingers(h)
    PROVE  Steady
<1>1. StepInv
  BY DEF EndsInv
<1>2. NoHandler \notin Handlers
  BY PublicationAssumption
<1>3. Serves(NoHandler)
  BY DEF Serves, Stores, Attends, Fenced, Free
<1>4. ASSUME NEW h \in Handlers PROVE Endures(h)
  <2> SUFFICES ASSUME run'[h].pc # "idle" PROVE Endures(h)
    BY DEF Endures
  <2>1. CASE run'[h] = run[h]
    BY <1>1, <1>2, <1>3, <2>1, OthersEndure
  <2>2. CASE run'[h] = [run[h] EXCEPT !.lost = TRUE]
    <3> DEFINE m == run[h]  n == [run[h] EXCEPT !.lost = TRUE]  j == m.job
    <3>1. m \in Run
      BY <1>1, Row DEF StepInv, AuthorityInv
    <3>2. /\ n.pc = m.pc /\ n.job = m.job /\ n.attempt = m.attempt /\ n.grant = m.grant /\ n.lost
          /\ n.wrote = m.wrote /\ n.resumed = m.resumed /\ n.lineage = m.lineage
          /\ n.next = m.next /\ n.cancel = m.cancel
      BY <3>1 DEF Run
    <3> HIDE DEF n
    <3>3. run'[h] = n
      BY <2>2 DEF n
    <3>4. Live(h)
      BY <3>2, <3>3 DEF Live
    <3>5. Sound(h, m, guard', checkpoint'[j], receipt'[j], document', points')
      BY <1>1, <1>2, <1>3, <3>4, SoundStands
    <3>6. Sound(h, n, guard', checkpoint'[j], receipt'[j], document', points')
      BY <3>2, <3>5 DEF Sound, Heeds, Wrote, Grips, Purged, Filled, Working
    <3>7. SoundRun(h)'
      BY <3>2, <3>3, <3>6 DEF SoundRun
    <3> QED
      BY <3>2, <3>3, <3>4, <3>7 DEF Endures, Harmless, Live
  <2> QED
    BY <2>1, <2>2 DEF Lingers
<1> QED
  BY <1>1, <1>2, <1>3, <1>4, ServesKeep DEF Steady

LEMMA CallTurns ==
    ASSUME Steady, deleting' => "delete" \in Maintenance,
           NEW j \in Jobs, \A i \in Jobs \ {j} : call'[i] = call[i], Ruled(j)'
    PROVE  EndsInv'
BY DEF Steady, EndsInv

LEMMA Idles ==
    ASSUME EndsInv, AuthorityInv', Attends, UNCHANGED queue,
           UNCHANGED <<checkpoint, receipt, document, points, run>>
    PROVE  Steady
<1>1. Stores(NoHandler) /\ \A h \in Handlers : Lingers(h)
  BY IdleStores DEF Lingers
<1> QED
  BY <1>1, Steadies

LEMMA CallRow ==
    ASSUME EndsInv, NEW j \in Jobs
    PROVE  /\ call \in [Jobs -> Call \cup {NoCall}]
           /\ call' = [call EXCEPT ![j] = NoCall] =>
                 Ruled(j)' /\ \A i \in Jobs \ {j} : call'[i] = call[i]
           /\ \A why, stage, note : Calling(j, why, stage, note) =>
                 /\ call'[j].why = why /\ call'[j].stage = stage /\ call'[j].note = note
                 /\ \A i \in Jobs \ {j} : call'[i] = call[i]
<1>1. call \in [Jobs -> Call \cup {NoCall}]
  BY DEF EndsInv, StepInv, AuthorityInv, PublicationInv, QueueTyped
<1>2. call' = [call EXCEPT ![j] = NoCall] => Ruled(j)' /\ \A i \in Jobs \ {j} : call'[i] = call[i]
  BY <1>1 DEF Ruled, NoCall
<1> QED
  BY <1>1, <1>2 DEF Calling

LEMMA PollEnds ==
    ASSUME EndsInv, AuthorityInv', NEW j \in Jobs, Poll(j) \/ Cancel(j)
    PROVE  EndsInv'
<1>1. Attends /\ UNCHANGED queue
  BY JobsAttend DEF EndsInv, StepInv, Poll, Cancel
<1>2. UNCHANGED <<checkpoint, receipt, document, points, run>> /\ deleting' = deleting
  BY DEF Poll, Cancel, Request, RequestCancel, store
<1>3. Steady
  BY <1>1, <1>2, Idles
<1>4. \E why \in {"poll", "cancel"} : \E stage \in {"mark", "read"} : Calling(j, why, stage, "none")
  BY DEF Poll, Cancel, Request
<1>5. Ruled(j)' /\ \A i \in Jobs \ {j} : call'[i] = call[i]
  BY <1>4, CallRow DEF Ruled
<1> QED
  BY <1>2, <1>3, <1>5, CallTurns DEF EndsInv

LEMMA AbandonEnds ==
    ASSUME EndsInv, AuthorityInv', NEW j \in Jobs, Abandon(j)
    PROVE  EndsInv'
<1>1. Attends /\ UNCHANGED queue
  BY JobsAttend DEF EndsInv, StepInv, Abandon
<1>2. UNCHANGED <<checkpoint, receipt, document, points, run>> /\ deleting' = deleting
  BY DEF Abandon
<1>3. Steady
  BY <1>1, <1>2, Idles
<1>4. Ruled(j)' /\ \A i \in Jobs \ {j} : call'[i] = call[i]
  BY CallRow DEF Abandon
<1> QED
  BY <1>2, <1>3, <1>4, CallTurns DEF EndsInv

LEMMA ReadEnds ==
    ASSUME EndsInv, AuthorityInv', NEW j \in Jobs, Read(j)
    PROVE  EndsInv'
<1>1. Attends /\ UNCHANGED queue
  BY JobsAttend DEF EndsInv, StepInv, Read
<1>2. UNCHANGED <<checkpoint, receipt, document, points, run>> /\ deleting' = deleting
  BY DEF Read, store
<1>3. Steady
  BY <1>1, <1>2, Idles
<1>4. /\ call'[j].why = call[j].why /\ call'[j].stage = "ask"
      /\ \A i \in Jobs \ {j} : call'[i] = call[i]
  BY CallRow DEF Read
<1>5. Ruled(j)'
  BY <1>3, <1>4 DEF Ruled, EndsInv, Steady
<1> QED
  BY <1>2, <1>3, <1>4, <1>5, CallTurns DEF EndsInv

LEMMA MarkStores ==
    ASSUME StepInv, NEW j \in Jobs, MarkCancel(j, tries[j])
    PROVE  Stores(NoHandler)
<1> DEFINE c == checkpoint[j]  b == BegunCheckpoint(j, tries[j])  e == checkpoint'[j]
           d == [b EXCEPT !.cancel = TRUE]
<1>1. UNCHANGED <<document, points>>
  BY DEF MarkCancel
<1>2. /\ checkpoint \in [Jobs -> Checkpoint] /\ c \in Checkpoint /\ c.attempt \in Nat
      /\ tries[j] \in 0..MaxTries /\ tries[j] \in Nat
      /\ receipt \in [Jobs -> Receipt] /\ StoreTyped
  <2>1. StoreTyped /\ tries[j] \in 0..MaxTries
    BY QueueRow DEF StepInv, AuthorityInv, PublicationInv, StoreInv
  <2>2. checkpoint[j] \in Checkpoint /\ receipt \in [Jobs -> Receipt]
    BY <2>1 DEF StoreTyped
  <2> QED
    BY <2>1, <2>2, PublicationAssumption DEF StoreTyped, Checkpoint
<1>3. CheckpointServed(NoHandler, j) /\ \A i \in Jobs \ {j} : CheckpointServed(NoHandler, i)
  <2>1. CASE UNCHANGED checkpoint
    BY <2>1, CheckpointsRest DEF CheckpointServed
  <2>2. CASE CanBeginCheckpoint(j, tries[j]) /\ checkpoint' = [checkpoint EXCEPT ![j] = d]
    <3>1. e = d /\ \A i \in Jobs \ {j} : checkpoint'[i] = checkpoint[i]
      BY <1>2, <2>2
    <3>2. b \in Checkpoint
      BY <1>2, CheckpointRows
    <3>3. /\ d.attempt = b.attempt /\ d.state = b.state /\ d.named = b.named /\ d.cancel
          /\ d.outputs = b.outputs
      BY <3>2 DEF Checkpoint
    <3>4. b = c \/ Renews(c, b, tries[j])
      <4>1. CASE c.attempt = tries[j]
        BY <4>1 DEF BegunCheckpoint
      <4>2. CASE c.attempt # tries[j]
        <5>1. c.attempt < tries[j]
          BY <1>2, <2>2, <4>2 DEF CanBeginCheckpoint
        <5> QED
          BY <1>2, <4>2, <5>1 DEF BegunCheckpoint, FreshCheckpoint, Renews
      <4> QED
        BY <4>1, <4>2
    <3> HIDE DEF b, d
    <3>5. CheckpointServed(NoHandler, j)
      BY <3>1, <3>3, <3>4 DEF CheckpointServed, CheckpointKept, Extends, Renews
    <3> QED
      BY <3>1, <3>5 DEF CheckpointServed, CheckpointKept, Extends
  <2> QED
    BY <2>1, <2>2 DEF MarkCancel
<1>4. ASSUME NEW i \in Jobs PROVE ReceiptServed(NoHandler, i)
  <2>1. receipt'[i] = receipt[i] \/ receipt'[i] = [receipt[i] EXCEPT !.cancel = TRUE]
    BY <1>2 DEF MarkCancel
  <2>2. receipt[i] \in Receipt
    BY <1>2
  <2>3. Holds(receipt[i], receipt'[i])
    BY <2>1, <2>2 DEF Holds, Receipt
  <2> QED
    BY <2>3 DEF ReceiptServed, ReceiptKeptBy
<1>5. DocumentServed(NoHandler)
  BY <1>1 DEF DocumentServed, Hushed, Standing, Stands
<1> QED
  BY <1>3, <1>4, <1>5 DEF Stores

LEMMA MarkEnds ==
    ASSUME EndsInv, AuthorityInv', NEW j \in Jobs, Mark(j)
    PROVE  EndsInv'
<1>1. Attends /\ UNCHANGED queue /\ UNCHANGED run /\ deleting' = deleting
  BY JobsAttend DEF EndsInv, StepInv, Mark
<1>2. Stores(NoHandler)
  BY MarkStores DEF Mark, EndsInv
<1>3. Steady
  BY <1>1, <1>2, Steadies DEF Lingers
<1>4. CASE call' = [call EXCEPT ![j] = NoCall]
  BY <1>1, <1>3, <1>4, CallRow, CallTurns DEF EndsInv
<1>5. CASE Calling(j, call[j].why, "read", "none")
  <2>1. /\ call'[j].why = call[j].why /\ call'[j].stage = "read"
        /\ \A i \in Jobs \ {j} : call'[i] = call[i]
    BY <1>5, CallRow
  <2>2. Ruled(j)'
    BY <1>3, <2>1 DEF Ruled, EndsInv, Steady
  <2> QED
    BY <1>1, <1>3, <2>1, <2>2, CallTurns DEF EndsInv
<1> QED
  BY <1>4, <1>5 DEF Mark

(* The thread whose lease the queue accepts is that of the latest attempt. *)
LEMMA Lone ==
    ASSUME StepInv, NEW h \in Handlers, Live(h), Leased(h),
           NEW k \in Handlers, k # h, Live(k), run[k].job = run[h].job
    PROVE  Harmless(run[k])
<1>1. /\ Alone(h) /\ Alone(k) /\ run[h].job \in Jobs /\ run[k].attempt \in Nat
      /\ tries[run[h].job] \in Nat /\ JobInv(run[h].job)
  BY StepRow
<1>2. run[h].attempt = tries[run[h].job]
  BY <1>1 DEF Alone, JobInv, Leased
<1> QED
  BY <1>1, <1>2 DEF Alone

LEMMA HeartbeatEnds ==
    ASSUME EndsInv, AuthorityInv', NEW h \in Handlers, LoseHeartbeat(h)
    PROVE  EndsInv'
<1>1. /\ Attends /\ UNCHANGED queue /\ UNCHANGED call /\ deleting' = deleting
      /\ UNCHANGED <<checkpoint, receipt, document, points>>
      /\ run' = [run EXCEPT ![h].lost = TRUE]
  BY OwnersAttend DEF EndsInv, StepInv, LoseHeartbeat, store
<1>2. run \in [Handlers -> Run]
  BY DEF EndsInv, StepInv, AuthorityInv, PublicationInv
<1>3. \A k \in Handlers : Lingers(k)
  BY <1>1, <1>2 DEF Lingers
<1>4. Steady
  BY <1>1, <1>3, IdleStores, Steadies
<1> QED
  BY <1>1, <1>4 DEF Steady, EndsInv

LEMMA GiveUpEnds ==
    ASSUME EndsInv, AuthorityInv', NEW h \in Handlers, GiveUp(h)
    PROVE  EndsInv'
<1>1. /\ Attends /\ UNCHANGED queue /\ deleting' = deleting /\ Live(h) /\ Leased(h)
      /\ UNCHANGED <<checkpoint, receipt, document, points>>
      /\ run' = [run EXCEPT ![h].lost = TRUE]
  BY OwnersAttend DEF EndsInv, StepInv, GiveUp, Request, RequestCancel, store
<1>2. run \in [Handlers -> Run] /\ run[h].job \in Jobs /\ StepInv /\ run[h] \in Run
  BY <1>1, StepRow DEF EndsInv, StepInv, AuthorityInv, PublicationInv
<1> PICK j \in Jobs : j = run[h].job
  BY <1>2
<1>3. \A k \in Handlers : Lingers(k)
  BY <1>1, <1>2 DEF Lingers
<1>4. Steady
  BY <1>1, <1>3, IdleStores, Steadies
<1>5. Warned(j)'
  <2> SUFFICES ASSUME NEW k \in Handlers, Live(k)', run'[k].job = j PROVE run'[k].lost
    BY <1>1, <1>2 DEF Warned, Run
  <2>1. CASE k = h
    BY <1>1, <1>2, <2>1 DEF Run
  <2>2. CASE k # h
    <3>1. run'[k] = run[k]
      BY <1>1, <1>2, <2>2
    <3> QED
      BY <1>1, <1>2, <2>2, <3>1, Lone DEF Harmless, Live
  <2> QED
    BY <2>1, <2>2
<1>6. \E why \in {"timeout", "release"} : \E stage \in {"mark", "read"} : Calling(j, why, stage, "none")
  BY DEF GiveUp, Request
<1>7. Ruled(j)' /\ \A i \in Jobs \ {j} : call'[i] = call[i]
  <2>1. /\ call'[j].why \in {"timeout", "release"} /\ call'[j].stage \in {"mark", "read"}
        /\ \A i \in Jobs \ {j} : call'[i] = call[i]
    BY <1>2, <1>6, CallRow
  <2> QED
    BY <1>5, <2>1 DEF Ruled
<1> QED
  BY <1>1, <1>2, <1>4, <1>7, CallTurns DEF EndsInv

LEMMA ReportEnds ==
    ASSUME EndsInv, AuthorityInv', NEW h \in Handlers, Report(h)
    PROVE  EndsInv'
<1>1. /\ Attends /\ UNCHANGED queue /\ deleting' = deleting /\ Live(h)
      /\ UNCHANGED <<checkpoint, receipt, document, points>> /\ End(h)
  BY OwnersAttend DEF EndsInv, StepInv, Report, store, Live
<1>2. run \in [Handlers -> Run] /\ run[h].job \in Jobs /\ StepInv
  BY <1>1, StepRow DEF EndsInv, StepInv, AuthorityInv, PublicationInv
<1> PICK j \in Jobs : j = run[h].job
  BY <1>2
<1>3. /\ run'[h].pc = "idle" /\ \A k \in Handlers \ {h} : run'[k] = run[k]
  BY <1>1, <1>2 DEF End, Idle
<1>4. \A k \in Handlers : Lingers(k)
  BY <1>3 DEF Lingers
<1>5. Steady
  BY <1>1, <1>4, IdleStores, Steadies
<1>6. CASE UNCHANGED call
  BY <1>1, <1>5, <1>6 DEF Steady, EndsInv
<1>7. CASE Leased(h) /\ \E why \in {"ack", "fail"} : Calling(j, why, "read", "none")
  <2>1. Stale(j)'
    BY <1>1, <1>2, <1>3, <1>7, Lone DEF Stale, Live
  <2>2. /\ call'[j].why \in {"ack", "fail"} /\ call'[j].stage = "read"
        /\ \A i \in Jobs \ {j} : call'[i] = call[i]
    BY <1>2, <1>7, CallRow
  <2>3. Ruled(j)'
    BY <2>1, <2>2 DEF Ruled
  <2> QED
    BY <1>1, <1>2, <1>5, <2>2, <2>3, CallTurns DEF EndsInv
<1> QED
  BY <1>6, <1>7 DEF Report

LEMMA AnswerRow ==
    ASSUME NEW o \in {"none", "published", "failed", "cancelled", "verifying", "unavailable"},
           NEW class, NEW attempt, NEW current
    PROVE  LET n == Answered(o, class, attempt, current) IN
           /\ n = "none" => o \in {"none", "failed"}
           /\ n = "cancelled" => o = "cancelled" /\ attempt = current
<1>1. CASE o = "published"
  BY <1>1 DEF Answered
<1>2. CASE o = "cancelled"
  BY <1>2 DEF Answered
<1>3. CASE o \in {"none", "failed"}
  BY <1>3 DEF Answered
<1>4. CASE o \in {"verifying", "unavailable"}
  BY <1>4 DEF Answered
<1> QED
  BY <1>1, <1>2, <1>3, <1>4

LEMMA AskEnds ==
    ASSUME EndsInv, AuthorityInv', NEW j \in Jobs, Ask(j)
    PROVE  EndsInv'
<1>1. /\ Attends /\ UNCHANGED queue /\ UNCHANGED run /\ deleting' = deleting
      /\ OperationLock(j) /\ StepInv /\ Ruled(j)
  BY AskAttends DEF EndsInv, StepInv, Ask
<1>2. \A h \in Handlers : Lingers(h)
  BY <1>1 DEF Lingers
<1>3. call[j].why \in {"timeout", "release"} => Stale(j)
  <2> SUFFICES ASSUME call[j].why \in {"timeout", "release"},
                      NEW h \in Handlers, Live(h), run[h].job = j
               PROVE  Harmless(run[h])
    BY DEF Stale
  <2>1. /\ Alone(h) /\ run[h].attempt \in Nat /\ tries[j] \in Nat /\ JobInv(j)
    BY <1>1, StepRow
  <2>2. run[h].lost
    BY <1>1 DEF Ruled, Warned
  <2>3. CASE run[h].grant = grants[j]
    BY <1>1, <2>2, <2>3 DEF OperationLock, Harmless
  <2>4. CASE run[h].grant # grants[j]
    BY <2>1, <2>4 DEF Alone, JobInv
  <2> QED
    BY <2>3, <2>4
<1>4. ASSUME Steady, NEW note, Calling(j, call[j].why, "apply", note),
             note = "none" => receipt'[j].outcome \in {"none", "failed"},
             note = "cancelled" => Shut(j)'
      PROVE  EndsInv'
  <2>1. /\ call'[j].why = call[j].why /\ call'[j].stage = "apply" /\ call'[j].note = note
        /\ \A i \in Jobs \ {j} : call'[i] = call[i]
    BY <1>4, CallRow
  <2>2. /\ call[j].why \in {"fail", "timeout", "release"} => Stale(j)'
        /\ call[j].why \in {"timeout", "release"} => Warned(j)'
    BY <1>1, <1>3, <1>4 DEF Ruled, Steady
  <2>3. Ruled(j)'
    BY <1>4, <2>1, <2>2 DEF Ruled, Over
  <2> QED
    BY <1>1, <1>4, <2>1, <2>3, CallTurns DEF EndsInv
<1>5. CASE Calling(j, call[j].why, "apply", "defer") /\ UNCHANGED store
  <2>1. UNCHANGED <<checkpoint, receipt, document, points>>
    BY <1>5 DEF store
  <2>2. Steady
    BY <1>1, <2>1, Idles
  <2> QED
    BY <1>4, <1>5, <2>2
<1>6. ASSUME NEW o \in {"none", "published", "failed", "cancelled", "verifying", "unavailable"},
             RecoverPublication(j, tries[j], FALSE, o),
             LET attempt == IF o = "published" \/ receipt'[j].outcome = "cancelled"
                              THEN receipt'[j].attempt ELSE checkpoint'[j].attempt
             IN  Calling(j, call[j].why, "apply", Answered(o, call[j].note, attempt, tries[j]))
      PROVE  EndsInv'
  <2> DEFINE attempt == IF o = "published" \/ receipt'[j].outcome = "cancelled"
                          THEN receipt'[j].attempt ELSE checkpoint'[j].attempt
             note == Answered(o, call[j].note, attempt, tries[j])
  <2>1. StoreInv /\ ReceiptsKnown /\ PublishedKnown /\ \A i \in Jobs : TraceInv(i)
    BY <1>1 DEF StepInv, AuthorityInv, PublicationInv, JobInv
  <2>2. Settled /\ Telling(j, o)
    BY <1>6, <2>1, RecoverSettles
  <2>3. Steady
    BY <1>1, <1>2, <2>2, SettledStores, Steadies
  <2>4. /\ note = "none" => o \in {"none", "failed"}
        /\ note = "cancelled" => o = "cancelled" /\ attempt = tries[j]
    BY AnswerRow
  <2>5. Calling(j, call[j].why, "apply", note)
    BY <1>6
  <2> HIDE DEF note
  <2>6. note = "none" => receipt'[j].outcome \in {"none", "failed"}
    BY <2>2, <2>4 DEF Telling
  <2>7. note = "cancelled" => Shut(j)'
    <3>1. tries'[j] = tries[j]
      BY <1>1 DEF queue
    <3> QED
      BY <2>2, <2>4, <3>1 DEF Telling, Shut
  <2> QED
    BY <1>4, <2>3, <2>5, <2>6, <2>7
<1> QED
  BY <1>5, <1>6 DEF Ask

LEMMA MaintenanceEnds ==
    ASSUME EndsInv, AuthorityInv', Archive \/ DeletePoints \/ DeleteDocument
    PROVE  EndsInv'
<1>1. /\ Attends /\ UNCHANGED queue /\ UNCHANGED run /\ UNCHANGED call
      /\ UNCHANGED <<checkpoint, receipt>> /\ document \in Document
  BY MaintenanceAttends
     DEF EndsInv, StepInv, AuthorityInv, PublicationInv, StoreInv, StoreTyped,
         Archive, DeletePoints, DeleteDocument
<1>2. deleting' => "delete" \in Maintenance
  BY DEF EndsInv, Archive, DeletePoints, DeleteDocument
<1>3. DocumentServed(NoHandler)
  <2>1. CASE Archive
    BY <2>1 DEF Archive, DocumentServed, Hushed, Standing, Stands
  <2>2. CASE DeletePoints
    BY <2>2 DEF DeletePoints, DocumentServed, Hushed, Standing, Stands
  <2>3. CASE DeleteDocument
    <3>1. /\ document'.owner = document.owner /\ document'.lineage = document.lineage
          /\ document' = document \/ document'.status = "deleted"
      BY <1>1, <2>3 DEF DeleteDocument, Document
    <3>2. points' = points /\ "delete" \in Maintenance
      BY <2>3 DEF DeleteDocument, EndsInv
    <3> QED
      BY <3>1, <3>2 DEF DocumentServed, Hushed, Standing, Stands
  <2> QED
    BY <2>1, <2>2, <2>3
<1>4. Stores(NoHandler)
  BY <1>1, <1>3, CheckpointsRest
     DEF Stores, CheckpointServed, ReceiptServed, ReceiptKeptBy, Holds
<1>5. Steady
  BY <1>1, <1>4, Steadies DEF Lingers
<1> QED
  BY <1>1, <1>2, <1>5 DEF Steady, EndsInv

(* A step that changes only the phase of job j, and ends its call.         *)
LEMMA PhaseEnds ==
    ASSUME EndsInv, AuthorityInv', NEW j \in Jobs, NEW P, Become(j, P),
           UNCHANGED <<checkpoint, receipt, document, points, guard, run, deleting>>,
           call' = call \/ call' = [call EXCEPT ![j] = NoCall],
           P \in {"absent", "waiting", "dead"} => Over(j),
           P = "cancelled" => Over(j) \/ Shut(j)
    PROVE  EndsInv'
<1>1. /\ phase \in [Jobs -> Lifecycle!Phase] /\ tries \in [Jobs -> 0..MaxTries]
      /\ grants \in [Jobs -> 0..MaxGrants]
  BY DEF EndsInv, StepInv, AuthorityInv, PublicationInv, QueueTyped
<1>2. /\ tries' = tries /\ grants' = grants
      /\ phase'[j] = P /\ \A i \in Jobs \ {j} : phase'[i] = phase[i]
  BY <1>1 DEF Become, Queue
<1>3. StepInv'
  <2>1. ASSUME NEW i \in Jobs PROVE JobInv(i)'
    BY <1>2 DEF EndsInv, StepInv, JobInv, TraceInv
  <2>2. ASSUME NEW h \in Handlers, Live(h)' PROVE Alone(h)' /\ SoundRun(h)'
    <3>1. Alone(h) /\ SoundRun(h)
      BY <2>2 DEF Live, EndsInv, StepInv
    <3> QED
      BY <1>2, <3>1 DEF Alone, SoundRun, Live
  <2> QED
    BY <2>1, <2>2 DEF StepInv
<1>4. ASSUME NEW i \in Jobs PROVE (Over(i) <=> Over(i)') /\ (Shut(i) <=> Shut(i)')
                                  /\ (Stale(i) <=> Stale(i)') /\ (Warned(i) <=> Warned(i)')
  BY <1>2 DEF Over, Shut, Stale, Warned, Live
<1>5. ASSUME NEW i \in Jobs PROVE Closed(i)'
  <2>1. Closed(i)
    BY DEF EndsInv
  <2>2. CASE i = j
    BY <1>2, <1>4, <2>2 DEF Closed
  <2>3. CASE i # j
    BY <1>2, <1>4, <2>1, <2>3 DEF Closed
  <2> QED
    BY <2>2, <2>3
<1>6. ASSUME NEW i \in Jobs PROVE Ruled(i)'
  <2>1. Ruled(i)
    BY DEF EndsInv
  <2>2. CASE call'[i] = call[i]
    BY <1>4, <2>1, <2>2 DEF Ruled
  <2>3. CASE i = j /\ call' = [call EXCEPT ![j] = NoCall]
    BY <2>3, CallRow
  <2> QED
    BY <2>2, <2>3, CallRow
<1> QED
  BY <1>3, <1>5, <1>6 DEF EndsInv

LEMMA SubmitEnds ==
    ASSUME EndsInv, AuthorityInv', NEW j \in Jobs, Submit(j) \/ Withdrawn(j)
    PROVE  EndsInv'
<1>1. Closed(j) /\ phase[j] \in {"absent", "waiting"}
  BY DEF EndsInv, Submit, Withdrawn
<1>2. /\ UNCHANGED <<checkpoint, receipt, document, points, guard, run, deleting>> /\ call' = call
      /\ Become(j, "waiting") \/ Become(j, "cancelled")
  BY DEF Submit, Withdrawn, store
<1>3. Over(j)
  BY <1>1 DEF Closed
<1> QED
  BY <1>2, <1>3, PhaseEnds

LEMMA ApplyEnds ==
    ASSUME EndsInv, AuthorityInv', "expired" \notin Calls, NEW j \in Jobs, Apply(j)
    PROVE  EndsInv'
<1>1. /\ call[j].stage = "apply" /\ call' = [call EXCEPT ![j] = NoCall] /\ Ruled(j)
      /\ UNCHANGED <<checkpoint, receipt, document, points, guard, deleting>>
      /\ PublicationInv
  BY DEF Apply, store, EndsInv, StepInv, AuthorityInv
<1>2. call[j].why # "expired"
  <2>1. call[j] # NoCall
    BY <1>1 DEF NoCall
  <2> QED
    BY <1>1, <2>1, HeldCall
<1>3. UNCHANGED run
  BY <1>2 DEF Apply
<1>4. CASE UNCHANGED queue
  <2>1. Attends /\ StepInv
    BY ApplyAttends DEF EndsInv, StepInv
  <2>2. Steady
    BY <1>1, <1>3, <1>4, <2>1, Idles
  <2> QED
    BY <1>1, <2>2, CallRow, CallTurns DEF EndsInv
<1>5. CASE Become(j, "succeeded")
  BY <1>1, <1>3, <1>5, PhaseEnds
<1>6. CASE call[j].note = "cancelled" /\ Become(j, "cancelled")
  <2>1. Shut(j)
    BY <1>1, <1>6 DEF Ruled
  <2> QED
    BY <1>1, <1>3, <1>6, <2>1, PhaseEnds
<1>7. CASE call[j].note = "none" /\ Absent(j)
  <2>1. CASE call[j].why \in {"timeout", "fail", "release"}
    <3>1. Over(j)
      BY <1>1, <1>7, <2>1 DEF Ruled
    <3>2. Become(j, "waiting") \/ Become(j, "dead") \/ Become(j, "cancelled")
      BY <1>7, <2>1 DEF Absent, Failed
    <3> QED
      BY <1>1, <1>3, <3>1, <3>2, PhaseEnds
  <2>2. CASE call[j].why \notin {"timeout", "fail", "release"}
    <3>1. Become(j, "succeeded") \/ UNCHANGED queue
      BY <1>2, <1>7, <2>2 DEF Absent
    <3> QED
      BY <1>4, <1>5, <3>1
  <2> QED
    BY <2>1, <2>2
<1> QED
  BY <1>2, <1>4, <1>5, <1>6, <1>7 DEF Apply

(* A new thread starts on a new attempt, of which nothing is known.        *)
LEMMA StartedSound ==
    ASSUME StepInv, NEW j \in Jobs, tries[j] < MaxTries, NEW h \in Handlers, guard # h
    PROVE  Sound(h, Started(j, tries[j] + 1, grants[j] + 1), guard, checkpoint[j], receipt[j],
                 document, points)
<1> DEFINE T == tries[j] + 1  n == Started(j, T, grants[j] + 1)
<1>1. /\ tries[j] \in Nat /\ T \in 1..MaxTries /\ grants[j] \in Nat /\ JobInv(j)
      /\ checkpoint[j].attempt \in Nat /\ receipt[j].attempt \in Nat
  <2>1. /\ tries[j] \in 0..MaxTries /\ grants[j] \in 0..MaxGrants /\ StoreTyped /\ JobInv(j)
    BY QueueRow DEF StepInv, AuthorityInv, PublicationInv, StoreInv
  <2>2. checkpoint[j] \in Checkpoint /\ receipt[j] \in Receipt
    BY <2>1 DEF StoreTyped
  <2>3. checkpoint[j].attempt \in 0..MaxTries /\ receipt[j].attempt \in 0..MaxTries
    BY <2>2 DEF Checkpoint, Receipt
  <2> QED
    BY <2>1, <2>3, PublicationAssumption, QueuePublicationAssumption
<1>2. n.pc = "recover" /\ n.job = j /\ n.attempt = T /\ n.next = 1
  BY <1>1, StartedRow
<1>3. ~n.wrote /\ ~n.resumed
  BY DEF Started, Idle
<1> HIDE DEF n
<1>4. receipt[j].attempt < T /\ checkpoint[j].attempt < T
  BY <1>1 DEF JobInv
<1>5. document.owner # <<j, T>>
  <2> SUFFICES ASSUME document.owner = <<j, T>> PROVE FALSE
    OBVIOUS
  <2>1. T <= checkpoint[j].attempt
    BY <1>1 DEF JobInv, TraceInv, Traces
  <2> QED
    BY <1>1, <1>4, <2>1
<1> HIDE DEF T
<1>6. Heeds(n, checkpoint[j], receipt[j])
  <2>1. receipt[j].attempt # T /\ checkpoint[j].attempt # T
    BY <1>4, <1>1 DEF T
  <2> QED
    BY <1>2, <2>1 DEF Heeds, Early, Deciding, Named
<1>7. Wrote(n, document)
  BY <1>2, <1>3, <1>5 DEF Wrote
<1>8. /\ Grips(h, n, guard, checkpoint[j], document) /\ Purged(n, document, points)
      /\ Filled(h, n, guard, checkpoint[j], document, points)
  BY <1>2 DEF Grips, Purged, Filled, Writing
<1>9. Sound(h, n, guard, checkpoint[j], receipt[j], document, points)
  BY <1>6, <1>7, <1>8 DEF Sound
<1> QED
  BY <1>9 DEF n, T

LEMMA ClaimNewEnds ==
    ASSUME EndsInv, AuthorityInv', NEW j \in Jobs, NEW h \in Handlers, ClaimNew(j, h)
    PROVE  EndsInv'
<1> DEFINE T == tries[j] + 1  G == grants[j] + 1  n == Started(j, T, G)
<1>1. /\ phase[j] = "waiting" /\ tries[j] < MaxTries /\ ~Live(h)
      /\ Queue(j, "owned", T, G) /\ run' = [run EXCEPT ![h] = n]
      /\ UNCHANGED <<checkpoint, receipt, document, points, guard, call, deleting>>
  BY DEF ClaimNew, store
<1>2. /\ StepInv /\ PublicationInv /\ run \in [Handlers -> Run] /\ guard # h
      /\ tries \in [Jobs -> 0..MaxTries] /\ grants \in [Jobs -> 0..MaxGrants]
      /\ phase \in [Jobs -> Lifecycle!Phase] /\ JobInv(j)
      /\ tries[j] \in Nat /\ grants[j] \in Nat
  <2>1. /\ StepInv /\ PublicationInv
    BY DEF EndsInv, StepInv, AuthorityInv
  <2>2. guard # h
    BY <1>1, <2>1, Row DEF Live, Holders, Guarded
  <2>3. /\ tries \in [Jobs -> 0..MaxTries] /\ grants \in [Jobs -> 0..MaxGrants]
        /\ phase \in [Jobs -> Lifecycle!Phase] /\ JobInv(j)
    BY <2>1 DEF StepInv, PublicationInv, QueueTyped
  <2>4. tries[j] \in 0..MaxTries /\ grants[j] \in 0..MaxGrants
    BY <2>3
  <2> QED
    BY <2>1, <2>2, <2>3, <2>4, PublicationAssumption, QueuePublicationAssumption DEF PublicationInv
<1>3. T \in 1..MaxTries /\ G \in Nat /\ G = T /\ tries[j] < T
  BY <1>1, <1>2, PublicationAssumption DEF JobInv
<1>4. n.pc = "recover" /\ n.job = j /\ n.attempt = T /\ n.grant = G
  BY <1>3, StartedRow
<1>5. Sound(h, n, guard, checkpoint[j], receipt[j], document, points)
  BY <1>1, <1>2, StartedSound
<1>6. /\ tries'[j] = T /\ grants'[j] = G /\ phase'[j] = "owned"
      /\ \A i \in Jobs \ {j} : tries'[i] = tries[i] /\ grants'[i] = grants[i] /\ phase'[i] = phase[i]
  BY <1>1, <1>2 DEF Queue
<1>7. /\ run'[h] = n /\ \A k \in Handlers \ {h} : run'[k] = run[k]
  BY <1>1, <1>2
<1>8. call[j] = NoCall
  BY <1>1, <1>2, QueueRow DEF CallInv, Holding
<1>9. Stale(j)
  BY <1>1 DEF EndsInv, Closed, Over
<1> HIDE DEF n, T, G
<1>10. ASSUME NEW i \in Jobs PROVE JobInv(i)'
  <2>1. JobInv(i) /\ TraceInv(i)'
    BY <1>1, <1>2 DEF StepInv, JobInv, TraceInv
  <2>2. CASE i = j
    <3>1. checkpoint[j].attempt \in Nat /\ receipt[j].attempt \in Nat
      <4>1. StoreTyped
        BY <1>2 DEF PublicationInv, StoreInv
      <4>2. checkpoint[j] \in Checkpoint /\ receipt[j] \in Receipt
        BY <4>1 DEF StoreTyped
      <4>3. checkpoint[j].attempt \in 0..MaxTries /\ receipt[j].attempt \in 0..MaxTries
        BY <4>2 DEF Checkpoint, Receipt
      <4> QED
        BY <4>3, PublicationAssumption
    <3>2. checkpoint[j].attempt <= T /\ receipt[j].attempt <= T
      BY <1>2, <1>3, <3>1 DEF JobInv
    <3> QED
      BY <1>1, <1>3, <1>6, <2>1, <2>2, <3>2 DEF JobInv
  <2>3. CASE i # j
    BY <1>1, <1>6, <2>1, <2>3 DEF JobInv
  <2> QED
    BY <2>2, <2>3
<1>11. ASSUME NEW k \in Handlers \ {h}, Live(k)'
       PROVE  /\ Live(k) /\ run'[k] = run[k] /\ run[k].job \in Jobs
              /\ run[k].job = j => Harmless(run[k]) /\ run[k].attempt <= tries[j]
                                   /\ run[k].attempt # T /\ run[k].attempt <= T
              /\ Alone(k) /\ SoundRun(k)
  <2>1. Live(k) /\ run'[k] = run[k]
    BY <1>7, <1>11 DEF Live
  <2>2. run[k].job \in Jobs /\ run[k].attempt \in Nat /\ Alone(k) /\ SoundRun(k)
    BY <1>2, <2>1, StepRow
  <2>3. run[k].job = j => /\ Harmless(run[k]) /\ run[k].attempt <= tries[j]
                          /\ run[k].attempt # T /\ run[k].attempt <= T
    <3>1. run[k].job = j => Harmless(run[k]) /\ run[k].attempt <= tries[j]
      BY <1>9, <2>1, <2>2 DEF Stale, Alone
    <3> QED
      BY <1>2, <1>3, <2>2, <3>1
  <2> QED
    BY <2>1, <2>2, <2>3
<1>12. ASSUME NEW k \in Handlers, Live(k)' PROVE Alone(k)' /\ SoundRun(k)'
  <2>1. CASE k = h
    <3>1. SoundRun(h)'
      BY <1>1, <1>4, <1>5, <1>7 DEF SoundRun
    <3>2. \A l \in Handlers : Live(l)' /\ run'[l].job = j /\ run'[l].attempt = T => l = h
      BY <1>11
    <3>3. T \in Nat /\ T <= T
      BY <1>3
    <3> QED
      BY <1>3, <1>4, <1>6, <1>7, <2>1, <3>1, <3>2, <3>3 DEF Alone
  <2>2. CASE k # h
    <3>1. /\ Live(k) /\ run'[k] = run[k] /\ run[k].job \in Jobs
          /\ run[k].job = j => Harmless(run[k]) /\ run[k].attempt # T /\ run[k].attempt <= T
          /\ Alone(k) /\ SoundRun(k)
      BY <1>11, <1>12, <2>2
    <3>2. SoundRun(k)'
      BY <1>1, <3>1 DEF SoundRun
    <3>3. \A l \in Handlers : Live(l)' /\ run'[l].job = run[k].job
                               /\ run'[l].attempt = run[k].attempt => l = k
      <4> SUFFICES ASSUME NEW l \in Handlers, Live(l)', run'[l].job = run[k].job,
                          run'[l].attempt = run[k].attempt
                   PROVE  l = k
        OBVIOUS
      <4>1. l # h
        BY <1>4, <1>7, <3>1
      <4> QED
        BY <1>11, <3>1, <4>1 DEF Alone
    <3>4. run[k].attempt <= tries'[run[k].job]
      BY <1>6, <3>1 DEF Alone
    <3>5. run[k].attempt < tries'[run[k].job] => Harmless(run[k])
      BY <1>6, <3>1 DEF Alone
    <3>6. run[k].grant = run[k].attempt
      BY <3>1 DEF Alone
    <3> QED
      BY <3>1, <3>2, <3>3, <3>4, <3>5, <3>6 DEF Alone
  <2> QED
    BY <2>1, <2>2
<1>13. StepInv'
  BY <1>10, <1>12 DEF StepInv
<1>14. ASSUME NEW i \in Jobs \ {j}
       PROVE  /\ Over(i) => Over(i)'
              /\ Stale(i) => Stale(i)'
              /\ Warned(i) => Warned(i)'
              /\ Shut(i) => Shut(i)'
  <2>1. ASSUME NEW k \in Handlers, run'[k].job = i PROVE run'[k] = run[k]
    BY <1>4, <1>7, <2>1
  <2> QED
    BY <1>1, <1>6, <2>1 DEF Over, Stale, Warned, Shut, Live
<1>15. ASSUME NEW i \in Jobs PROVE Ruled(i)' /\ Closed(i)'
  <2>1. CASE i = j
    <3>1. Ruled(j)'
      BY <1>1, <1>8 DEF Ruled, NoCall
    <3>2. Closed(j)'
      BY <1>6 DEF Closed
    <3> QED
      BY <2>1, <3>1, <3>2
  <2>2. CASE i # j
    <3>1. Ruled(i) /\ Closed(i)
      BY DEF EndsInv
    <3>2. Ruled(i)'
      BY <1>1, <1>14, <2>2, <3>1 DEF Ruled
    <3>3. Closed(i)'
      BY <1>6, <1>14, <2>2, <3>1 DEF Closed
    <3> QED
      BY <3>2, <3>3
  <2> QED
    BY <2>1, <2>2
<1> QED
  BY <1>1, <1>13, <1>15 DEF EndsInv

LEMMA HandlerEnds ==
    ASSUME EndsInv, AuthorityInv', NEW a \in Handlers, HandlerStep(a),
           UNCHANGED <<queue, call, deleting>>
    PROVE  EndsInv'
<1>1. StepInv /\ Live(a)
  BY HandlerLives DEF EndsInv
<1>2. Serves(a) /\ \A h \in Handlers : Endures(h)
  BY <1>1, HandlerServes
<1>3. UNCHANGED queue /\ call' = call /\ deleting' = deleting
  OBVIOUS
<1>4. StepInv' /\ \A j \in Jobs : Closed(j)' /\ Ruled(j)'
  BY <1>1, <1>2, <1>3, ServesKeep
<1> QED
  BY <1>3, <1>4 DEF EndsInv

LEMMA EndsStep ==
    ASSUME EndsInv, "expired" \notin Calls, [Next]_vars
    PROVE  EndsInv'
<1>1. AuthorityInv'
  BY AuthorityStep DEF EndsInv, StepInv
<1>2. ASSUME NEW j \in Jobs,
             \/ Submit(j) \/ Withdrawn(j) \/ Expire(j) \/ Poll(j) \/ Cancel(j)
             \/ Mark(j) \/ Read(j) \/ Ask(j) \/ Apply(j) \/ Abandon(j)
      PROVE  EndsInv'
  <2>1. ~Expire(j)
    BY DEF Expire
  <2> QED
    BY <1>1, <1>2, <2>1, SubmitEnds, PollEnds, MarkEnds, ReadEnds, AskEnds, ApplyEnds, AbandonEnds
<1>3. ASSUME NEW h \in Handlers,
             \/ LoseHeartbeat(h) \/ GiveUp(h) \/ Report(h)
             \/ \E j \in Jobs : ClaimNew(j, h)
             \/ HandlerStep(h) /\ UNCHANGED <<queue, call, deleting>>
      PROVE  EndsInv'
  BY <1>1, <1>3, HeartbeatEnds, GiveUpEnds, ReportEnds, ClaimNewEnds, HandlerEnds
<1>4. CASE Archive \/ DeletePoints \/ DeleteDocument
  BY <1>1, <1>4, MaintenanceEnds
<1>5. CASE UNCHANGED vars
  <2>1. /\ UNCHANGED <<checkpoint, receipt, document, points, guard, run, deleting>>
        /\ call' = call /\ tries' = tries /\ phase' = phase /\ grants' = grants
    BY <1>5 DEF vars
  <2>2. ASSUME NEW i \in Jobs PROVE JobInv(i)' /\ Ruled(i)' /\ Closed(i)'
    <3>1. JobInv(i) /\ Ruled(i) /\ Closed(i)
      BY DEF EndsInv, StepInv
    <3>2. JobInv(i)'
      BY <2>1, <3>1 DEF JobInv, TraceInv
    <3>3. (Over(i) <=> Over(i)') /\ (Shut(i) <=> Shut(i)')
          /\ (Stale(i) <=> Stale(i)') /\ (Warned(i) <=> Warned(i)')
      BY <2>1 DEF Over, Shut, Stale, Warned, Live
    <3> QED
      BY <2>1, <3>1, <3>2, <3>3 DEF Ruled, Closed
  <2>3. ASSUME NEW h \in Handlers, Live(h)' PROVE Alone(h)' /\ SoundRun(h)'
    <3>1. Alone(h) /\ SoundRun(h)
      BY <2>1, <2>3 DEF Live, EndsInv, StepInv
    <3> QED
      BY <2>1, <3>1 DEF Alone, SoundRun, Live
  <2> QED
    BY <1>1, <2>1, <2>2, <2>3 DEF EndsInv, StepInv
<1>6. CASE Next
  BY <1>2, <1>3, <1>4, <1>6 DEF Next
<1> QED
  BY <1>5, <1>6

LEMMA EndsStart ==
    ASSUME Init
    PROVE  EndsInv
<1>1. /\ \A j \in Jobs : /\ receipt[j] = NoReceipt /\ checkpoint[j] = NoCheckpoint
                         /\ tries[j] = 0 /\ grants[j] = 0 /\ phase[j] = "absent" /\ call[j] = NoCall
      /\ document = NoDocument /\ deleting = FALSE /\ \A h \in Handlers : run[h] = Idle
  BY DEF Init, Lifecycle!Init
<1>2. /\ NoReceipt.attempt = 0 /\ NoReceipt.outcome = "none" /\ NoReceipt.owner = Nobody
      /\ NoCheckpoint.attempt = 0 /\ NoCheckpoint.state = "none"
      /\ NoDocument.owner = Nobody /\ Idle.pc = "idle"
  BY DEF NoReceipt, NoCheckpoint, NoDocument, Idle
<1>3. \A h \in Handlers : ~Live(h)
  BY <1>1, <1>2 DEF Live
<1>4. \A j, x : Nobody # <<j, x>>
  BY DEF Nobody
<1>5. ASSUME NEW j \in Jobs PROVE JobInv(j)
  BY <1>1, <1>2, <1>4 DEF JobInv, TraceInv, Traces
<1>6. ASSUME NEW j \in Jobs PROVE Ruled(j) /\ Closed(j)
  <2>1. Over(j)
    BY <1>1, <1>2, <1>3 DEF Over, Stale
  <2> QED
    BY <1>1, <2>1 DEF Ruled, Closed, NoCall
<1> QED
  BY <1>1, <1>3, <1>5, <1>6, AuthorityStarts DEF EndsInv, StepInv

(* Where no lease expires under a thread, an attempt has one thread from   *)
(* its claim to its report, and the traces of every attempt, what each     *)
(* thread relies on, what each call has found out and what the end of a    *)
(* job means stay in order: the queue records an outcome (_reconcile_      *)
(* publication) only when no thread of the attempt can still change it.    *)
THEOREM EndsInvariant == "expired" \notin Calls => (Spec => []EndsInv)
<1> SUFFICES ASSUME "expired" \notin Calls PROVE Spec => []EndsInv
  OBVIOUS
<1>1. Init => EndsInv
  BY EndsStart
<1>2. EndsInv /\ [Next]_vars => EndsInv'
  BY EndsStep
<1> QED
  BY <1>1, <1>2, PTL DEF Spec

LEMMA EndsGive ==
    ASSUME EndsInv
    PROVE  SettledIsUnpublished /\ CancelledLeavesNothing
<1>1. SettledIsUnpublished
  <2>1. ASSUME NEW j \in Jobs, phase[j] \in {"cancelled", "dead"}
        PROVE  receipt[j].outcome # "committed"
    <3>1. Over(j) \/ Shut(j)
      BY <2>1 DEF EndsInv, Closed
    <3> QED
      BY <3>1 DEF Over, Shut
  <2> QED
    BY <2>1 DEF SettledIsUnpublished
<1>2. CancelledLeavesNothing
  BY DEF EndsInv, StepInv, JobInv, TraceInv, Traces, Gone, CancelledLeavesNothing
<1> QED
  BY <1>1, <1>2

(* Where no lease expires under a thread, a job that is cancelled or dead  *)
(* has not published and no thread of it publishes later: the queue asks   *)
(* for the receipt before an attempt fails (_reconcile_publication), and a *)
(* thread of a former attempt is stopped by its lost lease at its next     *)
(* check.                                                                  *)
THEOREM SettledStaysUnpublished == "expired" \notin Calls => (Spec => []SettledIsUnpublished)
<1>1. EndsInv => SettledIsUnpublished
  BY EndsGive
<1> QED
  BY <1>1, EndsInvariant, PTL

(* Where no lease expires under a thread, a checkpoint that is cancelled   *)
(* leaves neither a published document nor points of its attempt, although *)
(* the thread, recovery and operators may all cancel it:                   *)
(* _cleanup_failed_document confirms the cleanup before the checkpoint is  *)
(* finished as cancelled (finish_ingestion_checkpoint).                    *)
THEOREM CancellationLeavesNothing == "expired" \notin Calls => (Spec => []CancelledLeavesNothing)
<1>1. EndsInv => CancelledLeavesNothing
  BY EndsGive
<1> QED
  BY <1>1, EndsInvariant, PTL

-----------------------------------------------------------------------------
(* What is published *)

WholeInv == EndsInv /\ AttemptsInv /\ PublishedIsWhole

(* The publication of an attempt that has no receipt yet is not there.     *)
LEMMA NotItsOwn ==
    ASSUME PublishedKnown, NEW i, NEW x, receipt[i].attempt # x, document.owner = <<i, x>>
    PROVE  document.status # "published"
<1> SUFFICES ASSUME document.status = "published" PROVE FALSE
  OBVIOUS
<1>1. PICK j \in Jobs : CommittedOwn(j) /\ receipt[j].owner = document.owner
  BY DEF PublishedKnown
<1>2. <<j, receipt[j].attempt>> = <<i, x>>
  BY <1>1 DEF CommittedOwn
<1> QED
  BY <1>2

LEMMA ServedIsWhole ==
    ASSUME WholeInv, "delete" \notin Maintenance, NEW a \in Handlers \cup {NoHandler},
           a \in Handlers => Live(a), DocumentServed(a)
    PROVE  PublishedIsWhole'
<1>1. StepInv /\ PublishedKnown /\ document \in Document
  BY DEF WholeInv, EndsInv, StepInv, AuthorityInv, PublicationInv, StoreInv, StoreTyped
<1>2. document.status = "published" => Complete
  BY DEF WholeInv, PublishedIsWhole, Complete
<1> SUFFICES ASSUME document'.status = "published"
             PROVE  /\ document'.chunks
                    /\ \A b \in 1..Batches : points'[b] = Origin(document'.owner, document'.lineage)
  BY DEF PublishedIsWhole
<1>3. CASE Hushed(Sweepable \/ Undoes(a) \/ "delete" \in Maintenance)
  <2>1. Standing /\ document.status = "published"
    BY <1>3 DEF Hushed, Standing, Stands
  <2>2. ~Sweepable
    BY <2>1 DEF Sweepable
  <2>3. ~Undoes(a)
    <3> SUFFICES ASSUME Undoes(a) PROVE FALSE
      OBVIOUS
    <3>1. a \in Handlers /\ run[a].pc = "compensate" /\ ~run[a].tried /\ document.owner = Me(a)
      BY DEF Undoes, Compensating
    <3>2. receipt[run[a].job].attempt # run[a].attempt
      BY <3>1 DEF WholeInv, AttemptsInv, Unpublished, Working
    <3> QED
      BY <1>1, <2>1, <3>1, <3>2, NotItsOwn DEF Me
  <2>4. points' = points /\ (document.chunks => document'.chunks)
    BY <1>3, <2>2, <2>3 DEF Hushed
  <2> QED
    BY <1>2, <2>1, <2>4 DEF Standing, Complete
<1>4. CASE Publicizes /\ (Complete \/ (a \in Handlers /\ run[a].pc = "publish"))
  <2>1. /\ document'.chunks = document.chunks /\ points' = points
        /\ document'.owner = document.owner /\ document'.lineage = document.lineage
    BY <1>1, <1>4 DEF Publicizes, Document
  <2>2. ASSUME a \in Handlers, run[a].pc = "publish" PROVE Complete
    <3>1. /\ SoundRun(a) /\ guard = a /\ document.owner = <<run[a].job, run[a].attempt>>
      BY <1>1, <2>2, StepRow DEF Informed, Publishing
    <3>2. /\ document.chunks /\ run[a].next = Batches + 1
          /\ \A b \in 1..Batches : b < run[a].next => points[b] = Origin(document.owner, document.lineage)
      BY <2>2, <3>1 DEF SoundRun, Sound, Filled, Writing
    <3>3. \A b \in 1..Batches : b < Batches + 1
      BY PublicationAssumption
    <3> QED
      BY <3>2, <3>3 DEF Complete
  <2> QED
    BY <1>4, <2>1, <2>2 DEF Complete
<1>5. CASE a \in Handlers /\ Claims(a)
  BY <1>5 DEF Claims
<1>6. CASE a \in Handlers /\ guard = a /\ run[a].pc = "index" /\ document' = document
  <2>1. document.owner = <<run[a].job, run[a].attempt>> /\ receipt[run[a].job].attempt # run[a].attempt
    BY <1>1, <1>6, StepRow DEF SoundRun, Sound, Grips, Heeds, Before
  <2> QED
    BY <1>1, <1>6, <2>1, NotItsOwn
<1> QED
  BY <1>3, <1>4, <1>5, <1>6 DEF DocumentServed

LEMMA RestIsWhole ==
    ASSUME WholeInv, UNCHANGED <<document, points>>
    PROVE  PublishedIsWhole'
BY DEF WholeInv, PublishedIsWhole

LEMMA AskIsWhole ==
    ASSUME WholeInv, "delete" \notin Maintenance, NEW j \in Jobs, Ask(j)
    PROVE  PublishedIsWhole'
<1>1. StoreInv /\ ReceiptsKnown /\ PublishedKnown /\ \A i \in Jobs : TraceInv(i)
  BY DEF WholeInv, EndsInv, StepInv, AuthorityInv, PublicationInv, JobInv
<1>2. CASE UNCHANGED store
  BY <1>2, RestIsWhole DEF store
<1>3. ASSUME NEW o, RecoverPublication(j, tries[j], FALSE, o)
      PROVE  PublishedIsWhole'
  <2>1. Settled
    BY <1>1, <1>3, RecoverSettles
  <2>2. DocumentServed(NoHandler) /\ NoHandler \notin Handlers
    BY <2>1, SettledStores, PublicationAssumption DEF Stores
  <2> QED
    BY <2>2, ServedIsWhole
<1> QED
  BY <1>2, <1>3 DEF Ask

LEMMA WholeStep ==
    ASSUME "expired" \notin Calls, "intent" \notin Failures, "delete" \notin Maintenance,
           WholeInv, [Next]_vars
    PROVE  WholeInv'
<1>1. EndsInv' /\ AttemptsInv'
  BY EndsStep, AttemptsStep DEF WholeInv
<1> SUFFICES PublishedIsWhole'
  BY <1>1 DEF WholeInv
<1>2. ASSUME NEW j \in Jobs,
             \/ Submit(j) \/ Withdrawn(j) \/ Expire(j) \/ Poll(j) \/ Cancel(j)
             \/ Mark(j) \/ Read(j) \/ Ask(j) \/ Apply(j) \/ Abandon(j)
      PROVE  PublishedIsWhole'
  <2>1. CASE Ask(j)
    BY <2>1, AskIsWhole
  <2>2. CASE Cancel(j) \/ Mark(j)
    BY <2>2, RestIsWhole DEF Cancel, Request, RequestCancel, Mark, MarkCancel, store
  <2>3. CASE \/ Submit(j) \/ Withdrawn(j) \/ Expire(j) \/ Poll(j)
             \/ Read(j) \/ Apply(j) \/ Abandon(j)
    BY <2>3, RestIsWhole DEF Submit, Withdrawn, Expire, Poll, Read, Apply, Abandon, store
  <2> QED
    BY <1>2, <2>1, <2>2, <2>3
<1>3. ASSUME NEW h \in Handlers,
             \/ LoseHeartbeat(h) \/ GiveUp(h) \/ Report(h)
             \/ \E j \in Jobs : ClaimNew(j, h)
             \/ HandlerStep(h) /\ UNCHANGED <<queue, call, deleting>>
      PROVE  PublishedIsWhole'
  <2>1. CASE HandlerStep(h)
    <3>1. StepInv /\ Live(h)
      BY <2>1, HandlerLives DEF WholeInv, EndsInv
    <3>2. DocumentServed(h)
      BY <2>1, <3>1, HandlerServes DEF Serves
    <3> QED
      BY <3>1, <3>2, ServedIsWhole
  <2>2. CASE GiveUp(h)
    BY <2>2, RestIsWhole DEF GiveUp, Request, RequestCancel, store
  <2>3. CASE LoseHeartbeat(h) \/ Report(h) \/ \E j \in Jobs : ClaimNew(j, h)
    BY <2>3, RestIsWhole DEF LoseHeartbeat, Report, ClaimNew, store
  <2> QED
    BY <1>3, <2>1, <2>2, <2>3
<1>4. CASE Archive \/ DeletePoints \/ DeleteDocument
  BY <1>4, RestIsWhole DEF Archive, DeletePoints, DeleteDocument, WholeInv, EndsInv
<1>5. CASE UNCHANGED vars
  BY <1>5, RestIsWhole DEF vars
<1>6. CASE Next
  BY <1>2, <1>3, <1>4, <1>6 DEF Next
<1> QED
  BY <1>5, <1>6

(* Where no lease expires under a thread, no acknowledgement of an intent  *)
(* is lost and no operator deletes documents, a published document has all *)
(* its chunks, and every point of it is of the version of the row that is  *)
(* published: neither a late thread nor recovery publishes a part of it    *)
(* (_verify_pending_points, set_document_status,    *)
(* recover_attempt).                  *)
THEOREM PublishedStaysWhole ==
    "expired" \notin Calls /\ "intent" \notin Failures /\ "delete" \notin Maintenance
        => (Spec => []PublishedIsWhole)
<1> SUFFICES ASSUME "expired" \notin Calls, "intent" \notin Failures, "delete" \notin Maintenance
             PROVE  Spec => []PublishedIsWhole
  OBVIOUS
<1>1. Init => WholeInv
  <2> SUFFICES ASSUME Init PROVE WholeInv
    OBVIOUS
  <2>1. document.status # "published"
    BY DEF Init, NoDocument
  <2> QED
    BY <2>1, EndsStart, AttemptsStart DEF WholeInv, PublishedIsWhole
<1>2. WholeInv /\ [Next]_vars => WholeInv'
  BY WholeStep
<1>3. WholeInv => PublishedIsWhole
  BY DEF WholeInv
<1> QED
  BY <1>1, <1>2, <1>3, PTL DEF Spec
=============================================================================
