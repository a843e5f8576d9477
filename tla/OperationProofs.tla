---------------------------- MODULE OperationProofs ----------------------------
(***************************************************************************)
(* Proofs about OperationLedger, for any number of operations, requests    *)
(* and processes, any batch size and any number of attempts, and about     *)
(* Deployment, for any releases, services and containers.                  *)
(*                                                                         *)
(* The invariant of the ledger has three layers.  ExecutorIsAlone says who *)
(* may still run a callback, whatever fails.  JournalKnows says what the   *)
(* record of an operation tells about its executor; it needs that an       *)
(* admission is never in doubt.  TrailIsExact ties the outbox and the      *)
(* audit trail to the records.                                             *)
(*                                                                         *)
(* Of an installation, the schema only grows, so what was observed to be   *)
(* enough for a release stays enough while abandoned jobs go on; and a job *)
(* carries a reviewed plan, of which it compares the observed schema with  *)
(* the present one in the transaction that applies it.                     *)
(***************************************************************************)
EXTENDS OperationLedger, Deployment, SequenceTheorems, WellFoundedInduction, TLAPS

(* A request between its admission and its release, other than one whose   *)
(* callback cannot start any more.                                         *)
Executing == {"admitted", "checked", "dispatched", "callback", "returned", "unsaved", "raised"}
BeforeCallback == {"admitted", "checked", "dispatched", "callback"}

(* One request at most may run, or have run, the callback of an operation: *)
(* the one that found no record.                                           *)
ExecutorIsAlone ==
    /\ \A r \in Requests : request[r].pc \in Executing \cup {"admit"} => OpOf(r) \in Workflows
    /\ \A r \in Requests : At(r, "owner") => OpOf(r) \in Atomics
    /\ \A r \in Requests : request[r].pc \in Executing => ledger[OpOf(r)] # NoRecord
    /\ \A r, q \in Requests :
          request[r].pc \in Executing /\ request[q].pc \in Executing /\ OpOf(r) = OpOf(q) => r = q
    /\ \A r \in Requests : request[r].pc \in BeforeCallback => effects[OpOf(r)] = 0
    /\ \A o \in Operations : effects[o] <= 1 /\ (ledger[o] = NoRecord => effects[o] = 0)

(* What the record says while its executor is at work.                     *)
RecordTells(r) ==
    LET rec == ledger[OpOf(r)]
        n == effects[OpOf(r)]
    IN /\ rec # NoRecord /\ rec.id = r /\ rec.owner = ProcOf(r)
       /\ request[r].pc \in {"admitted", "checked"} =>
             rec.phase = "admitted" /\ rec.status \in {"in_progress", "reconciled_no_effect"}
       /\ request[r].pc \in {"dispatched", "callback", "returned", "raised"} =>
             rec.phase = "dispatched" /\ rec.status = "in_progress"
       /\ At(r, "unsaved") =>
             \/ rec.phase = "dispatched" /\ rec.status = "in_progress"
             \/ rec.status = "completed"
       /\ request[r].pc \in {"returned", "unsaved"} => n = 1
       /\ At(r, "failing") => n = 0 /\ rec.status \in {"in_progress", "reconciled_no_effect"}

(* A request of a workflow that was admitted.                              *)
InExecution(r) == request[r].pc \in Executing \cup {"failing"} /\ OpOf(r) \in Workflows

(* What a record says of the effects of its operation.                     *)
RecordIsTrue(o) ==
    /\ o \in Atomics => ledger[o].status \notin Unresolved
    /\ ledger[o] # NoRecord /\ ledger[o].phase = "admitted" => effects[o] = 0
    /\ ledger[o].status \in {"failed", "reconciled_no_effect"} => effects[o] = 0
    /\ ledger[o].status \in {"completed", "reconciled_effect_confirmed"} => effects[o] = 1

JournalKnows ==
    /\ \A r \in Requests : InExecution(r) => RecordTells(r)
    /\ \A o \in Operations : RecordIsTrue(o)
    /\ operator.pc = "holding" /\ operator.resolution = "effect_confirmed" => effects[operator.op] > 0

(* The outbox holds one row for each outcome, and the trail no event that  *)
(* has no row.                                                             *)
TrailIsExact ==
    /\ TrailMatchesLedger
    /\ \A i, j \in DOMAIN outbox : Event(outbox[i]) = Event(outbox[j]) => i = j
    /\ \A e \in audit : \E i \in DOMAIN outbox : Event(outbox[i]) = e

-----------------------------------------------------------------------------
(* Typing *)

(* A set of naturals that is not empty has a least element, which is the   *)
(* row ProcessOnce blames.                                                 *)
LEMMA LeastNatural ==
    ASSUME NEW S, S \subseteq Nat, S # {}
    PROVE  \E i \in S : \A j \in S : i <= j
<1> DEFINE R == {ss \in Nat \X Nat : ss[1] < ss[2]}
<1>1. IsWellFoundedOn(R, Nat)
  BY NatLessThanWellFounded DEF OpToRel
<1>2. PICK i \in S : \A j \in S : <<j, i>> \notin R
  <2> HIDE DEF R
  <2> QED BY <1>1, WFMin
<1>3. ASSUME NEW j \in S PROVE i <= j
  <2>1. <<j, i>> \in Nat \X Nat
    OBVIOUS
  <2> QED
    BY <1>2, <2>1
<1> QED
  BY <1>3

(* A request that is not idle has an operation and a process.              *)
LEMMA RequestShape ==
    ASSUME LedgerTypeOK, NEW r \in Requests, request[r].pc # "idle"
    PROVE  /\ request[r] \in Request
           /\ OpOf(r) \in Operations /\ ProcOf(r) \in Processes
BY DEF LedgerTypeOK, Request, NoRequest, OpOf, ProcOf

LEMMA GoesType ==
    ASSUME LedgerTypeOK, NEW r \in Requests, request[r].pc # "idle",
           NEW pc \in {"admit", "owner", "admitted", "checked", "dispatched", "callback", "returned",
                       "unsaved", "failing", "raised", "releasing", "done"},
           Goes(r, pc)
    PROVE  request' \in [Requests -> Request \cup {NoRequest}]
<1>1. [request[r] EXCEPT !.pc = pc] \in Request
  BY RequestShape DEF Request
<1> QED
  BY <1>1 DEF LedgerTypeOK, Goes

(* A journal transaction writes a record and at most one outbox row.       *)
LEMMA SaveType ==
    ASSUME LedgerTypeOK, NEW o \in Operations, NEW rec \in Record, Save(o, rec)
    PROVE  /\ ledger' \in [Operations -> Record \cup {NoRecord}]
           /\ outbox' \in Seq(OutboxRow)
<1>1. ledger' \in [Operations -> Record \cup {NoRecord}]
  BY DEF LedgerTypeOK, Save
<1>2. CASE outbox' = outbox
  BY <1>1, <1>2 DEF LedgerTypeOK
<1>3. CASE outbox' # outbox
  <2> DEFINE row == [op |-> o, status |-> rec.status, state |-> "pending",
                     attempts |-> 0, due |-> TRUE, manual |-> 0]
  <2>1. rec.status \notin Unresolved /\ outbox' = Append(outbox, row)
    BY <1>3 DEF Save, AppendOutcome
  <2>2. rec.status \in Outcomes
    BY <2>1 DEF Record
  <2>3. row \in OutboxRow
    BY <2>2, LedgerAssumption DEF OutboxRow
  <2> QED
    BY <1>1, <2>1, <2>3 DEF LedgerTypeOK
<1> QED
  BY <1>2, <1>3

LEMMA RecordOfType ==
    ASSUME LedgerTypeOK, NEW r \in Requests, request[r].pc # "idle",
           NEW status \in Unresolved \cup Outcomes, NEW phase \in Phases
    PROVE  RecordOf(r, status, phase) \in Record
BY RequestShape DEF RecordOf, Record

(* A transaction that rolls back, and one that is not begun, write         *)
(* nothing.                                                                *)
LEMMA TransactsType ==
    ASSUME LedgerTypeOK, NEW o \in Operations, NEW rec \in Record, NEW commit,
           Transacts(commit, Save(o, rec)) \/ Skip
    PROVE  /\ ledger' \in [Operations -> Record \cup {NoRecord}]
           /\ outbox' \in Seq(OutboxRow)
BY SaveType DEF Transacts, Skip, LedgerTypeOK

LEMMA FailedType ==
    ASSUME LedgerTypeOK, NEW r \in Requests, At(r, "failing") \/ At(r, "raised")
    PROVE  Failed(r) \in Record
<1>1. request[r].pc # "idle"
  BY DEF At
<1> QED
  BY <1>1, RecordOfType DEF Failed, At, Unresolved, Outcomes, Phases

(* Every step of run_operation keeps the types.                            *)
LEMMA RunOperationType ==
    ASSUME LedgerTypeOK, RunOperation
    PROVE  LedgerTypeOK'
<1> USE DEF LedgerTypeOK
<1> PICK r \in Requests :
       \/ \E o \in Operations, p \in Processes : StartRequest(r, o, p)
       \/ AdmitRequest(r) \/ AssertHeld(r) \/ Dispatch(r) \/ Callback(r) \/ Complete(r)
       \/ RequireReconciliation(r) \/ RunAtomic(r) \/ RecordFailure(r) \/ Release(r)
  BY DEF RunOperation
<1>1. ASSUME NEW o \in Operations, NEW p \in Processes, StartRequest(r, o, p)
      PROVE  LedgerTypeOK'
  <2>1. \A pc \in {"owner", "admit", "done"} : [pc |-> pc, op |-> o, proc |-> p] \in Request
    BY DEF Request
  <2> QED
    BY <1>1, <2>1 DEF StartRequest
<1>2. CASE AdmitRequest(r)
  <2>1. request[r].pc # "idle" /\ OpOf(r) \in Operations
    BY <1>2, RequestShape DEF AdmitRequest, At
  <2>2. RecordOf(r, "in_progress", "admitted") \in Record
    BY <2>1, RecordOfType DEF Unresolved, Phases
  <2>3. ledger' \in [Operations -> Record \cup {NoRecord}] /\ outbox' \in Seq(OutboxRow)
    BY <1>2, <2>1, <2>2, TransactsType DEF AdmitRequest
  <2>4. request' \in [Requests -> Request \cup {NoRequest}]
    BY <1>2, <2>1, GoesType DEF AdmitRequest
  <2> QED
    BY <1>2, <2>3, <2>4 DEF AdmitRequest
<1>3. CASE AssertHeld(r)
  <2>1. request[r].pc # "idle"
    BY <1>3 DEF AssertHeld, At
  <2>2. request' \in [Requests -> Request \cup {NoRequest}]
    BY <1>3, <2>1, GoesType DEF AssertHeld
  <2> QED
    BY <1>3, <2>2 DEF AssertHeld
<1>4. CASE Dispatch(r)
  <2>1. request[r].pc # "idle" /\ OpOf(r) \in Operations
    BY <1>4, RequestShape DEF Dispatch, At
  <2>2. RecordOf(r, "in_progress", "dispatched") \in Record
    BY <2>1, RecordOfType DEF Unresolved, Phases
  <2>3. ledger' \in [Operations -> Record \cup {NoRecord}] /\ outbox' \in Seq(OutboxRow)
    BY <1>4, <2>1, <2>2, TransactsType DEF Dispatch
  <2>4. request' \in [Requests -> Request \cup {NoRequest}]
    BY <1>4, <2>1, GoesType DEF Dispatch
  <2> QED
    BY <1>4, <2>3, <2>4 DEF Dispatch
<1>5. CASE Callback(r)
  <2>1. request[r].pc # "idle" /\ OpOf(r) \in Operations
    BY <1>5, RequestShape DEF Callback, At
  <2>2. request' \in [Requests -> Request \cup {NoRequest}]
    BY <1>5, <2>1, GoesType DEF Callback
  <2>3. effects' \in [Operations -> Nat]
    BY <1>5, <2>1 DEF Callback
  <2> QED
    BY <1>5, <2>2, <2>3 DEF Callback
<1>6. CASE Complete(r)
  <2>1. request[r].pc # "idle" /\ OpOf(r) \in Operations
    BY <1>6, RequestShape DEF Complete, At
  <2>2. RecordOf(r, "completed", "returned") \in Record
    BY <2>1, RecordOfType DEF Outcomes, Phases
  <2>3. ledger' \in [Operations -> Record \cup {NoRecord}] /\ outbox' \in Seq(OutboxRow)
    BY <1>6, <2>1, <2>2, TransactsType DEF Complete
  <2>4. request' \in [Requests -> Request \cup {NoRequest}]
    BY <1>6, <2>1, GoesType DEF Complete
  <2> QED
    BY <1>6, <2>3, <2>4 DEF Complete
<1>7. CASE RequireReconciliation(r)
  <2>1. request[r].pc # "idle" /\ OpOf(r) \in Operations
    BY <1>7, RequestShape DEF RequireReconciliation, At
  <2>2. RecordOf(r, "reconciliation_required", "returned") \in Record
    BY <2>1, RecordOfType DEF Unresolved, Phases
  <2>3. ledger' \in [Operations -> Record \cup {NoRecord}] /\ outbox' \in Seq(OutboxRow)
    BY <1>7, <2>1, <2>2, TransactsType DEF RequireReconciliation
  <2>4. request' \in [Requests -> Request \cup {NoRequest}]
    BY <1>7, <2>1, GoesType DEF RequireReconciliation
  <2> QED
    BY <1>7, <2>3, <2>4 DEF RequireReconciliation
<1>8. CASE RunAtomic(r)
  <2>1. request[r].pc # "idle" /\ OpOf(r) \in Operations
    BY <1>8, RequestShape DEF RunAtomic, At
  <2>2. RecordOf(r, "completed", "returned") \in Record
    BY <2>1, RecordOfType DEF Outcomes, Phases
  <2>3. ledger' \in [Operations -> Record \cup {NoRecord}] /\ outbox' \in Seq(OutboxRow)
    BY <1>8, <2>1, <2>2, TransactsType DEF RunAtomic
  <2>4. request' \in [Requests -> Request \cup {NoRequest}]
    BY <1>8, <2>1, GoesType DEF RunAtomic
  <2>5. effects' \in [Operations -> Nat]
    BY <1>8, <2>1 DEF RunAtomic
  <2> QED
    BY <1>8, <2>3, <2>4, <2>5 DEF RunAtomic
<1>9. CASE RecordFailure(r)
  <2>1. request[r].pc # "idle" /\ OpOf(r) \in Operations
    BY <1>9, RequestShape DEF RecordFailure, At
  <2>2. Failed(r) \in Record
    BY <1>9, FailedType DEF RecordFailure
  <2>3. ledger' \in [Operations -> Record \cup {NoRecord}] /\ outbox' \in Seq(OutboxRow)
    BY <1>9, <2>1, <2>2, TransactsType DEF RecordFailure
  <2>4. request' \in [Requests -> Request \cup {NoRequest}]
    BY <1>9, <2>1, GoesType DEF RecordFailure
  <2> QED
    BY <1>9, <2>3, <2>4 DEF RecordFailure
<1>10. CASE Release(r)
  <2>1. request[r].pc # "idle"
    BY <1>10 DEF Release, At
  <2>2. request' \in [Requests -> Request \cup {NoRequest}]
    BY <1>10, <2>1, GoesType DEF Release
  <2>3. guard' \in [Workflows -> Requests \cup {"operator", "none"}]
    BY <1>10 DEF Release, Freed
  <2> QED
    BY <1>10, <2>2, <2>3 DEF Release
<1> QED
  BY <1>1, <1>2, <1>3, <1>4, <1>5, <1>6, <1>7, <1>8, <1>9, <1>10

(* Every step of reconcile_operation keeps the types.                      *)
LEMMA ReconciliationType ==
    ASSUME LedgerTypeOK, Reconciliation
    PROVE  LedgerTypeOK'
<1> USE DEF LedgerTypeOK
<1>1. ASSUME NEW o \in Workflows, NEW p \in Processes, NEW resolution \in Resolutions,
             BeginReconcile(o, p, resolution)
      PROVE  LedgerTypeOK'
  BY <1>1 DEF BeginReconcile, Operator
<1>2. CASE ReconcileOperation
  <2>1. operator \in Operator
    BY <1>2 DEF ReconcileOperation, NoOperator
  <2>2. operator' \in Operator
    BY <1>2, <2>1 DEF ReconcileOperation, Operator
  <2>3. operator.op \in Operations /\ operator.resolution \in Resolutions
    BY <2>1 DEF Operator, Operations
  <2>4. CASE UNCHANGED <<ledger, outbox>>
    BY <1>2, <2>2, <2>4 DEF ReconcileOperation
  <2>5. CASE Save(operator.op, [ledger[operator.op] EXCEPT !.status = Reconciled(operator.resolution)])
             /\ ledger[operator.op].status \in Unresolved
    <3>1. ledger[operator.op] \in Record
      BY <2>3, <2>5 DEF NoRecord, Unresolved
    <3>2. [ledger[operator.op] EXCEPT !.status = Reconciled(operator.resolution)] \in Record
      BY <3>1 DEF Record, Reconciled, Outcomes
    <3>3. ledger' \in [Operations -> Record \cup {NoRecord}] /\ outbox' \in Seq(OutboxRow)
      BY <2>3, <2>5, <3>2, SaveType
    <3> QED
      BY <1>2, <2>2, <3>3 DEF ReconcileOperation
  <2> QED
    BY <1>2, <2>4, <2>5 DEF ReconcileOperation, Transacts, Skip, MayReconcile, Unresolved
<1>3. CASE EndReconcile
  BY <1>3 DEF EndReconcile, Freed
<1> QED
  BY <1>1, <1>2, <1>3 DEF Reconciliation

(* The forms in which a row of the outbox changes.                         *)
LEMMA RowChanges ==
    ASSUME NEW row \in OutboxRow
    PROVE  /\ [row EXCEPT !.state = "published"] \in OutboxRow
           /\ [row EXCEPT !.due = TRUE] \in OutboxRow
           /\ \A n \in 0..MaxAttempts :
                 /\ [row EXCEPT !.attempts = n, !.state = "dead"] \in OutboxRow
                 /\ [row EXCEPT !.attempts = n, !.due = FALSE] \in OutboxRow
           /\ \A n \in 0..MaxAttempts, m \in 0..MaxManual :
                 [row EXCEPT !.state = "pending", !.attempts = n, !.due = TRUE, !.manual = m] \in OutboxRow
BY Zenon DEF OutboxRow

(* Every step of the projector keeps the types.                            *)
LEMMA ProjectionType ==
    ASSUME LedgerTypeOK, Projection
    PROVE  LedgerTypeOK'
<1> USE DEF LedgerTypeOK
<1>1. \A i \in DOMAIN outbox : outbox[i] \in OutboxRow /\ Event(outbox[i]) \in [op : Operations, status : Outcomes]
  <2>1. \A i \in DOMAIN outbox : outbox[i] \in OutboxRow
    OBVIOUS
  <2>2. \A row \in OutboxRow : row.op \in Operations /\ row.status \in Outcomes
    BY Zenon DEF OutboxRow
  <2> QED
    BY <2>1, <2>2 DEF Event
<1>2. ASSUME NEW f, DOMAIN f = DOMAIN outbox, \A i \in DOMAIN outbox : f[i] \in OutboxRow,
             f = [i \in DOMAIN outbox |-> f[i]]
      PROVE  f \in Seq(OutboxRow)
  <2>1. DOMAIN outbox = 1..Len(outbox) /\ Len(outbox) \in Nat
    OBVIOUS
  <2> QED
    BY <1>2, <2>1, IsASeq
<1>3. CASE ProcessOnce
  <2>1. Batch \subseteq DOMAIN outbox
    BY DEF Batch, Due
  <2> DEFINE bad == {i \in Batch : outbox[i].op \in Unprojectable}
             events == {Event(outbox[i]) : i \in Batch}
             published == [i \in DOMAIN outbox |->
                 IF i \in Batch THEN [outbox[i] EXCEPT !.state = "published"] ELSE outbox[i]]
  <2>2. events \subseteq [op : Operations, status : Outcomes]
    BY <1>1, <2>1
  <2>3. published \in Seq(OutboxRow)
    <3>1. \A i \in DOMAIN outbox : published[i] \in OutboxRow
      BY <1>1 DEF OutboxRow
    <3> HIDE DEF published
    <3>2. DOMAIN published = DOMAIN outbox /\ published = [i \in DOMAIN outbox |-> published[i]]
      BY DEF published
    <3> QED
      BY <1>2, <3>1, <3>2
  <2>4. CASE bad # {}
    <3> DEFINE least == CHOOSE i \in bad : \A j \in bad : i <= j
    <3>1. bad \subseteq Nat /\ bad \subseteq DOMAIN outbox
      BY <2>1
    <3>2. least \in bad
      <4> HIDE DEF bad
      <4>1. \E i \in bad : \A j \in bad : i <= j
        BY <2>4, <3>1, LeastNatural
      <4> QED
        BY <4>1
    <3>3. Event(outbox[least]) \in [op : Operations, status : Outcomes]
      BY <1>1, <3>1, <3>2
    <3>4. projector' = {Event(outbox[least])} /\ UNCHANGED <<outbox, audit>>
      BY <1>3, <2>4 DEF ProcessOnce
    <3> QED
      BY <1>3, <3>3, <3>4 DEF ProcessOnce
  <2>5. CASE bad = {}
    <3>1. /\ outbox' = outbox \/ outbox' = published
          /\ audit' = audit \/ audit' = audit \cup events
          /\ projector' = {} \/ projector' = events
      BY <1>3, <2>5 DEF ProcessOnce
    <3> HIDE DEF published, events
    <3> QED
      BY <1>3, <2>2, <2>3, <3>1 DEF ProcessOnce
  <2> QED
    BY <2>4, <2>5
<1>4. CASE RecordFailures
  <2>1. outbox' = [i \in DOMAIN outbox |-> outbox'[i]] /\ DOMAIN outbox' = DOMAIN outbox
    BY <1>4 DEF RecordFailures
  <2>2. ASSUME NEW i \in DOMAIN outbox PROVE outbox'[i] \in OutboxRow
    <3>1. outbox[i] \in OutboxRow /\ outbox[i].attempts \in 0..MaxAttempts
      BY <1>1 DEF OutboxRow
    <3>2. outbox'[i] = IF ~Blamed(outbox[i]) THEN outbox[i]
                       ELSE IF outbox[i].attempts + 1 >= MaxAttempts
                       THEN [outbox[i] EXCEPT !.attempts = MaxAttempts, !.state = "dead"]
                       ELSE [outbox[i] EXCEPT !.attempts = @ + 1, !.due = FALSE]
      BY <1>4 DEF RecordFailures
    <3> QED
      <4>1. CASE outbox[i].attempts + 1 >= MaxAttempts
        <5>1. MaxAttempts \in 0..MaxAttempts
          BY LedgerAssumption
        <5> QED
          BY <3>1, <3>2, <4>1, <5>1, RowChanges
      <4>2. CASE ~(outbox[i].attempts + 1 >= MaxAttempts)
        <5>1. outbox[i].attempts + 1 \in 0..MaxAttempts
          BY <3>1, <4>2, LedgerAssumption
        <5>2. [outbox[i] EXCEPT !.attempts = outbox[i].attempts + 1, !.due = FALSE] \in OutboxRow
          BY <3>1, <5>1, RowChanges
        <5> QED
          BY <3>1, <3>2, <4>2, <5>2
      <4> QED
        BY <4>1, <4>2
  <2>3. outbox' \in Seq(OutboxRow)
    BY <1>2, <2>1, <2>2
  <2> QED
    BY <1>4, <2>3 DEF RecordFailures
<1>5. ASSUME NEW i \in DOMAIN outbox, BackoffEnds(i) \/ RetryDeadLetter(i)
      PROVE  LedgerTypeOK'
  <2> DEFINE again == [outbox[i] EXCEPT !.state = "pending", !.attempts = 0, !.due = TRUE, !.manual = @ + 1]
  <2>1. outbox[i] \in OutboxRow /\ outbox[i].manual \in 0..MaxManual /\ MaxManual \in Nat /\ MaxAttempts \in Nat
    BY <1>1, LedgerAssumption DEF OutboxRow
  <2>2. outbox' \in Seq(OutboxRow)
    <3>1. CASE BackoffEnds(i)
      <4>1. [outbox[i] EXCEPT !.due = TRUE] \in OutboxRow
        BY <2>1 DEF OutboxRow
      <4>2. outbox' = [outbox EXCEPT ![i] = [outbox[i] EXCEPT !.due = TRUE]]
        BY <3>1 DEF BackoffEnds
      <4> QED
        BY <4>1, <4>2, ExceptSeq
    <3>2. CASE RetryDeadLetter(i)
      <4>1. outbox[i].manual + 1 \in 0..MaxManual
        BY <2>1, <3>2 DEF RetryDeadLetter
      <4>2. again \in OutboxRow
        <5>1. 0 \in 0..MaxAttempts
          BY <2>1
        <5> QED
          BY <2>1, <4>1, <5>1, RowChanges
      <4>3. outbox' = [outbox EXCEPT ![i] = again]
        BY <3>2 DEF RetryDeadLetter
      <4> QED
        BY <4>2, <4>3, ExceptSeq
    <3> QED
      BY <1>5, <3>1, <3>2
  <2> QED
    BY <1>5, <2>2 DEF BackoffEnds, RetryDeadLetter
<1> QED
  BY <1>3, <1>4, <1>5 DEF Projection

(* A lost session and a crash keep the types.                              *)
LEMMA LedgerFaultType ==
    ASSUME LedgerTypeOK, LedgerFault
    PROVE  LedgerTypeOK'
<1> USE DEF LedgerTypeOK
<1>1. ASSUME NEW o \in Workflows, SessionLost(o)
      PROVE  LedgerTypeOK'
  BY <1>1 DEF SessionLost
<1>2. ASSUME NEW p \in Processes, CrashProcess(p)
      PROVE  LedgerTypeOK'
  <2>1. \A r \in Requests : Active(r) => [request[r] EXCEPT !.pc = "done"] \in Request
    BY RequestShape DEF Active, Request
  <2>2. request' \in [Requests -> Request \cup {NoRequest}]
    BY <1>2, <2>1, LedgerAssumption DEF CrashProcess
  <2>3. guard' \in [Workflows -> Requests \cup {"operator", "none"}]
    BY <1>2 DEF CrashProcess
  <2>4. operator' \in Operator \cup {NoOperator}
    BY <1>2 DEF CrashProcess
  <2> QED
    BY <1>2, <2>2, <2>3, <2>4 DEF CrashProcess
<1> QED
  BY <1>1, <1>2 DEF LedgerFault

LEMMA LedgerTypeStep ==
    ASSUME LedgerTypeOK, [LedgerNext]_ledgerVars
    PROVE  LedgerTypeOK'
<1>1. CASE UNCHANGED ledgerVars
  BY <1>1 DEF LedgerTypeOK, ledgerVars
<1> QED
  BY <1>1, RunOperationType, ReconciliationType, ProjectionType, LedgerFaultType DEF LedgerNext

LEMMA LedgerTypeInit ==
    ASSUME LedgerInit
    PROVE  LedgerTypeOK
BY DEF LedgerInit, LedgerTypeOK

-----------------------------------------------------------------------------
(* At most one execution *)

(* What `Goes` leaves alone.                                               *)
LEMMA GoesFrame ==
    ASSUME LedgerTypeOK, NEW r \in Requests, request[r].pc # "idle", NEW pc, Goes(r, pc)
    PROVE  /\ request'[r].pc = pc
           /\ OpOf(r)' = OpOf(r) /\ ProcOf(r)' = ProcOf(r)
           /\ \A q \in Requests : q # r => request'[q] = request[q]
<1>1. request[r] \in Request
  BY RequestShape
<1> QED
  BY <1>1 DEF LedgerTypeOK, Goes, OpOf, ProcOf, Request

(* No transaction of the journal deletes a record, or touches another one. *)
LEMMA JournalGrows ==
    ASSUME LedgerTypeOK, NEW o \in Operations, NEW rec \in Record, NEW commit,
           Transacts(commit, Save(o, rec)) \/ Skip
    PROVE  /\ ledger' = ledger \/ ledger'[o] = rec
           /\ \A x \in Operations : x # o => ledger'[x] = ledger[x]
           /\ \A x \in Operations : ledger[x] # NoRecord => ledger'[x] # NoRecord
<1>1. rec # NoRecord
  BY DEF Record, NoRecord, Unresolved, Outcomes
<1> QED
  BY <1>1 DEF LedgerTypeOK, Transacts, Save, Skip

(* A request that moves on without an effect leaves the executor alone.    *)
LEMMA ExecutorMoves ==
    ASSUME LedgerTypeOK, ExecutorIsAlone, NEW r \in Requests, request[r].pc # "idle",
           NEW pc, Goes(r, pc), UNCHANGED effects,
           \A x \in Operations : ledger[x] # NoRecord => ledger'[x] # NoRecord,
           pc \in Executing => request[r].pc \in Executing,
           pc \in BeforeCallback => request[r].pc \in BeforeCallback,
           pc \notin {"admit", "owner"}
    PROVE  ExecutorIsAlone'
<1>1. /\ request'[r].pc = pc
      /\ OpOf(r)' = OpOf(r)
      /\ \A q \in Requests : q # r => request'[q] = request[q]
  BY GoesFrame
<1>2. \A q \in Requests : request[q].pc \in Executing => OpOf(q) \in Operations
  BY DEF ExecutorIsAlone, Operations
<1> QED
  BY <1>1, <1>2 DEF ExecutorIsAlone, OpOf, At

LEMMA RunOperationAlone ==
    ASSUME LedgerTypeOK, ExecutorIsAlone, RunOperation
    PROVE  ExecutorIsAlone'
<1> PICK r \in Requests :
       \/ \E o \in Operations, p \in Processes : StartRequest(r, o, p)
       \/ AdmitRequest(r) \/ AssertHeld(r) \/ Dispatch(r) \/ Callback(r) \/ Complete(r)
       \/ RequireReconciliation(r) \/ RunAtomic(r) \/ RecordFailure(r) \/ Release(r)
  BY DEF RunOperation
<1>1. ASSUME NEW o \in Operations, NEW p \in Processes, StartRequest(r, o, p)
      PROVE  ExecutorIsAlone'
  <2>1. /\ request'[r].pc \in {"owner", "admit", "done"}
        /\ request'[r].pc = "owner" => request'[r].op \in Atomics
        /\ request'[r].pc = "admit" => request'[r].op \in Workflows
        /\ \A q \in Requests : q # r => request'[q] = request[q]
        /\ UNCHANGED <<ledger, effects>>
    BY <1>1 DEF StartRequest, LedgerTypeOK
  <2> QED
    BY <2>1 DEF ExecutorIsAlone, OpOf, At, Executing, BeforeCallback
<1>2. CASE AdmitRequest(r)
  <2>1. request[r].pc = "admit" /\ OpOf(r) \in Workflows /\ OpOf(r) \in Operations
    BY <1>2 DEF AdmitRequest, At, ExecutorIsAlone, Operations
  <2>2. RecordOf(r, "in_progress", "admitted") \in Record
    BY <2>1, RecordOfType DEF Unresolved, Phases
  <2>3. \A x \in Operations : ledger[x] # NoRecord => ledger'[x] # NoRecord
    BY <1>2, <2>1, <2>2, JournalGrows DEF AdmitRequest
  <2>4. CASE Goes(r, "admitted") /\ MayAdmit(r) /\ Save(OpOf(r), RecordOf(r, "in_progress", "admitted"))
    <3>1. /\ request'[r].pc = "admitted"
          /\ OpOf(r)' = OpOf(r)
          /\ \A q \in Requests : q # r => request'[q] = request[q]
      BY <2>1, <2>4, GoesFrame
    <3>2. ledger[OpOf(r)] = NoRecord /\ ledger'[OpOf(r)] # NoRecord
      BY <2>1, <2>2, <2>4 DEF MayAdmit, Save, Record, NoRecord, LedgerTypeOK, Unresolved, Outcomes
    <3>3. \A q \in Requests : request[q].pc \in Executing => OpOf(q) \in Operations /\ OpOf(q) # OpOf(r)
      BY <3>2 DEF ExecutorIsAlone, Operations
    <3>4. UNCHANGED effects
      BY <1>2 DEF AdmitRequest
    <3> QED
      BY <2>1, <2>3, <3>1, <3>2, <3>3, <3>4 DEF ExecutorIsAlone, OpOf, At, Executing, BeforeCallback
  <2>5. CASE Goes(r, "failing") \/ Goes(r, "releasing")
    BY <1>2, <2>1, <2>3, <2>5, ExecutorMoves DEF AdmitRequest, Executing, BeforeCallback
  <2> QED
    BY <1>2, <2>4, <2>5 DEF AdmitRequest, Transacts
<1>3. CASE AssertHeld(r)
  <2>1. UNCHANGED <<ledger, effects>> /\ request[r].pc \in {"admitted", "dispatched"}
    BY <1>3 DEF AssertHeld, At
  <2>2. Goes(r, "checked") \/ Goes(r, "callback") \/ Goes(r, "failing")
    BY <1>3 DEF AssertHeld
  <2> QED
    BY <2>1, <2>2, ExecutorMoves DEF Executing, BeforeCallback
<1>4. CASE Dispatch(r)
  <2>1. request[r].pc = "checked" /\ OpOf(r) \in Operations
    BY <1>4 DEF Dispatch, At, ExecutorIsAlone, Operations, Executing
  <2>2. RecordOf(r, "in_progress", "dispatched") \in Record
    BY <2>1, RecordOfType DEF Unresolved, Phases
  <2>3. \A x \in Operations : ledger[x] # NoRecord => ledger'[x] # NoRecord
    BY <1>4, <2>1, <2>2, JournalGrows DEF Dispatch
  <2>4. UNCHANGED effects /\ (Goes(r, "dispatched") \/ Goes(r, "failing"))
    BY <1>4 DEF Dispatch
  <2> QED
    BY <2>1, <2>3, <2>4, ExecutorMoves DEF Executing, BeforeCallback
<1>5. CASE Callback(r)
  <2>1. request[r].pc = "callback" /\ OpOf(r) \in Operations /\ UNCHANGED ledger
    BY <1>5 DEF Callback, At, ExecutorIsAlone, Operations, Executing
  <2>2. PICK pc \in {"returned", "raised"} : Goes(r, pc)
    BY <1>5 DEF Callback
  <2>3. /\ request'[r].pc = pc
        /\ OpOf(r)' = OpOf(r)
        /\ \A q \in Requests : q # r => request'[q] = request[q]
    BY <2>1, <2>2, GoesFrame
  <2>4. /\ effects'[OpOf(r)] <= 1
        /\ \A o \in Operations : o # OpOf(r) => effects'[o] = effects[o]
    BY <1>5, <2>1 DEF Callback, LedgerTypeOK, ExecutorIsAlone, BeforeCallback
  <2>5. \A q \in Requests : q # r /\ request[q].pc \in Executing => OpOf(q) \in Operations /\ OpOf(q) # OpOf(r)
    BY <2>1 DEF ExecutorIsAlone, Operations, Executing
  <2>6. ledger[OpOf(r)] # NoRecord
    BY <2>1 DEF ExecutorIsAlone, Executing
  <2> QED
    BY <2>1, <2>2, <2>3, <2>4, <2>5, <2>6 DEF ExecutorIsAlone, OpOf, At, Executing, BeforeCallback
<1>6. CASE Complete(r)
  <2>1. request[r].pc = "returned" /\ OpOf(r) \in Operations
    BY <1>6 DEF Complete, At, ExecutorIsAlone, Operations, Executing
  <2>2. RecordOf(r, "completed", "returned") \in Record
    BY <2>1, RecordOfType DEF Outcomes, Phases
  <2>3. \A x \in Operations : ledger[x] # NoRecord => ledger'[x] # NoRecord
    BY <1>6, <2>1, <2>2, JournalGrows DEF Complete
  <2>4. UNCHANGED effects /\ (Goes(r, "releasing") \/ Goes(r, "unsaved"))
    BY <1>6 DEF Complete
  <2> QED
    BY <2>1, <2>3, <2>4, ExecutorMoves DEF Executing, BeforeCallback
<1>7. CASE RequireReconciliation(r)
  <2>1. request[r].pc = "unsaved" /\ OpOf(r) \in Operations
    BY <1>7 DEF RequireReconciliation, At, ExecutorIsAlone, Operations, Executing
  <2>2. RecordOf(r, "reconciliation_required", "returned") \in Record
    BY <2>1, RecordOfType DEF Unresolved, Phases
  <2>3. \A x \in Operations : ledger[x] # NoRecord => ledger'[x] # NoRecord
    BY <1>7, <2>1, <2>2, JournalGrows DEF RequireReconciliation
  <2> QED
    BY <1>7, <2>1, <2>3, ExecutorMoves DEF RequireReconciliation, Executing, BeforeCallback
<1>8. CASE RunAtomic(r)
  <2>1. request[r].pc = "owner" /\ OpOf(r) \in Atomics /\ OpOf(r) \in Operations
    BY <1>8 DEF RunAtomic, At, ExecutorIsAlone, Operations
  <2>2. RecordOf(r, "completed", "returned") \in Record
    BY <2>1, RecordOfType DEF Outcomes, Phases
  <2>3. \A x \in Operations : ledger[x] # NoRecord => ledger'[x] # NoRecord
    BY <1>8, <2>1, <2>2, JournalGrows DEF RunAtomic
  <2>4. PICK pc \in {"releasing", "failing"} : Goes(r, pc)
    BY <1>8 DEF RunAtomic
  <2>5. CASE UNCHANGED effects
    BY <2>1, <2>3, <2>4, <2>5, ExecutorMoves DEF Executing, BeforeCallback
  <2>6. CASE effects' # effects
    <3>1. /\ ledger[OpOf(r)] = NoRecord
          /\ Save(OpOf(r), RecordOf(r, "completed", "returned"))
          /\ effects' = [effects EXCEPT ![OpOf(r)] = @ + 1]
      BY <1>8, <2>1, <2>6 DEF RunAtomic, Transacts, LedgerTypeOK
    <3>2. ledger'[OpOf(r)] # NoRecord
      BY <2>1, <2>2, <3>1 DEF Save, Record, NoRecord, LedgerTypeOK, Unresolved, Outcomes
    <3>3. /\ effects'[OpOf(r)] <= 1
          /\ \A o \in Operations : o # OpOf(r) => effects'[o] = effects[o]
      BY <2>1, <3>1 DEF LedgerTypeOK, ExecutorIsAlone
    <3>4. /\ request'[r].pc = pc
          /\ OpOf(r)' = OpOf(r)
          /\ \A q \in Requests : q # r => request'[q] = request[q]
      BY <2>1, <2>4, GoesFrame
    <3>5. \A q \in Requests : request[q].pc \in Executing => OpOf(q) \in Operations /\ OpOf(q) # OpOf(r)
      BY <3>1 DEF ExecutorIsAlone, Operations
    <3> QED
      BY <2>1, <2>3, <2>4, <3>2, <3>3, <3>4, <3>5 DEF ExecutorIsAlone, OpOf, At, Executing, BeforeCallback
  <2> QED
    BY <2>5, <2>6
<1>9. CASE RecordFailure(r)
  <2>1. request[r].pc # "idle" /\ OpOf(r) \in Operations
    BY <1>9, RequestShape DEF RecordFailure, At
  <2>2. Failed(r) \in Record
    BY <1>9, FailedType DEF RecordFailure
  <2>3. \A x \in Operations : ledger[x] # NoRecord => ledger'[x] # NoRecord
    BY <1>9, <2>1, <2>2, JournalGrows DEF RecordFailure
  <2> QED
    BY <1>9, <2>1, <2>3, ExecutorMoves DEF RecordFailure, Executing, BeforeCallback
<1>10. CASE Release(r)
  <2>1. UNCHANGED <<ledger, effects>> /\ request[r].pc # "idle" /\ Goes(r, "done")
    BY <1>10 DEF Release, At
  <2> QED
    BY <2>1, ExecutorMoves DEF Executing, BeforeCallback
<1> QED
  BY <1>1, <1>2, <1>3, <1>4, <1>5, <1>6, <1>7, <1>8, <1>9, <1>10

(* Whoever stays in an execution was in it, and the journal only grows.    *)
LEMMA OthersLeaveAlone ==
    ASSUME LedgerTypeOK, ExecutorIsAlone, UNCHANGED effects,
           \A x \in Operations : ledger[x] # NoRecord => ledger'[x] # NoRecord,
           \A q \in Requests : request'[q] = request[q] \/ request'[q].pc = "done"
    PROVE  ExecutorIsAlone'
<1>1. \A q \in Requests : request[q].pc \in Executing => OpOf(q) \in Operations
  BY DEF ExecutorIsAlone, Operations
<1> QED
  BY <1>1 DEF ExecutorIsAlone, OpOf, At, Executing, BeforeCallback

LEMMA ExecutorStep ==
    ASSUME LedgerTypeOK, ExecutorIsAlone, [LedgerNext]_ledgerVars
    PROVE  ExecutorIsAlone'
<1>1. CASE RunOperation
  BY <1>1, RunOperationAlone
<1>2. CASE Reconciliation
  <2>1. UNCHANGED <<request, effects>>
    BY <1>2 DEF Reconciliation, BeginReconcile, ReconcileOperation, EndReconcile
  <2>2. \A x \in Operations : ledger[x] # NoRecord => ledger'[x] # NoRecord
    <3>1. CASE ReconcileOperation
      <4>1. operator \in Operator /\ operator.op \in Operations
        BY <3>1 DEF ReconcileOperation, LedgerTypeOK, NoOperator, Operator, Operations
      <4>2. CASE UNCHANGED ledger
        BY <4>2
      <4>3. CASE /\ ledger[operator.op].status \in Unresolved
                 /\ Save(operator.op, [ledger[operator.op] EXCEPT !.status = Reconciled(operator.resolution)])
        <5>1. ledger[operator.op] \in Record
          BY <4>1, <4>3 DEF LedgerTypeOK, NoRecord, Unresolved
        <5>2. [ledger[operator.op] EXCEPT !.status = Reconciled(operator.resolution)] \in Record
          BY <5>1 DEF Record, Reconciled, Outcomes
        <5> QED
          BY <4>1, <4>3, <5>2, JournalGrows DEF Transacts
      <4> QED
        BY <3>1, <4>2, <4>3 DEF ReconcileOperation, Transacts, Skip, MayReconcile, Unresolved
    <3> QED
      BY <1>2, <3>1 DEF Reconciliation, BeginReconcile, EndReconcile
  <2> QED
    BY <2>1, <2>2, OthersLeaveAlone
<1>3. CASE Projection
  <2>1. UNCHANGED <<ledger, request, effects>>
    BY <1>3 DEF Projection, ProcessOnce, RecordFailures, BackoffEnds, RetryDeadLetter
  <2> QED
    BY <2>1, OthersLeaveAlone
<1>4. CASE LedgerFault
  <2>1. UNCHANGED <<ledger, effects>>
    BY <1>4 DEF LedgerFault, SessionLost, CrashProcess
  <2>2. \A q \in Requests : request'[q] = request[q] \/ request'[q].pc = "done"
    <3>1. ASSUME NEW p \in Processes, CrashProcess(p), NEW q \in Requests
          PROVE  request'[q] = request[q] \/ request'[q].pc = "done"
      <4>1. request'[q] = request[q] \/ (request'[q] = [request[q] EXCEPT !.pc = "done"] /\ Active(q))
        BY <3>1, LedgerAssumption DEF CrashProcess
      <4> QED
        BY <4>1, RequestShape DEF Active, Request
    <3> QED
      BY <1>4, <3>1 DEF LedgerFault, SessionLost
  <2> QED
    BY <2>1, <2>2, OthersLeaveAlone
<1>5. CASE UNCHANGED ledgerVars
  <2>1. UNCHANGED <<ledger, request, effects>>
    BY <1>5 DEF ledgerVars
  <2> QED
    BY <2>1, OthersLeaveAlone
<1> QED
  BY <1>1, <1>2, <1>3, <1>4, <1>5 DEF LedgerNext

-----------------------------------------------------------------------------
(* The journal tells the truth *)

(* Two requests in the execution of one operation are the same.            *)
LEMMA OneInExecution ==
    ASSUME JournalKnows, NEW r \in Requests, NEW q \in Requests,
           InExecution(r), InExecution(q), OpOf(r) = OpOf(q)
    PROVE  r = q
BY DEF JournalKnows, InExecution, RecordTells

(* A step of one request concerns the record and the effects of its own    *)
(* operation.                                                              *)
LEMMA KnowsMoves ==
    ASSUME LedgerTypeOK, LedgerTypeOK', JournalKnows, NEW r \in Requests, request[r].pc # "idle",
           NEW pc, Goes(r, pc), UNCHANGED operator,
           \A x \in Operations : x # OpOf(r) => ledger'[x] = ledger[x] /\ effects'[x] = effects[x],
           effects'[OpOf(r)] >= effects[OpOf(r)],
           \A q \in Requests : q # r /\ InExecution(q) /\ OpOf(q) = OpOf(r) => UNCHANGED <<ledger, effects>>,
           pc \in Executing \cup {"failing"} /\ OpOf(r) \in Workflows => RecordTells(r)',
           RecordIsTrue(OpOf(r))'
    PROVE  JournalKnows'
<1>1. /\ request'[r].pc = pc
      /\ OpOf(r)' = OpOf(r) /\ ProcOf(r)' = ProcOf(r)
      /\ \A q \in Requests : q # r => request'[q] = request[q]
  BY GoesFrame
<1>2. OpOf(r) \in Operations
  BY RequestShape
<1>3. ASSUME NEW q \in Requests, InExecution(q)'
      PROVE  RecordTells(q)'
  <2>1. CASE q = r
    BY <1>1, <1>3, <2>1 DEF InExecution
  <2>2. CASE q # r
    <3>1. InExecution(q) /\ OpOf(q)' = OpOf(q) /\ ProcOf(q)' = ProcOf(q) /\ request'[q].pc = request[q].pc
      BY <1>1, <1>3, <2>2 DEF InExecution, OpOf, ProcOf
    <3>2. ledger'[OpOf(q)] = ledger[OpOf(q)] /\ effects'[OpOf(q)] = effects[OpOf(q)]
      BY <2>2, <3>1 DEF InExecution, Operations
    <3>3. RecordTells(q)
      BY <3>1 DEF JournalKnows, InExecution
    <3> QED
      BY <3>1, <3>2, <3>3 DEF RecordTells, At
  <2> QED
    BY <2>1, <2>2
<1>4. ASSUME NEW o \in Operations
      PROVE  RecordIsTrue(o)'
  BY <1>1 DEF JournalKnows, RecordIsTrue
<1>5. (operator.pc = "holding" /\ operator.resolution = "effect_confirmed" => effects[operator.op] > 0)'
  <2> SUFFICES ASSUME operator.pc = "holding", operator.resolution = "effect_confirmed"
               PROVE  effects'[operator.op] > 0
    OBVIOUS
  <2>1. operator.op \in Operations /\ effects[operator.op] > 0
    BY DEF LedgerTypeOK, JournalKnows, Operator, NoOperator, Operations
  <2>2. effects[operator.op] \in Nat /\ effects'[operator.op] \in Nat
    BY <2>1 DEF LedgerTypeOK
  <2>3. CASE operator.op = OpOf(r)
    BY <2>1, <2>2, <2>3
  <2>4. CASE operator.op # OpOf(r)
    BY <2>1, <2>4
  <2> QED
    BY <2>3, <2>4
<1> QED
  BY <1>3, <1>4, <1>5 DEF JournalKnows, InExecution, RecordIsTrue

(* Every step of run_operation keeps the journal true, when the outcome of *)
(* an admission is never in doubt.                                         *)
LEMMA RunOperationKnows ==
    ASSUME "admission" \notin LedgerFaults,
           LedgerTypeOK, LedgerTypeOK', ExecutorIsAlone, JournalKnows, RunOperation
    PROVE  JournalKnows'
<1> USE DEF InExecution
<1> PICK r \in Requests :
       \/ \E o \in Operations, p \in Processes : StartRequest(r, o, p)
       \/ AdmitRequest(r) \/ AssertHeld(r) \/ Dispatch(r) \/ Callback(r) \/ Complete(r)
       \/ RequireReconciliation(r) \/ RunAtomic(r) \/ RecordFailure(r) \/ Release(r)
  BY DEF RunOperation
<1>a. ASSUME request[r].pc \in Executing
      PROVE  /\ OpOf(r) \in Workflows /\ OpOf(r) \in Operations /\ OpOf(r) \notin Atomics
             /\ RecordTells(r) /\ ledger[OpOf(r)] \in Record
             /\ RecordIsTrue(OpOf(r))
             /\ \A q \in Requests : q # r /\ InExecution(q) => OpOf(q) # OpOf(r)
  <2>1. OpOf(r) \in Workflows /\ OpOf(r) \in Operations /\ OpOf(r) \notin Atomics
    BY <1>a, LedgerAssumption DEF ExecutorIsAlone, Operations
  <2>2. InExecution(r) /\ RecordTells(r)
    BY <1>a, <2>1 DEF JournalKnows
  <2>3. ledger[OpOf(r)] \in Record
    BY <2>1, <2>2 DEF RecordTells, LedgerTypeOK
  <2> QED
    BY <2>1, <2>2, <2>3, OneInExecution DEF JournalKnows, RecordIsTrue
<1>1. ASSUME NEW o \in Operations, NEW p \in Processes, StartRequest(r, o, p)
      PROVE  JournalKnows'
  <2>1. /\ request'[r].pc \in {"owner", "admit", "done"}
        /\ \A q \in Requests : q # r => request'[q] = request[q]
        /\ UNCHANGED <<ledger, effects, operator>>
    BY <1>1 DEF StartRequest, LedgerTypeOK
  <2>2. ASSUME NEW q \in Requests, InExecution(q)' PROVE RecordTells(q)'
    <3>1. request'[q] = request[q]
      BY <2>1, <2>2 DEF Executing
    <3> QED
      BY <2>1, <2>2, <3>1 DEF JournalKnows, RecordTells, OpOf, ProcOf, At
  <2> QED
    BY <2>1, <2>2 DEF JournalKnows, RecordIsTrue
<1>2. CASE AdmitRequest(r)
  <2>1. request[r].pc = "admit" /\ OpOf(r) \in Workflows /\ OpOf(r) \in Operations /\ ProcOf(r) \in Processes
    BY <1>2, RequestShape DEF AdmitRequest, At, ExecutorIsAlone, Operations
  <2>2. UNCHANGED <<effects, operator>>
    BY <1>2 DEF AdmitRequest
  <2>3. CASE MayAdmit(r) /\ Goes(r, "admitted") /\ Save(OpOf(r), RecordOf(r, "in_progress", "admitted"))
    <3>1. ledger[OpOf(r)] = NoRecord /\ effects[OpOf(r)] = 0
      BY <2>1, <2>3 DEF MayAdmit, ExecutorIsAlone
    <3>2. /\ ledger'[OpOf(r)] = RecordOf(r, "in_progress", "admitted")
          /\ \A x \in Operations : x # OpOf(r) => ledger'[x] = ledger[x]
      BY <2>1, <2>3 DEF Save, LedgerTypeOK
    <3>3. \A q \in Requests : InExecution(q) => OpOf(q) # OpOf(r)
      BY <3>1 DEF JournalKnows, RecordTells
    <3>4. request'[r].pc = "admitted" /\ OpOf(r)' = OpOf(r) /\ ProcOf(r)' = ProcOf(r)
      BY <2>1, <2>3, GoesFrame
    <3>5. RecordTells(r)'
      BY <2>2, <3>1, <3>2, <3>4 DEF RecordTells, RecordOf, NoRecord, At
    <3>6. RecordIsTrue(OpOf(r))'
      BY <2>1, <2>2, <3>1, <3>2, <3>4, LedgerAssumption DEF RecordIsTrue, RecordOf
    <3>7. effects'[OpOf(r)] >= effects[OpOf(r)]
      BY <2>2, <3>1
    <3> QED
      BY <2>1, <2>2, <2>3, <3>2, <3>3, <3>5, <3>6, <3>7, KnowsMoves
  <2>4. CASE Goes(r, "releasing") /\ UNCHANGED <<ledger, outbox>>
    <3>1. RecordIsTrue(OpOf(r))' /\ effects'[OpOf(r)] >= effects[OpOf(r)]
      <4>1. OpOf(r)' = OpOf(r)
        BY <2>1, <2>4, GoesFrame
      <4> QED
        BY <2>1, <2>2, <2>4, <4>1 DEF RecordIsTrue, JournalKnows, LedgerTypeOK
    <3> QED
      BY <2>1, <2>2, <2>4, <3>1, KnowsMoves DEF Executing
  <2>5. \A commit \in Commits("admission") : commit = "acked"
    BY DEF Commits
  <2> QED
    BY <1>2, <2>3, <2>4, <2>5 DEF AdmitRequest, Transacts, Skip
<1>3. CASE AssertHeld(r)
  <2>1. UNCHANGED <<ledger, effects, operator>> /\ request[r].pc \in {"admitted", "dispatched"}
    BY <1>3 DEF AssertHeld, At
  <2>2. PICK pc \in {"checked", "callback", "failing"} :
           /\ Goes(r, pc)
           /\ request[r].pc = "admitted" => pc \in {"checked", "failing"}
           /\ request[r].pc = "dispatched" => pc \in {"callback", "failing"}
    BY <1>3 DEF AssertHeld, At
  <2>3. request[r].pc \in Executing /\ request[r].pc # "idle" /\ effects[OpOf(r)] = 0
    BY <2>1 DEF Executing, BeforeCallback, ExecutorIsAlone
  <2>4. request'[r].pc = pc /\ OpOf(r)' = OpOf(r) /\ ProcOf(r)' = ProcOf(r)
    BY <2>2, <2>3, GoesFrame
  <2>5. RecordTells(r)'
    BY <1>a, <2>1, <2>2, <2>3, <2>4 DEF RecordTells, At
  <2>6. RecordIsTrue(OpOf(r))' /\ effects'[OpOf(r)] >= effects[OpOf(r)]
    BY <1>a, <2>1, <2>3, <2>4 DEF RecordIsTrue
  <2> QED
    BY <2>1, <2>2, <2>3, <2>5, <2>6, KnowsMoves
<1>4. CASE Dispatch(r)
  <2>1. request[r].pc = "checked" /\ UNCHANGED <<effects, operator>>
    BY <1>4 DEF Dispatch, At
  <2>2. request[r].pc \in Executing /\ request[r].pc # "idle" /\ effects[OpOf(r)] = 0
    BY <2>1 DEF Executing, BeforeCallback, ExecutorIsAlone
  <2>3. PICK pc \in {"dispatched", "failing"} :
           /\ Goes(r, pc)
           /\ \/ UNCHANGED ledger /\ pc = "failing"
              \/ /\ ledger' = [ledger EXCEPT ![OpOf(r)] = RecordOf(r, "in_progress", "dispatched")]
                 /\ ledger[OpOf(r)].status = "in_progress"
    BY <1>4 DEF Dispatch, Transacts, Skip, Save, MayDispatch, Admission
  <2>4. request'[r].pc = pc /\ OpOf(r)' = OpOf(r) /\ ProcOf(r)' = ProcOf(r)
    BY <2>2, <2>3, GoesFrame
  <2>5. \A x \in Operations : x # OpOf(r) => ledger'[x] = ledger[x]
    BY <2>3 DEF LedgerTypeOK
  <2>6. RecordTells(r)'
    <3>1. CASE UNCHANGED ledger /\ pc = "failing"
      BY <1>a, <2>1, <2>2, <2>4, <3>1 DEF RecordTells, At
    <3>2. CASE ledger' = [ledger EXCEPT ![OpOf(r)] = RecordOf(r, "in_progress", "dispatched")]
      <4>1. ledger'[OpOf(r)] = RecordOf(r, "in_progress", "dispatched")
        BY <1>a, <2>2, <3>2 DEF LedgerTypeOK
      <4> QED
        BY <2>1, <2>2, <2>3, <2>4, <4>1 DEF RecordTells, At, RecordOf, NoRecord
    <3> QED
      BY <2>3, <3>1, <3>2
  <2>7. RecordIsTrue(OpOf(r))' /\ effects'[OpOf(r)] >= effects[OpOf(r)]
    <3>1. RecordTells(r)' /\ effects'[OpOf(r)] = 0
      BY <2>1, <2>2, <2>6
    <3> QED
      BY <1>a, <2>1, <2>2, <2>3, <2>4, <3>1 DEF RecordIsTrue, RecordTells, At
  <2> QED
    BY <1>a, <2>1, <2>2, <2>3, <2>5, <2>6, <2>7, KnowsMoves
<1>5. CASE Callback(r)
  <2>1. request[r].pc = "callback" /\ UNCHANGED <<ledger, operator>>
    BY <1>5 DEF Callback, At
  <2>2. request[r].pc \in Executing /\ request[r].pc # "idle" /\ effects[OpOf(r)] = 0
    BY <2>1 DEF Executing, BeforeCallback, ExecutorIsAlone
  <2>3. PICK pc \in {"returned", "raised"} :
           /\ Goes(r, pc)
           /\ \/ effects' = [effects EXCEPT ![OpOf(r)] = @ + 1]
              \/ UNCHANGED effects /\ pc = "raised"
    BY <1>5 DEF Callback
  <2>4. request'[r].pc = pc /\ OpOf(r)' = OpOf(r) /\ ProcOf(r)' = ProcOf(r)
    BY <2>2, <2>3, GoesFrame
  <2>5. /\ \A x \in Operations : x # OpOf(r) => effects'[x] = effects[x]
        /\ effects'[OpOf(r)] \in {0, 1}
        /\ pc = "returned" => effects'[OpOf(r)] = 1
    BY <1>a, <2>2, <2>3 DEF LedgerTypeOK
  <2>6. RecordTells(r)'
    BY <1>a, <2>1, <2>2, <2>3, <2>4, <2>5 DEF RecordTells, At
  <2>7. RecordIsTrue(OpOf(r))' /\ effects'[OpOf(r)] >= effects[OpOf(r)]
    BY <1>a, <2>1, <2>2, <2>4, <2>5 DEF RecordIsTrue, RecordTells
  <2> QED
    BY <1>a, <2>1, <2>2, <2>3, <2>5, <2>6, <2>7, KnowsMoves
<1>6. CASE Complete(r)
  <2>1. request[r].pc = "returned" /\ UNCHANGED <<effects, operator>>
    BY <1>6 DEF Complete, At
  <2>2. request[r].pc \in Executing /\ request[r].pc # "idle" /\ effects[OpOf(r)] = 1
    <3>1. request[r].pc \in Executing
      BY <2>1 DEF Executing
    <3> QED
      BY <1>a, <2>1, <3>1 DEF RecordTells
  <2>3. PICK pc \in {"releasing", "unsaved"} :
           /\ Goes(r, pc)
           /\ \/ UNCHANGED ledger
              \/ ledger' = [ledger EXCEPT ![OpOf(r)] = RecordOf(r, "completed", "returned")]
    BY <1>6 DEF Complete, Transacts, Skip, Save
  <2>4. request'[r].pc = pc /\ OpOf(r)' = OpOf(r) /\ ProcOf(r)' = ProcOf(r)
    BY <2>2, <2>3, GoesFrame
  <2>5. /\ \A x \in Operations : x # OpOf(r) => ledger'[x] = ledger[x]
        /\ ledger'[OpOf(r)] = ledger[OpOf(r)] \/ ledger'[OpOf(r)] = RecordOf(r, "completed", "returned")
    BY <1>a, <2>2, <2>3 DEF LedgerTypeOK
  <2>6. pc = "unsaved" => RecordTells(r)'
    BY <1>a, <2>1, <2>2, <2>4, <2>5 DEF RecordTells, At, RecordOf, NoRecord
  <2>7. RecordIsTrue(OpOf(r))' /\ effects'[OpOf(r)] >= effects[OpOf(r)]
    BY <1>a, <2>1, <2>2, <2>4, <2>5 DEF RecordIsTrue, RecordOf
  <2> QED
    BY <1>a, <2>1, <2>2, <2>3, <2>5, <2>6, <2>7, KnowsMoves DEF Executing
<1>7. CASE RequireReconciliation(r)
  <2>1. request[r].pc = "unsaved" /\ UNCHANGED <<effects, operator>> /\ Goes(r, "releasing")
    BY <1>7 DEF RequireReconciliation, At
  <2>2. request[r].pc \in Executing /\ request[r].pc # "idle" /\ effects[OpOf(r)] = 1
    <3>1. request[r].pc \in Executing
      BY <2>1 DEF Executing
    <3> QED
      BY <1>a, <2>1, <3>1 DEF RecordTells
  <2>3. \/ UNCHANGED ledger
        \/ ledger' = [ledger EXCEPT ![OpOf(r)] = RecordOf(r, "reconciliation_required", "returned")]
    BY <1>7 DEF RequireReconciliation, Transacts, Skip, Save
  <2>4. OpOf(r)' = OpOf(r)
    BY <2>1, <2>2, GoesFrame
  <2>5. /\ \A x \in Operations : x # OpOf(r) => ledger'[x] = ledger[x]
        /\ \/ ledger'[OpOf(r)] = ledger[OpOf(r)]
           \/ ledger'[OpOf(r)] = RecordOf(r, "reconciliation_required", "returned")
    BY <1>a, <2>2, <2>3 DEF LedgerTypeOK
  <2>6. RecordIsTrue(OpOf(r))' /\ effects'[OpOf(r)] >= effects[OpOf(r)]
    BY <1>a, <2>1, <2>2, <2>4, <2>5 DEF RecordIsTrue, RecordOf
  <2> QED
    BY <1>a, <2>1, <2>2, <2>5, <2>6, KnowsMoves DEF Executing
<1>8. CASE RunAtomic(r)
  <2>1. /\ request[r].pc = "owner" /\ OpOf(r) \in Atomics /\ OpOf(r) \in Operations
        /\ OpOf(r) \notin Workflows /\ UNCHANGED operator
    BY <1>8, LedgerAssumption DEF RunAtomic, At, ExecutorIsAlone, Operations
  <2>2. PICK pc \in {"releasing", "failing"} :
           /\ Goes(r, pc)
           /\ \/ UNCHANGED <<ledger, effects>>
              \/ /\ ledger' = [ledger EXCEPT ![OpOf(r)] = RecordOf(r, "completed", "returned")]
                 /\ effects' = [effects EXCEPT ![OpOf(r)] = @ + 1]
                 /\ ledger[OpOf(r)] = NoRecord
    BY <1>8 DEF RunAtomic, Transacts, Skip, Save, LedgerTypeOK
  <2>3. OpOf(r)' = OpOf(r)
    BY <2>1, <2>2, GoesFrame
  <2>4. \A x \in Operations : x # OpOf(r) => ledger'[x] = ledger[x] /\ effects'[x] = effects[x]
    BY <2>2 DEF LedgerTypeOK
  <2>5. RecordIsTrue(OpOf(r))' /\ effects'[OpOf(r)] >= effects[OpOf(r)]
    <3>1. CASE UNCHANGED <<ledger, effects>>
      BY <2>1, <2>3, <3>1 DEF RecordIsTrue, JournalKnows, LedgerTypeOK
    <3>2. CASE /\ ledger' = [ledger EXCEPT ![OpOf(r)] = RecordOf(r, "completed", "returned")]
               /\ effects' = [effects EXCEPT ![OpOf(r)] = @ + 1]
               /\ ledger[OpOf(r)] = NoRecord
      <4>1. effects[OpOf(r)] = 0
        BY <2>1, <3>2 DEF ExecutorIsAlone
      <4>2. effects'[OpOf(r)] = 1 /\ ledger'[OpOf(r)] = RecordOf(r, "completed", "returned")
        BY <2>1, <3>2, <4>1 DEF LedgerTypeOK
      <4> QED
        BY <2>3, <4>1, <4>2 DEF RecordIsTrue, RecordOf, Unresolved
    <3> QED
      BY <2>2, <3>1, <3>2
  <2>6. \A q \in Requests : InExecution(q) => OpOf(q) # OpOf(r)
    BY <2>1
  <2> QED
    BY <2>1, <2>2, <2>4, <2>5, <2>6, KnowsMoves
<1>9. CASE RecordFailure(r)
  <2>1. /\ request[r].pc \in {"failing", "raised"} /\ request[r].pc # "idle" /\ OpOf(r) \in Operations
        /\ UNCHANGED <<effects, operator>> /\ Goes(r, "releasing")
    BY <1>9, RequestShape DEF RecordFailure, At
  <2>2. \/ UNCHANGED ledger
        \/ ledger' = [ledger EXCEPT ![OpOf(r)] = Failed(r)] /\ MayFail(OpOf(r))
    BY <1>9 DEF RecordFailure, Transacts, Skip, Save
  <2>3. OpOf(r)' = OpOf(r)
    BY <2>1, GoesFrame
  <2>4. /\ \A x \in Operations : x # OpOf(r) => ledger'[x] = ledger[x]
        /\ ledger'[OpOf(r)] = ledger[OpOf(r)] \/ (ledger'[OpOf(r)] = Failed(r) /\ MayFail(OpOf(r)))
    BY <2>1, <2>2 DEF LedgerTypeOK
  <2>5. CASE OpOf(r) \in Workflows
    <3>1. InExecution(r)
      BY <2>1, <2>5 DEF Executing
    <3>2. RecordTells(r) /\ \A q \in Requests : q # r /\ InExecution(q) => OpOf(q) # OpOf(r)
      BY <3>1, OneInExecution DEF JournalKnows
    <3>3. OpOf(r) \notin Atomics
      BY <2>5, LedgerAssumption
    <3>4. RecordIsTrue(OpOf(r))
      BY <2>1 DEF JournalKnows, RecordIsTrue
    <3>5. RecordIsTrue(OpOf(r))' /\ effects'[OpOf(r)] >= effects[OpOf(r)]
      BY <2>1, <2>3, <2>4, <3>2, <3>3, <3>4 DEF RecordIsTrue, RecordTells, Failed, RecordOf, At, LedgerTypeOK
    <3> QED
      BY <2>1, <2>4, <3>2, <3>5, KnowsMoves DEF Executing
  <2>6. CASE OpOf(r) \notin Workflows
    <3>1. OpOf(r) \in Atomics
      BY <2>1, <2>6 DEF Operations
    <3>2. Failed(r) = RecordOf(r, "failed", "rolled_back")
      BY <3>1 DEF Failed
    <3>3. RecordIsTrue(OpOf(r))
      BY <2>1 DEF JournalKnows, RecordIsTrue
    <3>4. effects[OpOf(r)] = 0 \/ ledger'[OpOf(r)] = ledger[OpOf(r)]
      BY <2>1, <2>4, <3>1, <3>3 DEF MayFail, RecordIsTrue, ExecutorIsAlone
    <3>5. RecordIsTrue(OpOf(r))' /\ effects'[OpOf(r)] >= effects[OpOf(r)]
      BY <2>1, <2>3, <2>4, <3>1, <3>2, <3>3, <3>4 DEF RecordIsTrue, RecordOf, Unresolved, LedgerTypeOK
    <3>6. \A q \in Requests : InExecution(q) => OpOf(q) # OpOf(r)
      BY <2>6
    <3> QED
      BY <2>1, <2>4, <3>5, <3>6, KnowsMoves DEF Executing
  <2> QED
    BY <2>5, <2>6
<1>10. CASE Release(r)
  <2>1. UNCHANGED <<ledger, effects, operator>> /\ request[r].pc # "idle" /\ Goes(r, "done")
    BY <1>10 DEF Release, At
  <2>2. OpOf(r)' = OpOf(r) /\ OpOf(r) \in Operations
    BY <2>1, GoesFrame, RequestShape
  <2>3. RecordIsTrue(OpOf(r))' /\ effects'[OpOf(r)] >= effects[OpOf(r)]
    BY <2>1, <2>2 DEF RecordIsTrue, JournalKnows, LedgerTypeOK
  <2> QED
    BY <2>1, <2>3, KnowsMoves DEF Executing
<1> QED
  BY <1>1, <1>2, <1>3, <1>4, <1>5, <1>6, <1>7, <1>8, <1>9, <1>10

(* The steps of others: a reconciliation resolves a record whose executor  *)
(* is gone, a crash ends an execution.                                     *)
LEMMA KnowsStep ==
    ASSUME "admission" \notin LedgerFaults,
           LedgerTypeOK, LedgerTypeOK', ExecutorIsAlone, JournalKnows, [LedgerNext]_ledgerVars
    PROVE  JournalKnows'
<1>1. CASE RunOperation
  BY <1>1, RunOperationKnows
<1>2. ASSUME NEW o \in Workflows, NEW p \in Processes, NEW resolution \in Resolutions,
             BeginReconcile(o, p, resolution)
      PROVE  JournalKnows'
  <2>1. UNCHANGED <<ledger, request, effects>>
    BY <1>2 DEF BeginReconcile
  <2>2. operator'.resolution = "effect_confirmed" => effects'[operator'.op] > 0
    BY <1>2 DEF BeginReconcile
  <2> QED
    BY <2>1, <2>2 DEF JournalKnows, InExecution, RecordTells, RecordIsTrue, OpOf, ProcOf, At
<1>3. CASE ReconcileOperation
  <2> DEFINE o == operator.op
             rec == [ledger[o] EXCEPT !.status = Reconciled(operator.resolution)]
  <2>1. /\ operator \in Operator /\ o \in Workflows /\ o \in Operations /\ o \notin Atomics
        /\ operator.resolution \in Resolutions /\ operator.proc \in Processes
    BY <1>3, LedgerAssumption DEF ReconcileOperation, LedgerTypeOK, NoOperator, Operator, Operations
  <2>2. UNCHANGED <<request, effects>> /\ operator'.pc # "holding" /\ operator.pc = "holding"
    BY <1>3, <2>1 DEF ReconcileOperation, Operator
  <2>3. CASE UNCHANGED ledger
    BY <2>2, <2>3 DEF JournalKnows, InExecution, RecordTells, RecordIsTrue, OpOf, ProcOf, At
  <2>4. CASE MayReconcile(o, operator.proc, operator.resolution) /\ ledger' = [ledger EXCEPT ![o] = rec]
    <3>1. ledger[o].status \in Unresolved
      BY <2>4 DEF MayReconcile, Unresolved
    <3>2. ledger[o] \in Record
      BY <2>1, <3>1 DEF LedgerTypeOK, NoRecord, Unresolved
    <3>3. /\ ledger'[o] = rec /\ rec # NoRecord
          /\ rec.status = Reconciled(operator.resolution)
          /\ rec.phase = ledger[o].phase /\ rec.id = ledger[o].id /\ rec.owner = ledger[o].owner
          /\ \A x \in Operations : x # o => ledger'[x] = ledger[x]
      BY <2>1, <2>4, <3>2 DEF LedgerTypeOK, Record, NoRecord, Reconciled
    <3>4. operator.resolution = "effect_confirmed" => effects[o] = 1
      BY <2>1, <2>2 DEF JournalKnows, ExecutorIsAlone, LedgerTypeOK
    <3>5. operator.resolution = "no_effect" => effects[o] = 0 /\ ledger[o].phase = "admitted"
      BY <2>1, <2>4, <3>2 DEF JournalKnows, RecordIsTrue, MayReconcile, Record, NoRecord
    <3>6. ASSUME NEW x \in Operations
          PROVE  RecordIsTrue(x)'
      <4>1. CASE x # o
        BY <2>2, <3>3, <4>1 DEF RecordIsTrue, JournalKnows
      <4>2. CASE x = o
        <5>1. ledger[o] # NoRecord /\ RecordIsTrue(o)
          BY <2>1, <3>1 DEF NoRecord, Unresolved, JournalKnows
        <5>2. \/ rec.status = "reconciled_no_effect" /\ effects[o] = 0
              \/ rec.status = "reconciled_effect_confirmed" /\ effects[o] = 1
          BY <2>1, <3>3, <3>4, <3>5 DEF Resolutions, Reconciled
        <5> QED
          BY <2>1, <2>2, <3>3, <4>2, <5>1, <5>2 DEF RecordIsTrue
      <4> QED
        BY <4>1, <4>2
    <3>7. ASSUME NEW r \in Requests, InExecution(r)'
          PROVE  RecordTells(r)'
      <4>1. InExecution(r) /\ RecordTells(r) /\ OpOf(r) \in Operations
        BY <2>2, <3>7 DEF JournalKnows, InExecution, OpOf, Operations
      <4>2. CASE OpOf(r) # o
        BY <2>2, <3>3, <4>1, <4>2 DEF RecordTells, OpOf, ProcOf, At
      <4>3. CASE OpOf(r) = o /\ operator.resolution = "no_effect"
        <5>1. request[r].pc \notin {"dispatched", "callback", "returned", "raised", "unsaved"}
          BY <3>1, <3>5, <4>1, <4>3 DEF RecordTells, At, Unresolved
        <5>2. ledger'[o].status = "reconciled_no_effect" /\ effects[o] = 0
          BY <3>3, <3>5, <4>3 DEF Reconciled
        <5> QED
          BY <2>2, <3>3, <3>5, <4>1, <4>3, <5>1, <5>2 DEF RecordTells, OpOf, ProcOf, At
      <4>4. CASE OpOf(r) = o /\ operator.resolution = "effect_confirmed"
        <5>1. ~(ledger[o].owner = operator.proc /\ ~Tracked(operator.proc, o))
          BY <4>1, <4>4 DEF RecordTells, Tracked, Active, InExecution, Executing
        <5>2. ledger[o].status = "reconciliation_required"
          BY <2>4, <4>4, <5>1 DEF MayReconcile, ExecutorAbsent
        <5> QED
          BY <4>1, <4>4, <5>2 DEF RecordTells, InExecution, Executing, At
      <4> QED
        BY <2>1, <4>2, <4>3, <4>4 DEF Resolutions
    <3> QED
      BY <2>2, <3>6, <3>7 DEF JournalKnows
  <2> QED
    BY <1>3, <2>3, <2>4 DEF ReconcileOperation, Transacts, Skip, Save
<1>4. CASE EndReconcile
  BY <1>4 DEF EndReconcile, NoOperator, JournalKnows, InExecution, RecordTells, RecordIsTrue, OpOf, ProcOf, At
<1>5. CASE Projection \/ (\E o \in Workflows : SessionLost(o)) \/ UNCHANGED ledgerVars
  <2>1. UNCHANGED <<ledger, request, effects, operator>>
    BY <1>5 DEF Projection, ProcessOnce, RecordFailures, BackoffEnds, RetryDeadLetter, SessionLost, ledgerVars
  <2> QED
    BY <2>1 DEF JournalKnows, InExecution, RecordTells, RecordIsTrue, OpOf, ProcOf, At
<1>6. ASSUME NEW p \in Processes, CrashProcess(p)
      PROVE  JournalKnows'
  <2>1. UNCHANGED <<ledger, effects>>
    BY <1>6 DEF CrashProcess
  <2>2. operator' = NoOperator \/ operator' = operator
    BY <1>6 DEF CrashProcess
  <2>3. ASSUME NEW q \in Requests PROVE request'[q] = request[q] \/ request'[q].pc = "done"
    <3>1. request'[q] = request[q] \/ (request'[q] = [request[q] EXCEPT !.pc = "done"] /\ Active(q))
      BY <1>6, LedgerAssumption DEF CrashProcess
    <3> QED
      BY <3>1, RequestShape DEF Active, Request
  <2>4. ASSUME NEW q \in Requests, InExecution(q)' PROVE RecordTells(q)'
    <3>1. request'[q] = request[q]
      BY <2>3, <2>4 DEF InExecution, Executing
    <3> QED
      BY <2>1, <2>4, <3>1 DEF JournalKnows, InExecution, RecordTells, OpOf, ProcOf, At
  <2> QED
    BY <2>1, <2>2, <2>4 DEF JournalKnows, RecordIsTrue, NoOperator
<1> QED
  BY <1>1, <1>2, <1>3, <1>4, <1>5, <1>6 DEF LedgerNext, Reconciliation, LedgerFault

-----------------------------------------------------------------------------
(* The audit trail *)

(* A step of a request or of an operator writes no record over an outcome. *)
Writes == \E o \in Operations, rec \in Record : ledger[o].status \notin Outcomes /\ Save(o, rec)

LEMMA OutcomesAreFinal ==
    ASSUME LedgerTypeOK, RunOperation \/ Reconciliation
    PROVE  UNCHANGED <<ledger, outbox>> \/ Writes
<1>1. CASE RunOperation
  <2> PICK r \in Requests :
         \/ \E o \in Operations, p \in Processes : StartRequest(r, o, p)
         \/ AdmitRequest(r) \/ AssertHeld(r) \/ Dispatch(r) \/ Callback(r) \/ Complete(r)
         \/ RequireReconciliation(r) \/ RunAtomic(r) \/ RecordFailure(r) \/ Release(r)
    BY <1>1 DEF RunOperation
  <2>1. ASSUME request[r].pc # "idle"
        PROVE  /\ OpOf(r) \in Operations
               /\ RecordOf(r, "in_progress", "admitted") \in Record
               /\ RecordOf(r, "in_progress", "dispatched") \in Record
               /\ RecordOf(r, "completed", "returned") \in Record
               /\ RecordOf(r, "reconciliation_required", "returned") \in Record
    BY <2>1, RequestShape, RecordOfType DEF Unresolved, Outcomes, Phases
  <2>2. ASSUME ledger[OpOf(r)] = NoRecord \/ ledger[OpOf(r)].status \in Unresolved
        PROVE  ledger[OpOf(r)].status \notin Outcomes
    BY <2>2 DEF NoRecord, Unresolved, Outcomes
  <2>3. CASE (\E o \in Operations, p \in Processes : StartRequest(r, o, p))
             \/ AssertHeld(r) \/ Callback(r) \/ Release(r)
    BY <2>3 DEF StartRequest, AssertHeld, Callback, Release
  <2>4. CASE AdmitRequest(r)
    BY <2>1, <2>2, <2>4 DEF AdmitRequest, At, MayAdmit, Transacts, Skip, Writes
  <2>5. CASE Dispatch(r)
    BY <2>1, <2>2, <2>5 DEF Dispatch, At, MayDispatch, Admission, Transacts, Skip, Writes, Unresolved
  <2>6. CASE Complete(r)
    BY <2>1, <2>2, <2>6 DEF Complete, At, Admission, Transacts, Skip, Writes, Unresolved
  <2>7. CASE RequireReconciliation(r)
    BY <2>1, <2>2, <2>7 DEF RequireReconciliation, At, Admission, Transacts, Skip, Writes, Unresolved
  <2>8. CASE RunAtomic(r)
    BY <2>1, <2>2, <2>8 DEF RunAtomic, At, Transacts, Skip, Writes
  <2>9. CASE RecordFailure(r)
    <3>1. Failed(r) \in Record
      BY <2>9, FailedType DEF RecordFailure
    <3> QED
      BY <2>1, <2>2, <2>9, <3>1 DEF RecordFailure, At, MayFail, Transacts, Skip, Writes
  <2> QED
    BY <2>3, <2>4, <2>5, <2>6, <2>7, <2>8, <2>9
<1>2. CASE Reconciliation
  <2>1. CASE ReconcileOperation
    <3> DEFINE o == operator.op
               rec == [ledger[o] EXCEPT !.status = Reconciled(operator.resolution)]
    <3>1. o \in Operations
      BY <2>1 DEF ReconcileOperation, LedgerTypeOK, NoOperator, Operator, Operations
    <3>2. CASE ledger[o].status \in Unresolved /\ Save(o, rec)
      <4>1. ledger[o] \in Record
        BY <3>1, <3>2 DEF LedgerTypeOK, NoRecord, Unresolved
      <4>2. rec \in Record
        BY <4>1 DEF Record, Reconciled, Outcomes
      <4>3. ledger[o].status \notin Outcomes
        BY <3>2 DEF Unresolved, Outcomes
      <4> QED
        BY <3>1, <3>2, <4>2, <4>3 DEF Writes
    <3> QED
      BY <2>1, <3>2 DEF ReconcileOperation, Transacts, Skip, MayReconcile, Unresolved
  <2> QED
    BY <1>2, <2>1 DEF Reconciliation, BeginReconcile, EndReconcile
<1> QED
  BY <1>1, <1>2

(* A transaction that writes an outcome writes its one event with it.      *)
LEMMA SaveKeepsTrail ==
    ASSUME LedgerTypeOK, TrailIsExact, NEW o \in Operations, NEW rec \in Record,
           ledger[o].status \notin Outcomes, Save(o, rec), UNCHANGED audit
    PROVE  TrailIsExact'
<1> DEFINE row == [op |-> o, status |-> rec.status, state |-> "pending",
                   attempts |-> 0, due |-> TRUE, manual |-> 0]
           n == Len(outbox)
<1>1. outbox \in Seq(OutboxRow) /\ n \in Nat /\ DOMAIN outbox = 1..n
  BY DEF LedgerTypeOK
<1>2. ledger'[o] = rec /\ \A x \in Operations : x # o => ledger'[x] = ledger[x]
  BY DEF Save, LedgerTypeOK
<1>3. \A i \in DOMAIN outbox : outbox[i].op \in Operations /\ outbox[i].status \in Outcomes
  <2>1. \A w \in OutboxRow : w.op \in Operations /\ w.status \in Outcomes
    BY Zenon DEF OutboxRow
  <2> QED
    BY <1>1, <2>1
<1>4. ASSUME NEW i \in DOMAIN outbox PROVE outbox[i].op # o
  <2>1. outbox[i].status \in Outcomes /\ Event(outbox[i]) = [op |-> outbox[i].op, status |-> outbox[i].status]
    BY <1>3 DEF Event
  <2>2. ledger[outbox[i].op].status = outbox[i].status
    BY <1>3, <2>1 DEF TrailIsExact, TrailMatchesLedger
  <2> QED
    BY <2>1, <2>2
<1>5. CASE rec.status \in Unresolved
  <2>1. outbox' = outbox
    BY <1>5 DEF Save, AppendOutcome
  <2>2. rec.status \notin Outcomes
    BY <1>5 DEF Unresolved, Outcomes
  <2> QED
    BY <1>2, <1>4, <2>1, <2>2 DEF TrailIsExact, TrailMatchesLedger, Event
<1>6. CASE rec.status \notin Unresolved
  <2>1. rec.status \in Outcomes
    BY <1>6 DEF Record
  <2>2. outbox' = Append(outbox, row)
    BY <1>4, <1>6 DEF Save, AppendOutcome, Event
  <2>3. /\ DOMAIN outbox' = 1..(n + 1)
        /\ \A i \in 1..n : outbox'[i] = outbox[i]
        /\ outbox'[n + 1] = row
    BY <1>1, <2>2
  <2>4. /\ Event(outbox'[n + 1]) = [op |-> o, status |-> rec.status]
        /\ outbox'[n + 1].state = "pending"
    BY <2>3 DEF Event
  <2>5. [op |-> o, status |-> rec.status] \notin audit
    BY <1>4 DEF TrailIsExact, Event
  <2>6. ASSUME NEW x \in Operations, NEW s \in Outcomes
        PROVE  (\E i \in DOMAIN outbox' : Event(outbox'[i]) = [op |-> x, status |-> s]) <=> ledger'[x].status = s
    <3>1. CASE x # o
      <4>1. (\E i \in DOMAIN outbox' : Event(outbox'[i]) = [op |-> x, status |-> s])
            <=> (\E i \in DOMAIN outbox : Event(outbox[i]) = [op |-> x, status |-> s])
        BY <1>1, <2>3, <2>4, <3>1
      <4> QED
        BY <1>2, <3>1, <4>1 DEF TrailIsExact, TrailMatchesLedger
    <3>2. CASE x = o
      <4>1. \A i \in 1..n : Event(outbox'[i]) # [op |-> x, status |-> s]
        BY <1>1, <1>4, <2>3, <3>2 DEF Event
      <4> QED
        BY <1>1, <1>2, <2>3, <2>4, <3>2, <4>1
    <3> QED
      BY <3>1, <3>2
  <2>7. ASSUME NEW i \in DOMAIN outbox'
        PROVE  Event(outbox'[i]) \in audit <=> outbox'[i].state = "published"
    <3>1. CASE i = n + 1
      BY <2>4, <2>5, <3>1
    <3>2. CASE i \in 1..n
      BY <1>1, <2>3, <3>2 DEF TrailIsExact, TrailMatchesLedger
    <3> QED
      BY <1>1, <2>3, <3>1, <3>2
  <2>8. ASSUME NEW i \in DOMAIN outbox', NEW j \in DOMAIN outbox', Event(outbox'[i]) = Event(outbox'[j])
        PROVE  i = j
    <3>1. \A k \in 1..n : Event(outbox'[k]) # Event(outbox'[n + 1])
      BY <1>1, <1>4, <2>3, <2>4 DEF Event
    <3>2. CASE i \in 1..n /\ j \in 1..n
      <4>1. Event(outbox[i]) = Event(outbox[j]) /\ i \in DOMAIN outbox /\ j \in DOMAIN outbox
        BY <1>1, <2>3, <2>8, <3>2
      <4> QED
        BY <4>1 DEF TrailIsExact
    <3>3. (i \in 1..n \/ i = n + 1) /\ (j \in 1..n \/ j = n + 1)
      BY <1>1, <2>3
    <3> QED
      BY <2>8, <3>1, <3>2, <3>3
  <2>9. ASSUME NEW e \in audit PROVE \E i \in DOMAIN outbox' : Event(outbox'[i]) = e
    BY <1>1, <2>3 DEF TrailIsExact
  <2>10. TrailMatchesLedger'
    BY <2>6, <2>7 DEF TrailMatchesLedger, Event
  <2> QED
    BY <2>8, <2>9, <2>10 DEF TrailIsExact, Event
<1> QED
  BY <1>5, <1>6

(* The projector changes neither the events of the rows nor the records;   *)
(* it publishes a row exactly when it adds the event to the trail.         *)
LEMMA ProjectionKeepsTrail ==
    ASSUME LedgerTypeOK, TrailIsExact, Projection
    PROVE  TrailIsExact'
<1>0. \A i \in DOMAIN outbox : outbox[i] \in OutboxRow
  BY DEF LedgerTypeOK
<1>1. ASSUME UNCHANGED ledger, DOMAIN outbox' = DOMAIN outbox,
             \A i \in DOMAIN outbox : Event(outbox'[i]) = Event(outbox[i]),
             \A i \in DOMAIN outbox : Event(outbox[i]) \in audit' <=> outbox'[i].state = "published",
             \A e \in audit' : \E i \in DOMAIN outbox : Event(outbox[i]) = e
      PROVE  TrailIsExact'
  <2>1. ASSUME NEW x \in Operations, NEW s \in Outcomes
        PROVE  (\E i \in DOMAIN outbox' : Event(outbox'[i]) = [op |-> x, status |-> s]) <=> ledger'[x].status = s
    BY <1>1 DEF TrailIsExact, TrailMatchesLedger
  <2>2. TrailMatchesLedger'
    BY <1>1, <2>1 DEF TrailMatchesLedger, Event
  <2>3. \A i, j \in DOMAIN outbox' : Event(outbox'[i]) = Event(outbox'[j]) => i = j
    BY <1>1 DEF TrailIsExact
  <2>4. \A e \in audit' : \E i \in DOMAIN outbox' : Event(outbox'[i]) = e
    BY <1>1
  <2> QED
    BY <2>2, <2>3, <2>4 DEF TrailIsExact, Event
<1>2. CASE ProcessOnce
  <2> DEFINE published == [i \in DOMAIN outbox |->
                 IF i \in Batch THEN [outbox[i] EXCEPT !.state = "published"] ELSE outbox[i]]
             events == {Event(outbox[i]) : i \in Batch}
  <2>1. UNCHANGED ledger
    BY <1>2 DEF ProcessOnce
  <2>2. CASE UNCHANGED <<outbox, audit>>
    BY <2>1, <2>2 DEF TrailIsExact, TrailMatchesLedger, Event
  <2>3. CASE outbox' = published /\ audit' = audit \cup events
    <3>1. Batch \subseteq DOMAIN outbox
      BY DEF Batch, Due
    <3>2. DOMAIN outbox' = DOMAIN outbox
      BY <2>3
    <3>3. ASSUME NEW i \in DOMAIN outbox
          PROVE  /\ Event(outbox'[i]) = Event(outbox[i])
                 /\ i \in Batch => outbox'[i].state = "published"
                 /\ i \notin Batch => outbox'[i].state = outbox[i].state
      <4>1. \A w \in OutboxRow : LET v == [w EXCEPT !.state = "published"]
                                 IN  v.state = "published" /\ v.op = w.op /\ v.status = w.status
        BY Zenon DEF OutboxRow
      <4>2. outbox[i] \in OutboxRow
        BY <1>0
      <4>3. outbox'[i] = IF i \in Batch THEN [outbox[i] EXCEPT !.state = "published"] ELSE outbox[i]
        BY <2>3
      <4> QED
        BY <4>1, <4>2, <4>3 DEF Event
    <3>4. \A i \in DOMAIN outbox : Event(outbox[i]) \in events <=> i \in Batch
      BY <3>1 DEF TrailIsExact
    <3>5. \A i \in DOMAIN outbox : Event(outbox[i]) \in audit' <=> outbox'[i].state = "published"
      BY <2>3, <3>3, <3>4 DEF TrailIsExact, TrailMatchesLedger
    <3>6. \A e \in audit' : \E i \in DOMAIN outbox : Event(outbox[i]) = e
      BY <2>3, <3>1 DEF TrailIsExact
    <3> QED
      BY <1>1, <2>1, <3>2, <3>3, <3>5, <3>6
  <2> QED
    BY <1>2, <2>2, <2>3 DEF ProcessOnce
<1>3. CASE RecordFailures
  <2>1. UNCHANGED <<ledger, audit>> /\ DOMAIN outbox' = DOMAIN outbox
    BY <1>3 DEF RecordFailures
  <2>2. ASSUME NEW i \in DOMAIN outbox
        PROVE  /\ Event(outbox'[i]) = Event(outbox[i])
               /\ outbox'[i].state = "published" <=> outbox[i].state = "published"
    <3>1. \A w \in OutboxRow, k \in Nat :
             /\ LET v == [w EXCEPT !.attempts = k, !.state = "dead"]
                IN  v.state = "dead" /\ v.op = w.op /\ v.status = w.status
             /\ LET v == [w EXCEPT !.attempts = k, !.due = FALSE]
                IN  v.state = w.state /\ v.op = w.op /\ v.status = w.status
      BY Zenon DEF OutboxRow
    <3>2. outbox[i] \in OutboxRow /\ outbox[i].attempts + 1 \in Nat /\ MaxAttempts \in Nat
      BY <1>0, LedgerAssumption DEF OutboxRow
    <3>3. outbox'[i] = IF ~Blamed(outbox[i]) THEN outbox[i]
                       ELSE IF outbox[i].attempts + 1 >= MaxAttempts
                       THEN [outbox[i] EXCEPT !.attempts = MaxAttempts, !.state = "dead"]
                       ELSE [outbox[i] EXCEPT !.attempts = @ + 1, !.due = FALSE]
      BY <1>3 DEF RecordFailures
    <3> QED
      BY <3>1, <3>2, <3>3 DEF Event, Blamed
  <2> QED
    BY <1>1, <2>1, <2>2 DEF TrailIsExact, TrailMatchesLedger
<1>4. ASSUME NEW k \in DOMAIN outbox, BackoffEnds(k) \/ RetryDeadLetter(k)
      PROVE  TrailIsExact'
  <2>1. UNCHANGED <<ledger, audit>> /\ DOMAIN outbox' = DOMAIN outbox
    BY <1>4 DEF BackoffEnds, RetryDeadLetter, LedgerTypeOK
  <2>2. /\ Event(outbox'[k]) = Event(outbox[k])
        /\ outbox'[k].state = "published" <=> outbox[k].state = "published"
    <3>1. \A w \in OutboxRow, m \in Nat :
             /\ LET v == [w EXCEPT !.due = TRUE]
                IN  v.state = w.state /\ v.op = w.op /\ v.status = w.status
             /\ LET v == [w EXCEPT !.state = "pending", !.attempts = 0, !.due = TRUE, !.manual = m]
                IN  v.state = "pending" /\ v.op = w.op /\ v.status = w.status
      BY Zenon DEF OutboxRow
    <3>2. outbox[k] \in OutboxRow /\ outbox[k].manual + 1 \in Nat
      BY <1>0, LedgerAssumption DEF OutboxRow
    <3>3. CASE BackoffEnds(k)
      <4>1. outbox'[k] = [outbox[k] EXCEPT !.due = TRUE]
        BY <3>3 DEF BackoffEnds, LedgerTypeOK
      <4> QED
        BY <3>1, <3>2, <4>1 DEF Event
    <3>4. CASE RetryDeadLetter(k)
      <4>1. outbox'[k] = [outbox[k] EXCEPT !.state = "pending", !.attempts = 0, !.due = TRUE, !.manual = @ + 1]
            /\ outbox[k].state = "dead"
        BY <3>4 DEF RetryDeadLetter, LedgerTypeOK
      <4> QED
        BY <3>1, <3>2, <4>1 DEF Event
    <3> QED
      BY <1>4, <3>3, <3>4
  <2>3. \A i \in DOMAIN outbox : i # k => outbox'[i] = outbox[i]
    BY <1>4 DEF BackoffEnds, RetryDeadLetter, LedgerTypeOK
  <2> QED
    BY <1>1, <2>1, <2>2, <2>3 DEF TrailIsExact, TrailMatchesLedger
<1> QED
  BY <1>2, <1>3, <1>4 DEF Projection

LEMMA TrailStep ==
    ASSUME LedgerTypeOK, TrailIsExact, [LedgerNext]_ledgerVars
    PROVE  TrailIsExact'
<1>1. CASE UNCHANGED <<ledger, outbox, audit>>
  BY <1>1 DEF TrailIsExact, TrailMatchesLedger, Event
<1>2. CASE RunOperation \/ Reconciliation
  <2>1. UNCHANGED audit
    BY <1>2 DEF RunOperation, StartRequest, AdmitRequest, AssertHeld, Dispatch, Callback, Complete,
                RequireReconciliation, RunAtomic, RecordFailure, Release,
                Reconciliation, BeginReconcile, ReconcileOperation, EndReconcile
  <2> QED
    BY <1>1, <1>2, <2>1, OutcomesAreFinal, SaveKeepsTrail DEF Writes
<1>3. CASE LedgerFault \/ UNCHANGED ledgerVars
  BY <1>1, <1>3 DEF LedgerFault, SessionLost, CrashProcess, ledgerVars
<1> QED
  BY <1>2, <1>3, ProjectionKeepsTrail DEF LedgerNext

-----------------------------------------------------------------------------
(* The theorems *)

(* The states of the journal, its guards, its calls and its outbox keep    *)
(* their types, whatever fails.                                            *)
THEOREM LedgerTyping == LedgerSpec => []LedgerTypeOK
<1>1. LedgerInit => LedgerTypeOK
  BY LedgerTypeInit
<1>2. LedgerTypeOK /\ [LedgerNext]_ledgerVars => LedgerTypeOK'
  BY LedgerTypeStep
<1> QED
  BY <1>1, <1>2, PTL DEF LedgerSpec

(* run_operation executes a callback at most once, and never without a     *)
(* record, whatever sessions, transactions and processes fail.             *)
THEOREM CallbackAtMostOnce == LedgerSpec => []AtMostOnce
<1> DEFINE Inv == LedgerTypeOK /\ ExecutorIsAlone
<1>1. LedgerInit => Inv
  BY LedgerTypeInit DEF LedgerInit, ExecutorIsAlone, NoRequest, Executing, BeforeCallback, At
<1>2. Inv /\ [LedgerNext]_ledgerVars => Inv'
  BY LedgerTypeStep, ExecutorStep
<1>3. Inv => AtMostOnce
  <2> SUFFICES ASSUME Inv, NEW o \in Operations
               PROVE  effects[o] <= 1 /\ (effects[o] = 1 => ledger[o] # NoRecord)
    BY DEF AtMostOnce
  <2> QED
    BY DEF ExecutorIsAlone
<1> QED
  BY <1>1, <1>2, <1>3, PTL DEF LedgerSpec

(* The journal never lies about an effect, when the transaction that       *)
(* admits or replays cannot fail with its outcome in doubt.  The run       *)
(* ledger_overwrite refutes the same statement when it can.                *)
THEOREM JournalIsTrue == "admission" \notin LedgerFaults => (LedgerSpec => []OutcomeIsTrue)
<1> SUFFICES ASSUME "admission" \notin LedgerFaults
             PROVE  LedgerSpec => []OutcomeIsTrue
  OBVIOUS
<1> DEFINE Inv == LedgerTypeOK /\ ExecutorIsAlone /\ JournalKnows
<1>1. LedgerInit => Inv
  BY LedgerTypeInit DEF LedgerInit, ExecutorIsAlone, JournalKnows, InExecution, RecordIsTrue, NoRequest,
                        NoRecord, NoOperator, Executing, BeforeCallback, At, Unresolved, Operations
<1>2. Inv /\ [LedgerNext]_ledgerVars => Inv'
  BY LedgerTypeStep, ExecutorStep, KnowsStep
<1>3. Inv => OutcomeIsTrue
  <2> SUFFICES ASSUME Inv, NEW o \in Operations
               PROVE  /\ ledger[o].status \in {"failed", "reconciled_no_effect"} => effects[o] = 0
                      /\ ledger[o].status \in {"completed", "reconciled_effect_confirmed"} =>
                            /\ effects[o] = 1
                            /\ \A r \in Requests : Active(r) /\ OpOf(r) = o => ~At(r, "callback") /\ ~At(r, "returned")
    BY DEF OutcomeIsTrue
  <2>1. RecordIsTrue(o)
    BY DEF JournalKnows
  <2>2. ASSUME NEW r \in Requests, OpOf(r) = o, At(r, "callback") \/ At(r, "returned")
        PROVE  ledger[o].status = "in_progress"
    <3>1. InExecution(r)
      BY <2>2 DEF ExecutorIsAlone, InExecution, Executing, At
    <3> QED
      BY <2>2, <3>1 DEF JournalKnows, RecordTells, At
  <2> QED
    BY <2>1, <2>2 DEF RecordIsTrue
<1> QED
  BY <1>1, <1>2, <1>3, PTL DEF LedgerSpec

(* An operation has one outcome for ever, its event exists with it, and    *)
(* the trail tells exactly the published ones, however often the projector *)
(* fails, repeats a batch or is told to retry a dead letter.               *)
THEOREM TrailIsComplete == LedgerSpec => []TrailMatchesLedger
<1> DEFINE Inv == LedgerTypeOK /\ TrailIsExact
<1>1. LedgerInit => Inv
  <2> SUFFICES ASSUME LedgerInit PROVE TrailIsExact
    BY LedgerTypeInit
  <2>1. DOMAIN outbox = {} /\ audit = {}
    BY DEF LedgerInit
  <2>2. \A o \in Operations, s \in Outcomes : ledger[o].status # s
    BY DEF LedgerInit, NoRecord, Outcomes
  <2> QED
    BY <2>1, <2>2 DEF TrailIsExact, TrailMatchesLedger
<1>2. Inv /\ [LedgerNext]_ledgerVars => Inv'
  BY LedgerTypeStep, TrailStep
<1>3. Inv => TrailMatchesLedger
  BY DEF TrailIsExact
<1> QED
  BY <1>1, <1>2, <1>3, PTL DEF LedgerSpec
-----------------------------------------------------------------------------
(* The operations on an installation *)

Stopped == \A s \in Services : serving[s] = 0

(* What operation o may rely on.                                           *)
OperationFits(o) ==
    /\ o.stage # "idle" => o.kind \in {"deploy", "migrate", "rollback"} /\ o.release \in Releases
    /\ o.kind = "migrate" => o.plan \in plans
    /\ o.kind = "rollback" => o.retained \in Releases /\ o.release <= o.retained
    /\ o.stage \in {"stop", "job", "wait"} => o.kind = "migrate"
    /\ o.stage = "services" => o.kind \in {"deploy", "rollback"} /\ Carries[o.release] <= schema
    /\ o.stage \in {"observe", "job", "wait", "services"} => stores = "up"
    /\ o.kind = "migrate" /\ o.stage \in {"stores", "observe", "job", "wait"} => Stopped

DeploymentInv ==
    /\ DeploymentTypeOK
    /\ OperationFits(act)
    /\ \A k \in Containers : job[k].stage # "none" => job[k].plan \in plans
    /\ \A y \in policies : y.target <= y.retained
    /\ stores = "absent" => Stopped

-----------------------------------------------------------------------------
(* The values that operations and jobs take *)

Kinds == {"none", "deploy", "rollback", "migrate"}
Stages == {"idle", "admit", "stop", "stores", "observe", "job", "wait", "services"}

LEMMA OperationRecords ==
    ASSUME NEW kind \in Kinds, NEW r \in Releases \cup {0}, NEW p \in Plan \cup {NoPlan},
           NEW q \in Releases \cup {0}, NEW fresh \in BOOLEAN, NEW stage \in Stages,
           NEW k \in Containers \cup {0}
    PROVE  [kind |-> kind, release |-> r, plan |-> p, retained |-> q, fresh |-> fresh,
            stage |-> stage, job |-> k] \in Operation
BY Zenon DEF Operation, Kinds, Stages

LEMMA OperationFields ==
    ASSUME NEW o \in Operation
    PROVE  /\ o.kind \in Kinds /\ o.release \in Releases \cup {0} /\ o.retained \in Releases \cup {0}
           /\ o.stage \in Stages /\ o.job \in Containers \cup {0}
BY Zenon DEF Operation, Kinds, Stages

LEMMA StageChanges ==
    ASSUME NEW o \in Operation, NEW stage \in Stages
    PROVE  /\ [o EXCEPT !.stage = stage] \in Operation
           /\ \A k \in Containers : [o EXCEPT !.stage = stage, !.job = k] \in Operation
BY Zenon DEF Operation, Stages

LEMMA StageChanged ==
    ASSUME NEW o \in Operation, NEW stage, NEW k
    PROVE  /\ LET d == [o EXCEPT !.stage = stage]
              IN  /\ d.kind = o.kind /\ d.release = o.release /\ d.plan = o.plan
                  /\ d.retained = o.retained /\ d.stage = stage
           /\ LET d == [o EXCEPT !.stage = stage, !.job = k]
              IN  /\ d.kind = o.kind /\ d.release = o.release /\ d.plan = o.plan
                  /\ d.retained = o.retained /\ d.stage = stage
BY Zenon DEF Operation

LEMMA RequestChanges ==
    ASSUME NEW o \in Operation, NEW kind \in Kinds, NEW r \in Releases, NEW p \in Plan \cup {NoPlan},
           NEW q \in Releases, NEW fresh \in BOOLEAN
    PROVE  /\ [o EXCEPT !.kind = kind, !.release = r] \in Operation
           /\ [o EXCEPT !.kind = kind, !.release = r, !.plan = p, !.fresh = fresh] \in Operation
           /\ [o EXCEPT !.kind = kind, !.release = r, !.retained = q] \in Operation
BY Zenon DEF Operation, Kinds

LEMMA RequestChanged ==
    ASSUME NEW o \in Operation, NEW kind, NEW r, NEW p, NEW q, NEW fresh
    PROVE  /\ LET d == [o EXCEPT !.kind = kind, !.release = r]
              IN  d.kind = kind /\ d.release = r
           /\ LET d == [o EXCEPT !.kind = kind, !.release = r, !.plan = p, !.fresh = fresh]
              IN  d.kind = kind /\ d.release = r /\ d.plan = p
           /\ LET d == [o EXCEPT !.kind = kind, !.release = r, !.retained = q]
              IN  d.kind = kind /\ d.release = r /\ d.retained = q
BY Zenon DEF Operation

LEMMA NoOperationFits ==
    NoOperation \in Operation /\ NoOperation.stage = "idle" /\ NoOperation.kind = "none"
<1>1. NoOperation \in Operation
  BY OperationRecords DEF NoOperation, Kinds, Stages
<1> QED
  BY <1>1 DEF NoOperation

LEMMA CarriesFacts ==
    /\ \A r \in Releases : Carries[r] \in Nat /\ Carries[r] > 0 /\ r \in Nat /\ r > 0
    /\ \A r, q \in Releases : r <= q => Carries[r] <= Carries[q]
BY DeploymentAssumption DEF Releases

LEMMA PlanFields ==
    ASSUME NEW p \in Plan
    PROVE  p.release \in Releases /\ p.observed \in Nat
BY DEF Plan

-----------------------------------------------------------------------------
(* Steps of deploy.py *)

(* A step that changes only the operation.                                 *)
LEMMA OperationMoves ==
    ASSUME DeploymentInv, NEW X \in Operation, act' = X, OperationFits(X),
           UNCHANGED <<schema, stores, serving, plans, policies, job>>
    PROVE  DeploymentInv'
BY DEF DeploymentInv, DeploymentTypeOK, OperationFits, Stopped

(* A step that ends the operation.                                         *)
LEMMA OperationEnds ==
    ASSUME DeploymentInv, act' = NoOperation,
           serving' \in [Services -> Releases \cup {0}], stores = "up" \/ serving' = serving \/ Stopped',
           job' \in [Containers -> [stage : {"none", "inspect", "apply"}, plan : Plan \cup {NoPlan}]],
           \A k \in Containers : job'[k].stage # "none" => job'[k].plan \in plans,
           UNCHANGED <<schema, stores, plans, policies>>
    PROVE  DeploymentInv'
<1>1. OperationFits(act)'
  BY NoOperationFits DEF OperationFits
<1> QED
  BY <1>1, NoOperationFits DEF DeploymentInv, DeploymentTypeOK, Stopped

(* A step that adds plans or policies.                                     *)
LEMMA ReviewKeeps ==
    ASSUME DeploymentInv, plans \subseteq plans', plans' \subseteq Plan, policies' \subseteq Policy,
           \A y \in policies' : y.target <= y.retained, stores' \in {stores, "up"},
           UNCHANGED <<schema, serving, act, job>>
    PROVE  DeploymentInv'
<1>1. OperationFits(act)'
  BY DEF DeploymentInv, OperationFits, Stopped
<1> QED
  BY <1>1 DEF DeploymentInv, DeploymentTypeOK, Stopped

LEMMA BeginKeeps ==
    ASSUME DeploymentInv, NEW X \in Operation, act' = [X EXCEPT !.stage = "admit"],
           UNCHANGED <<schema, stores, serving, plans, policies, job>>,
           X.kind \in {"deploy", "migrate", "rollback"}, X.release \in Releases,
           X.kind = "migrate" => X.plan \in plans,
           X.kind = "rollback" => X.retained \in Releases /\ X.release <= X.retained
    PROVE  DeploymentInv'
<1> DEFINE Y == [X EXCEPT !.stage = "admit"]
<1>1. Y \in Operation
  BY StageChanges DEF Stages
<1>2. /\ Y.kind = X.kind /\ Y.release = X.release /\ Y.plan = X.plan /\ Y.retained = X.retained
      /\ Y.stage = "admit"
  BY StageChanged
<1>3. act' = Y
  OBVIOUS
<1> HIDE DEF Y
<1>4. OperationFits(Y)
  BY <1>2 DEF OperationFits
<1> QED
  BY <1>1, <1>3, <1>4, OperationMoves

LEMMA BeginsKeep ==
    ASSUME DeploymentInv,
           \/ \E r \in Releases : BeginDeploy(r)
           \/ \E p \in plans, fresh \in BOOLEAN : BeginMigrate(p, fresh)
           \/ \E y \in policies : BeginRollback(y)
    PROVE  DeploymentInv'
<1>1. ASSUME NEW r \in Releases, BeginDeploy(r) PROVE DeploymentInv'
  <2> DEFINE X == [NoOperation EXCEPT !.kind = "deploy", !.release = r]
  <2>1. NoOperation \in Operation
    BY NoOperationFits
  <2>2. X \in Operation
    BY <2>1, RequestChanges DEF Kinds
  <2>3. X.kind = "deploy" /\ X.release = r
    BY <2>1, RequestChanged
  <2>4. act' = [X EXCEPT !.stage = "admit"] /\ UNCHANGED <<schema, stores, serving, plans, policies, job>>
    BY <1>1 DEF BeginDeploy, BeginOperation
  <2> HIDE DEF X
  <2> QED
    BY <2>2, <2>3, <2>4, BeginKeeps
<1>2. ASSUME NEW p \in plans, NEW fresh \in BOOLEAN, BeginMigrate(p, fresh) PROVE DeploymentInv'
  <2> DEFINE X == [NoOperation EXCEPT !.kind = "migrate", !.release = p.release, !.plan = p, !.fresh = fresh]
  <2>1. NoOperation \in Operation
    BY NoOperationFits
  <2>2. p \in Plan /\ p.release \in Releases
    BY PlanFields DEF DeploymentInv, DeploymentTypeOK
  <2>3. X \in Operation
    BY <2>1, <2>2, RequestChanges DEF Kinds
  <2>4. X.kind = "migrate" /\ X.release = p.release /\ X.plan = p
    BY <2>1, RequestChanged
  <2>5. act' = [X EXCEPT !.stage = "admit"] /\ UNCHANGED <<schema, stores, serving, plans, policies, job>>
    BY <1>2 DEF BeginMigrate, BeginOperation
  <2> HIDE DEF X
  <2> QED
    BY <2>2, <2>3, <2>4, <2>5, BeginKeeps
<1>3. ASSUME NEW y \in policies, BeginRollback(y) PROVE DeploymentInv'
  <2> DEFINE X == [NoOperation EXCEPT !.kind = "rollback", !.release = y.target, !.retained = y.retained]
  <2>1. NoOperation \in Operation
    BY NoOperationFits
  <2>2. y.target \in Releases /\ y.retained \in Releases /\ y.target <= y.retained
    BY DEF DeploymentInv, DeploymentTypeOK, Policy
  <2>3. X \in Operation
    BY <2>1, <2>2, RequestChanges DEF Kinds
  <2>4. X.kind = "rollback" /\ X.release = y.target /\ X.retained = y.retained
    BY <2>1, RequestChanged
  <2>5. act' = [X EXCEPT !.stage = "admit"] /\ UNCHANGED <<schema, stores, serving, plans, policies, job>>
    BY <1>3 DEF BeginRollback, BeginOperation
  <2> HIDE DEF X
  <2> QED
    BY <2>2, <2>3, <2>4, <2>5, BeginKeeps
<1> QED
  BY <1>1, <1>2, <1>3

(* The operation goes on to another stage.                                 *)
LEMMA StageMoves ==
    ASSUME DeploymentInv, NEW stage \in Stages \ {"idle"}, act.stage # "idle",
           act' = [act EXCEPT !.stage = stage]
    PROVE  /\ act' \in Operation
           /\ act'.kind = act.kind /\ act'.release = act.release /\ act'.plan = act.plan
           /\ act'.retained = act.retained /\ act'.stage = stage
BY StageChanges, StageChanged DEF DeploymentInv, DeploymentTypeOK

LEMMA AdmitKeeps ==
    ASSUME DeploymentInv, AdmitState
    PROVE  DeploymentInv'
<1> DEFINE st == IF act.kind = "migrate" /\ ~act.fresh THEN "stop" ELSE "stores"
<1>1. act.stage = "admit" /\ act' = [act EXCEPT !.stage = st] /\ st \in Stages \ {"idle"}
  BY DEF AdmitState, Stages
<1>2. act.kind = "migrate" /\ st = "stores" => Stopped
  BY DEF AdmitState, DeploymentInv
<1>3. st = "stop" => act.kind = "migrate"
  OBVIOUS
<1>4. st \in {"stop", "stores"}
  OBVIOUS
<1> HIDE DEF st
<1>5. /\ act' \in Operation
      /\ act'.kind = act.kind /\ act'.release = act.release /\ act'.plan = act.plan
      /\ act'.retained = act.retained /\ act'.stage = st
  BY <1>1, StageMoves
<1>6. OperationFits(act')
  BY <1>1, <1>2, <1>3, <1>4, <1>5 DEF OperationFits, DeploymentInv
<1>7. UNCHANGED <<schema, stores, serving, plans, policies, job>>
  BY DEF AdmitState
<1> QED
  BY <1>5, <1>6, <1>7, OperationMoves

LEMMA StopKeeps ==
    ASSUME DeploymentInv, StopServices
    PROVE  DeploymentInv'
<1>1. PICK stopped \in SUBSET Services :
         /\ serving' = [s \in Services |-> IF s \in stopped THEN 0 ELSE serving[s]]
         /\ act' = IF stopped = Services THEN [act EXCEPT !.stage = "stores"] ELSE NoOperation
  BY DEF StopServices
<1>2. /\ act.stage = "stop" /\ UNCHANGED <<schema, stores, plans, policies, job>>
  BY DEF StopServices
<1>3. /\ serving' \in [Services -> Releases \cup {0}]
      /\ \A s \in Services : serving[s] = 0 => serving'[s] = 0
  BY <1>1 DEF DeploymentInv, DeploymentTypeOK
<1>4. Stopped => Stopped'
  BY <1>3 DEF Stopped
<1>5. CASE stopped = Services
  <2>1. Stopped'
    BY <1>1, <1>5 DEF Stopped
  <2>2. /\ act' \in Operation
        /\ act'.kind = act.kind /\ act'.release = act.release /\ act'.plan = act.plan
        /\ act'.retained = act.retained /\ act'.stage = "stores"
    BY <1>1, <1>2, <1>5, StageMoves DEF Stages
  <2>3. OperationFits(act)'
    BY <1>2, <2>1, <2>2 DEF OperationFits, DeploymentInv
  <2> QED
    BY <1>2, <1>3, <2>1, <2>2, <2>3 DEF DeploymentInv, DeploymentTypeOK
<1>6. CASE stopped # Services
  BY <1>1, <1>2, <1>3, <1>4, <1>6, OperationEnds DEF DeploymentInv, DeploymentTypeOK
<1> QED
  BY <1>5, <1>6

LEMMA StoresKeep ==
    ASSUME DeploymentInv, StartStores
    PROVE  DeploymentInv'
<1>1. act.stage = "stores" /\ stores' = "up" /\ UNCHANGED <<schema, serving, plans, policies, job>>
  BY DEF StartStores
<1>2. /\ act' \in Operation
      /\ act'.kind = act.kind /\ act'.release = act.release /\ act'.plan = act.plan
      /\ act'.retained = act.retained /\ act'.stage = "observe"
  BY <1>1, StageMoves DEF StartStores, Stages
<1>3. OperationFits(act)'
  BY <1>1, <1>2 DEF OperationFits, DeploymentInv, Stopped
<1> QED
  BY <1>1, <1>2, <1>3 DEF DeploymentInv, DeploymentTypeOK

LEMMA ObserveKeeps ==
    ASSUME DeploymentInv, ObserveAgain
    PROVE  DeploymentInv'
<1> DEFINE st == IF act.kind = "migrate" THEN "job" ELSE "services"
<1>1. act.stage = "observe" /\ Authorized(act) /\ UNCHANGED <<schema, stores, serving, plans, policies, job>>
  BY DEF ObserveAgain
<1>2. /\ act' \in Operation
      /\ act'.kind = act.kind /\ act'.release = act.release /\ act'.plan = act.plan
      /\ act'.retained = act.retained /\ act'.stage = st
  BY <1>1, StageMoves DEF ObserveAgain, Stages
<1>3. /\ act.kind \in {"deploy", "migrate", "rollback"} /\ act.release \in Releases /\ schema \in Nat
      /\ act.kind = "rollback" => act.retained \in Releases /\ act.release <= act.retained
  BY <1>1 DEF DeploymentInv, DeploymentTypeOK, OperationFits
<1>4. act.kind # "migrate" => Carries[act.release] <= schema
  <2>1. CASE act.kind = "deploy"
    BY <1>1, <1>3, <2>1, CarriesFacts DEF Authorized, Pending
  <2>2. CASE act.kind = "rollback"
    <3>1. Carries[act.retained] <= schema
      BY <1>1, <1>3, <2>2, CarriesFacts DEF Authorized, Pending
    <3> QED
      BY <1>3, <2>2, <3>1, CarriesFacts
  <2> QED
    BY <1>3, <2>1, <2>2
<1>5. OperationFits(act')
  BY <1>1, <1>2, <1>3, <1>4 DEF OperationFits, DeploymentInv
<1> QED
  BY <1>1, <1>2, <1>5, OperationMoves

LEMMA RunKeeps ==
    ASSUME DeploymentInv, NEW k \in Containers, RunMigration(k)
    PROVE  DeploymentInv'
<1> DEFINE m == [stage |-> "inspect", plan |-> act.plan]
<1>1. act.stage = "job" /\ UNCHANGED <<schema, stores, serving, plans, policies>>
  BY DEF RunMigration
<1>2. act.kind = "migrate" /\ act.plan \in plans
  BY <1>1 DEF DeploymentInv, OperationFits
<1>3. /\ act' \in Operation
      /\ act'.kind = act.kind /\ act'.release = act.release /\ act'.plan = act.plan
      /\ act'.retained = act.retained /\ act'.stage = "wait"
  <2>1. act' = [act EXCEPT !.stage = "wait", !.job = k] /\ act \in Operation /\ "wait" \in Stages
    BY DEF RunMigration, DeploymentInv, DeploymentTypeOK, Stages
  <2>2. act' \in Operation
    BY <2>1, StageChanges
  <2> QED
    BY <2>1, <2>2, StageChanged
<1>4. OperationFits(act)'
  BY <1>1, <1>2, <1>3 DEF OperationFits, DeploymentInv, Stopped
<1>5. /\ job' = [job EXCEPT ![k] = m]
      /\ m \in [stage : {"none", "inspect", "apply"}, plan : Plan \cup {NoPlan}] /\ m.plan = act.plan
  BY <1>2 DEF RunMigration, DeploymentInv, DeploymentTypeOK
<1> HIDE DEF m
<1>6. /\ job' \in [Containers -> [stage : {"none", "inspect", "apply"}, plan : Plan \cup {NoPlan}]]
      /\ \A i \in Containers : job'[i].stage # "none" => job'[i].plan \in plans
  BY <1>2, <1>5 DEF DeploymentInv, DeploymentTypeOK
<1> QED
  BY <1>1, <1>3, <1>4, <1>6 DEF DeploymentInv, DeploymentTypeOK, Stopped

LEMMA ServicesKeep ==
    ASSUME DeploymentInv, StartServices
    PROVE  DeploymentInv'
<1>1. act.stage = "services" /\ act' = NoOperation /\ UNCHANGED <<schema, stores, plans, policies, job>>
  BY DEF StartServices
<1>2. stores = "up" /\ act.release \in Releases
  BY <1>1 DEF DeploymentInv, OperationFits
<1>3. serving' \in [Services -> Releases \cup {0}]
  BY <1>2 DEF StartServices, DeploymentInv, DeploymentTypeOK
<1> QED
  BY <1>1, <1>2, <1>3, OperationEnds DEF DeploymentInv, DeploymentTypeOK

-----------------------------------------------------------------------------
(* Steps of the migration jobs *)

(* A job ends; the schema has not shrunk.                                  *)
LEMMA JobEndKeeps ==
    ASSUME DeploymentInv, NEW k \in Containers, JobEnds(k), schema' \in Nat, schema <= schema',
           UNCHANGED <<stores, serving, plans, policies>>
    PROVE  DeploymentInv'
<1>1. NoMigration \in [stage : {"none", "inspect", "apply"}, plan : Plan \cup {NoPlan}]
      /\ NoMigration.stage = "none"
  BY DEF NoMigration
<1>2. /\ job' \in [Containers -> [stage : {"none", "inspect", "apply"}, plan : Plan \cup {NoPlan}]]
      /\ \A i \in Containers : job'[i].stage # "none" => job'[i].plan \in plans
  BY <1>1 DEF JobEnds, DeploymentInv, DeploymentTypeOK
<1>3. OperationFits(act)' /\ act' \in Operation
  <2>1. CASE act' = NoOperation
    BY <2>1, NoOperationFits DEF OperationFits
  <2>2. CASE act' = act
    <3>1. schema \in Nat /\ (act.stage = "services" => Carries[act.release] \in Nat)
      BY CarriesFacts DEF DeploymentInv, DeploymentTypeOK, OperationFits
    <3>2. act.stage = "services" => Carries[act.release] <= schema'
      BY <3>1 DEF DeploymentInv, OperationFits
    <3> QED
      BY <2>2, <3>2 DEF DeploymentInv, DeploymentTypeOK, OperationFits, Stopped
  <2> QED
    BY <2>1, <2>2 DEF JobEnds
<1> QED
  BY <1>2, <1>3 DEF DeploymentInv, DeploymentTypeOK, Stopped

LEMMA JobsKeep ==
    ASSUME DeploymentInv, NEW k \in Containers, JobInspects(k) \/ JobApplies(k) \/ JobFails(k)
    PROVE  DeploymentInv'
<1>1. CASE JobInspects(k)
  <2> DEFINE m == [job[k] EXCEPT !.stage = "apply"]
  <2>1. job' = [job EXCEPT ![k] = m] /\ UNCHANGED <<schema, stores, serving, plans, policies, act>>
    BY <1>1 DEF JobInspects
  <2>2. m \in [stage : {"none", "inspect", "apply"}, plan : Plan \cup {NoPlan}] /\ m.plan = job[k].plan
    BY DEF DeploymentInv, DeploymentTypeOK
  <2>3. job[k].plan \in plans
    BY <1>1 DEF JobInspects, DeploymentInv
  <2> HIDE DEF m
  <2>4. /\ job' \in [Containers -> [stage : {"none", "inspect", "apply"}, plan : Plan \cup {NoPlan}]]
        /\ \A i \in Containers : job'[i].stage # "none" => job'[i].plan \in plans
    BY <2>1, <2>2, <2>3 DEF DeploymentInv, DeploymentTypeOK
  <2> QED
    BY <2>1, <2>4 DEF DeploymentInv, DeploymentTypeOK, OperationFits, Stopped
<1>2. CASE JobApplies(k)
  <2>1. job[k].plan.release \in Releases
    BY <1>2, PlanFields DEF JobApplies, DeploymentInv, DeploymentTypeOK
  <2> QED
    BY <1>2, <2>1, CarriesFacts, JobEndKeeps DEF JobApplies
<1>3. CASE JobFails(k)
  BY <1>3, JobEndKeeps DEF JobFails, DeploymentInv, DeploymentTypeOK
<1> QED
  BY <1>1, <1>2, <1>3

-----------------------------------------------------------------------------
(* The theorems *)

LEMMA DeploymentStarts == DeploymentInit => DeploymentInv
<1> SUFFICES ASSUME DeploymentInit PROVE DeploymentInv
  OBVIOUS
<1>1. DeploymentTypeOK
  BY NoOperationFits DEF DeploymentInit, DeploymentTypeOK, NoMigration
<1>2. OperationFits(act)
  BY NoOperationFits DEF DeploymentInit, OperationFits
<1> QED
  BY <1>1, <1>2 DEF DeploymentInit, DeploymentInv, NoMigration, Stopped

LEMMA DeploymentStep == DeploymentInv /\ [DeploymentNext]_deploymentVars => DeploymentInv'
<1> SUFFICES ASSUME DeploymentInv, [DeploymentNext]_deploymentVars PROVE DeploymentInv'
  OBVIOUS
<1>1. ASSUME NEW r \in Releases, Preflight(r) \/ PlanEmpty(r) PROVE DeploymentInv'
  <2>1. \E n \in Nat : plans' = plans \cup {[release |-> r, observed |-> n]}
    BY <1>1 DEF Preflight, PlanEmpty, DeploymentInv, DeploymentTypeOK
  <2>2. plans \subseteq plans' /\ plans' \subseteq Plan
    BY <2>1 DEF Plan, DeploymentInv, DeploymentTypeOK
  <2>3. stores' \in {stores, "up"} /\ UNCHANGED <<schema, serving, policies, act, job>>
    BY <1>1 DEF Preflight, PlanEmpty
  <2> QED
    BY <2>2, <2>3, ReviewKeeps DEF DeploymentInv, DeploymentTypeOK
<1>2. ASSUME NEW r \in Releases, NEW q \in Releases, ReviewRollback(r, q) PROVE DeploymentInv'
  <2>1. policies' = policies \cup {[target |-> r, retained |-> q]} /\ r <= q
    BY <1>2 DEF ReviewRollback
  <2>2. policies' \subseteq Policy /\ \A y \in policies' : y.target <= y.retained
    BY <2>1 DEF Policy, DeploymentInv, DeploymentTypeOK
  <2>3. UNCHANGED <<schema, stores, serving, plans, act, job>>
    BY <1>2 DEF ReviewRollback
  <2> QED
    BY <2>2, <2>3, ReviewKeeps DEF DeploymentInv, DeploymentTypeOK
<1>3. CASE RefuseOperation
  BY <1>3, OperationEnds DEF RefuseOperation, DeploymentInv, DeploymentTypeOK
<1>4. CASE HostRestarts
  <2>1. /\ job' \in [Containers -> [stage : {"none", "inspect", "apply"}, plan : Plan \cup {NoPlan}]]
        /\ \A k \in Containers : job'[k].stage # "none" => job'[k].plan \in plans
    BY <1>4 DEF HostRestarts, NoMigration
  <2> QED
    BY <1>4, <2>1, OperationEnds DEF HostRestarts, DeploymentInv, DeploymentTypeOK
<1>5. CASE UNCHANGED deploymentVars
  BY <1>5 DEF deploymentVars, DeploymentInv, DeploymentTypeOK, OperationFits, Stopped
<1> QED
  BY <1>1, <1>2, <1>3, <1>4, <1>5, BeginsKeep, AdmitKeeps, StopKeeps, StoresKeep, ObserveKeeps,
     ServicesKeep, RunKeeps, JobsKeep DEF DeploymentNext

(* The schema, the services, the plans, the operation and its jobs keep    *)
(* their types.                                                            *)
THEOREM DeploymentTyping == DeploymentSpec => []DeploymentTypeOK
<1>1. DeploymentInv => DeploymentTypeOK
  BY DEF DeploymentInv
<1> QED
  BY <1>1, DeploymentStarts, DeploymentStep, PTL DEF DeploymentSpec

(* However long abandoned migration jobs live on, the schema moves only by *)
(* a whole reviewed plan and from the state it was reviewed on, under      *)
(* stopped services while the operation waits, and a service starts only   *)
(* on a schema that has all of its migrations (db_guard.py apply,          *)
(* deploy.py bundled_operation).                                           *)
THEOREM DeploymentIsReviewed == DeploymentSpec => DeploysAsReviewed
<1> DEFINE Reviewed ==
       /\ schema' # schema =>
            /\ \E p \in plans : p.observed = schema /\ Carries[p.release] = schema'
            /\ act.stage = "wait" /\ job'[act.job] # job[act.job] =>
                  \A s \in Services : serving[s] = 0
       /\ \A s \in Services : serving'[s] \notin {serving[s], 0} => Carries[serving'[s]] <= schema
<1>1. ASSUME DeploymentInv, [DeploymentNext]_deploymentVars PROVE [Reviewed]_deploymentVars
  <2>1. ASSUME NEW k \in Containers, JobApplies(k) PROVE Reviewed
    <3>1. job[k].plan \in plans /\ job[k].plan.observed = schema /\ schema' = Carries[job[k].plan.release]
      BY <1>1, <2>1 DEF JobApplies, DeploymentInv
    <3>2. serving' = serving
      BY <2>1 DEF JobApplies
    <3>3. act.stage = "wait" => Stopped
      BY <1>1 DEF DeploymentInv, OperationFits
    <3> QED
      BY <3>1, <3>2, <3>3 DEF Stopped
  <2>2. CASE StartServices
    <3>1. act.stage = "services" /\ Carries[act.release] <= schema /\ schema' = schema
      BY <1>1, <2>2 DEF StartServices, DeploymentInv, OperationFits
    <3>2. \A s \in Services : serving'[s] \in {serving[s], act.release}
      BY <2>2 DEF StartServices
    <3> QED
      BY <3>1, <3>2
  <2>3. CASE StopServices
    <3>1. schema' = schema /\ \A s \in Services : serving'[s] \in {serving[s], 0}
      BY <2>3 DEF StopServices
    <3> QED
      BY <3>1
  <2>4. CASE schema' = schema /\ serving' = serving
    BY <2>4
  <2>5. \/ \E k \in Containers : JobApplies(k)
        \/ StartServices \/ StopServices
        \/ schema' = schema /\ serving' = serving
    BY <1>1 DEF DeploymentNext, deploymentVars, Preflight, PlanEmpty, BeginDeploy, BeginMigrate, BeginRollback,
                BeginOperation, ReviewRollback, AdmitState, StartStores, ObserveAgain, RefuseOperation,
                HostRestarts, RunMigration, JobInspects, JobFails
  <2> QED
    BY <2>1, <2>2, <2>3, <2>4, <2>5
<1> QED
  BY <1>1, DeploymentStarts, DeploymentStep, PTL DEF DeploymentSpec, DeploysAsReviewed
================================================================================
