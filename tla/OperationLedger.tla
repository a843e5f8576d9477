--------------------------- MODULE OperationLedger ---------------------------
(***************************************************************************)
(* The journal of sensitive operations (apps/api/src/services/             *)
(* audit_operations.py) in PostgreSQL, and the projector of its outcomes   *)
(* (apps/worker/admin_audit_outbox.py).                                    *)
(*                                                                         *)
(* An operation is named by its idempotency key, so several requests may   *)
(* be for one operation.  `run_operation` promises to run its callback at  *)
(* most once.  A callback that shares the owner's transaction is atomic;   *)
(* any other runs between journal transactions, under an execution guard   *)
(* that is an advisory lock of a database session, which may end while the *)
(* callback runs.  Every journal transaction is one step.  Inputs that do  *)
(* not match the fingerprint are refused before any write, and left out.   *)
(***************************************************************************)
EXTENDS Integers, Sequences, FiniteSets, SequencesExt

CONSTANTS
    Workflows,     \* operations with a callback outside any transaction
    Atomics,       \* operations whose callback shares the owner transaction
    Requests,      \* calls of run_operation
    Processes,     \* API processes; a restarted one is another one
    LedgerFaults,  \* what may fail, of AllLedgerFaults
    Unprojectable,       \* operations whose outcome cannot be projected
    BatchSize,     \* batch_size of the projector
    MaxAttempts,   \* max_attempts of the projector
    MaxManual      \* manual retries of a dead letter

(* The session of a guard, the transaction that admits or replays, the     *)
(* later journal transactions, the callback, the process, and the commit   *)
(* of a projected batch.                                                   *)
AllLedgerFaults == {"session", "admission", "journal", "callback", "crash", "batch"}

Operations == Workflows \cup Atomics

ASSUME LedgerAssumption ==
    /\ Workflows \cap Atomics = {}
    /\ Unprojectable \subseteq Operations
    /\ LedgerFaults \subseteq AllLedgerFaults
    /\ BatchSize \in Nat \ {0} /\ MaxAttempts \in Nat \ {0} /\ MaxManual \in Nat
    /\ {"none", "operator"} \cap (Requests \cup Processes \cup Operations) = {}

VARIABLES
    ledger,        \* the api.audit.operation rows
    guard,         \* holder of the advisory lock of each operation
    request,       \* the calls of run_operation
    operator,      \* the call of reconcile_operation
    up,            \* processes that run
    effects,       \* how often the callback of each operation took effect
    outbox,        \* the admin.audit.completion rows, in order of creation
    audit,         \* the projected events
    projector      \* rows whose failure the projector has yet to record

ledgerVars == <<ledger, guard, request, operator, up, effects, outbox, audit, projector>>

-----------------------------------------------------------------------------
(* State *)

Unresolved == {"in_progress", "reconciliation_required"}
Resolutions == {"no_effect", "effect_confirmed"}
Outcomes == {"completed", "failed", "reconciled_no_effect", "reconciled_effect_confirmed"}
Phases == {"admitted", "dispatched", "returned", "uncertain", "not_started", "rolled_back"}

NoRecord == [status |-> "none"]
Record == [status : Unresolved \cup Outcomes, phase : Phases, id : Requests, owner : Processes]

NoRequest == [pc |-> "idle"]
Request == [pc : {"admit", "owner", "admitted", "checked", "dispatched", "callback", "returned",
                  "unsaved", "failing", "raised", "releasing", "done"},
            op : Operations, proc : Processes]

NoOperator == [pc |-> "idle"]
Operator == [pc : {"holding", "releasing"}, op : Workflows, proc : Processes, resolution : Resolutions]

OutboxRow == [op : Operations, status : Outcomes, state : {"pending", "published", "dead"},
              attempts : 0..MaxAttempts, due : BOOLEAN, manual : 0..MaxManual]

LedgerTypeOK ==
    /\ ledger \in [Operations -> Record \cup {NoRecord}]
    /\ guard \in [Workflows -> Requests \cup {"operator", "none"}]
    /\ request \in [Requests -> Request \cup {NoRequest}]
    /\ operator \in Operator \cup {NoOperator}
    /\ up \subseteq Processes
    /\ effects \in [Operations -> Nat]
    /\ outbox \in Seq(OutboxRow)
    /\ audit \subseteq [op : Operations, status : Outcomes]
    /\ projector \subseteq [op : Operations, status : Outcomes]

LedgerInit ==
    /\ ledger = [o \in Operations |-> NoRecord]
    /\ guard = [o \in Workflows |-> "none"]
    /\ request = [r \in Requests |-> NoRequest]
    /\ operator = NoOperator
    /\ up = Processes
    /\ effects = [o \in Operations |-> 0]
    /\ outbox = <<>>
    /\ audit = {}
    /\ projector = {}

-----------------------------------------------------------------------------
(* The journal *)

Event(row) == [op |-> row.op, status |-> row.status]

(* append_outcome: unresolved states enter no event, and an event that     *)
(* exists is left alone.                                                   *)
AppendOutcome(o, status) ==
    IF status \in Unresolved \/ \E i \in DOMAIN outbox : Event(outbox[i]) = [op |-> o, status |-> status]
    THEN outbox
    ELSE Append(outbox, [op |-> o, status |-> status, state |-> "pending",
                         attempts |-> 0, due |-> TRUE, manual |-> 0])

(* save and append_outcome, in one transaction.                            *)
Save(o, rec) ==
    /\ ledger' = [ledger EXCEPT ![o] = rec]
    /\ outbox' = AppendOutcome(o, rec.status)

Skip == UNCHANGED <<ledger, outbox>>

(* What a caller learns of a transaction: it committed, it did not, or it  *)
(* did and the acknowledgement was lost.                                   *)
Commits(fault) == {"acked"} \cup (IF fault \in LedgerFaults THEN {"rolled_back", "unacked"} ELSE {})

Transacts(commit, Change) == IF commit = "rolled_back" THEN Skip ELSE Change

-----------------------------------------------------------------------------
(* run_operation *)

At(r, pc) == request[r].pc = pc
Goes(r, pc) == request' = [request EXCEPT ![r].pc = pc]
OpOf(r) == request[r].op
ProcOf(r) == request[r].proc
RecordOf(r, status, phase) == [status |-> status, phase |-> phase, id |-> r, owner |-> ProcOf(r)]

(* The record is the admission of this very execution.                     *)
Admission(r, phases) ==
    LET rec == ledger[OpOf(r)] IN
    /\ rec.status = "in_progress"
    /\ rec.id = r
    /\ rec.phase \in phases

(* A request for an atomic operation takes no guard; one that finds the    *)
(* guard held answers from the journal.                                    *)
StartRequest(r, o, p) ==
    /\ At(r, "idle")
    /\ p \in up
    /\ \/ /\ o \in Atomics
          /\ request' = [request EXCEPT ![r] = [pc |-> "owner", op |-> o, proc |-> p]]
          /\ UNCHANGED guard
       \/ /\ o \in Workflows /\ guard[o] = "none"
          /\ request' = [request EXCEPT ![r] = [pc |-> "admit", op |-> o, proc |-> p]]
          /\ guard' = [guard EXCEPT ![o] = r]
       \/ /\ o \in Workflows /\ guard[o] # "none"
          /\ request' = [request EXCEPT ![r] = [pc |-> "done", op |-> o, proc |-> p]]
          /\ UNCHANGED guard
    /\ UNCHANGED <<ledger, operator, up, effects, outbox, audit, projector>>

(* replay: a record that exists answers the request.  The mutant admits    *)
(* again over one that is unresolved.                                      *)
MayAdmitAgain(r) == ledger[OpOf(r)] = NoRecord \/ ledger[OpOf(r)].status \in Unresolved

MayAdmit(r) == ledger[OpOf(r)] = NoRecord

(* replay and the first save.                                              *)
AdmitRequest(r) ==
    /\ At(r, "admit")
    /\ \E commit \in Commits("admission") :
          /\ IF MayAdmit(r)
             THEN Transacts(commit, Save(OpOf(r), RecordOf(r, "in_progress", "admitted")))
             ELSE Skip
          /\ Goes(r, IF commit # "acked" THEN "failing"
                     ELSE IF MayAdmit(r) THEN "admitted"
                     ELSE "releasing")
    /\ UNCHANGED <<guard, operator, up, effects, audit, projector>>

(* guard.assert_held, before and after the dispatch is recorded.           *)
AssertHeld(r) ==
    /\ \/ At(r, "admitted") /\ Goes(r, IF guard[OpOf(r)] = r THEN "checked" ELSE "failing")
       \/ At(r, "dispatched") /\ Goes(r, IF guard[OpOf(r)] = r THEN "callback" ELSE "failing")
    /\ UNCHANGED <<ledger, guard, operator, up, effects, outbox, audit, projector>>

MayDispatch(r) == Admission(r, {"admitted"})

Dispatch(r) ==
    /\ At(r, "checked")
    /\ \E commit \in Commits("journal") :
          IF MayDispatch(r)
          THEN /\ Transacts(commit, Save(OpOf(r), RecordOf(r, "in_progress", "dispatched")))
               /\ Goes(r, IF commit = "acked" THEN "dispatched" ELSE "failing")
          ELSE Skip /\ Goes(r, "failing")
    /\ UNCHANGED <<guard, operator, up, effects, audit, projector>>

(* The callback; one that raises may have taken effect.                    *)
Callback(r) ==
    /\ At(r, "callback")
    /\ \/ /\ effects' = [effects EXCEPT ![OpOf(r)] = @ + 1]
          /\ \/ Goes(r, "returned")
             \/ "callback" \in LedgerFaults /\ Goes(r, "raised")
       \/ /\ "callback" \in LedgerFaults
          /\ Goes(r, "raised")
          /\ UNCHANGED effects
    /\ UNCHANGED <<ledger, guard, operator, up, outbox, audit, projector>>

Complete(r) ==
    /\ At(r, "returned")
    /\ \E commit \in Commits("journal") :
          IF Admission(r, Phases)
          THEN /\ Transacts(commit, Save(OpOf(r), RecordOf(r, "completed", "returned")))
               /\ Goes(r, IF commit = "acked" THEN "releasing" ELSE "unsaved")
          ELSE Skip /\ Goes(r, "unsaved")
    /\ UNCHANGED <<guard, operator, up, effects, audit, projector>>

(* The completion could not be saved: ask for a reconciliation instead.    *)
RequireReconciliation(r) ==
    /\ At(r, "unsaved")
    /\ \E commit \in Commits("journal") :
          IF Admission(r, Phases)
          THEN Transacts(commit, Save(OpOf(r), RecordOf(r, "reconciliation_required", "returned")))
          ELSE Skip
    /\ Goes(r, "releasing")
    /\ UNCHANGED <<guard, operator, up, effects, audit, projector>>

(* The whole operation in the owner's transaction, which holds the lock of *)
(* the record from the replay to the commit.                               *)
RunAtomic(r) ==
    /\ At(r, "owner")
    /\ IF ledger[OpOf(r)] # NoRecord
       THEN Skip /\ Goes(r, "releasing") /\ UNCHANGED effects
       ELSE \E commit \in Commits("callback") \cup Commits("journal") :
               /\ Transacts(commit, Save(OpOf(r), RecordOf(r, "completed", "returned")))
               /\ effects' = [effects EXCEPT ![OpOf(r)] = IF commit = "rolled_back" THEN @ ELSE @ + 1]
               /\ Goes(r, IF commit = "acked" THEN "releasing" ELSE "failing")
    /\ UNCHANGED <<guard, operator, up, audit, projector>>

(* Which record the exception handler may replace.                         *)
MayFail(o) == ledger[o] = NoRecord \/ ledger[o].status \in Unresolved

(* The handler of every exception: `started` is false before the callback. *)
Failed(r) ==
    IF OpOf(r) \in Atomics THEN RecordOf(r, "failed", "rolled_back")
    ELSE IF At(r, "failing") THEN RecordOf(r, "failed", "not_started")
    ELSE RecordOf(r, "reconciliation_required", "uncertain")

RecordFailure(r) ==
    /\ At(r, "failing") \/ At(r, "raised")
    /\ \E commit \in Commits("journal") :
          IF MayFail(OpOf(r)) THEN Transacts(commit, Save(OpOf(r), Failed(r))) ELSE Skip
    /\ Goes(r, "releasing")
    /\ UNCHANGED <<guard, operator, up, effects, audit, projector>>

Freed(holder) == [o \in Workflows |-> IF guard[o] = holder THEN "none" ELSE guard[o]]

Release(r) ==
    /\ At(r, "releasing")
    /\ guard' = Freed(r)
    /\ Goes(r, "done")
    /\ UNCHANGED <<ledger, operator, up, effects, outbox, audit, projector>>

-----------------------------------------------------------------------------
(* reconcile_operation *)

Active(r) == request[r].pc \notin {"idle", "done"}

(* _LIVE_EXECUTIONS of a process.                                          *)
Tracked(p, o) == \E r \in Requests : Active(r) /\ ProcOf(r) = p /\ OpOf(r) = o

(* The mutant takes the free guard for a proof.                            *)
ExecutorAbsentByGuard(p, o) == TRUE

ExecutorAbsent(p, o) == ledger[o].owner = p /\ ~Tracked(p, o)

(* An operator confirms an effect it has seen, and may assert at any time  *)
(* that there was none.  The guard must be free.                           *)
BeginReconcile(o, p, resolution) ==
    /\ operator = NoOperator
    /\ p \in up
    /\ ledger[o] # NoRecord
    /\ resolution = "effect_confirmed" => effects[o] > 0
    /\ guard[o] = "none"
    /\ guard' = [guard EXCEPT ![o] = "operator"]
    /\ operator' = [pc |-> "holding", op |-> o, proc |-> p, resolution |-> resolution]
    /\ UNCHANGED <<ledger, request, up, effects, outbox, audit, projector>>

MayReconcile(o, p, resolution) ==
    LET rec == ledger[o] IN
    IF resolution = "no_effect"
    THEN rec.status \in Unresolved /\ rec.phase = "admitted"
    ELSE \/ rec.status = "reconciliation_required"
         \/ rec.status = "in_progress" /\ rec.phase = "dispatched" /\ ExecutorAbsent(p, o)

Reconciled(resolution) ==
    IF resolution = "no_effect" THEN "reconciled_no_effect" ELSE "reconciled_effect_confirmed"

ReconcileOperation ==
    /\ operator.pc = "holding"
    /\ \E commit \in Commits("journal") :
          LET o == operator.op IN
          IF MayReconcile(o, operator.proc, operator.resolution)
          THEN Transacts(commit, Save(o, [ledger[o] EXCEPT !.status = Reconciled(operator.resolution)]))
          ELSE Skip
    /\ operator' = [operator EXCEPT !.pc = "releasing"]
    /\ UNCHANGED <<guard, request, up, effects, audit, projector>>

EndReconcile ==
    /\ operator.pc = "releasing"
    /\ guard' = Freed("operator")
    /\ operator' = NoOperator
    /\ UNCHANGED <<ledger, request, up, effects, outbox, audit, projector>>

-----------------------------------------------------------------------------
(* PostgresAdminAuditReconciler *)

Due == {i \in DOMAIN outbox : outbox[i].state = "pending" /\ outbox[i].due}
Batch == {i \in Due : Cardinality({j \in Due : j < i}) < BatchSize}

(* A batch in one transaction; the first row that cannot be projected      *)
(* rolls it back and is the one to blame, a failed commit blames every row.*)
ProcessOnce ==
    /\ projector = {} /\ Batch # {}
    /\ LET bad == {i \in Batch : outbox[i].op \in Unprojectable}
           published == [i \in DOMAIN outbox |->
                            IF i \in Batch THEN [outbox[i] EXCEPT !.state = "published"] ELSE outbox[i]]
           events == {Event(outbox[i]) : i \in Batch}
       IN IF bad # {}
          THEN /\ projector' = {Event(outbox[CHOOSE i \in bad : \A j \in bad : i <= j])}
               /\ UNCHANGED <<outbox, audit>>
          ELSE \E commit \in Commits("batch") :
                  /\ outbox' = IF commit = "rolled_back" THEN outbox ELSE published
                  /\ audit' = IF commit = "rolled_back" THEN audit ELSE audit \cup events
                  /\ projector' = IF commit = "acked" THEN {} ELSE events
    /\ UNCHANGED <<ledger, guard, request, operator, up, effects>>

(* The mutant counts a failure of a row that has been published meanwhile. *)
BlamedAlways(row) == Event(row) \in projector

Blamed(row) == Event(row) \in projector /\ row.state = "pending"

(* A transaction of its own: another attempt, later, or none any more.     *)
RecordFailures ==
    /\ projector # {}
    /\ outbox' = [i \in DOMAIN outbox |->
                    LET row == outbox[i] IN
                    IF ~Blamed(row) THEN row
                    ELSE IF row.attempts + 1 >= MaxAttempts
                    THEN [row EXCEPT !.attempts = MaxAttempts, !.state = "dead"]
                    ELSE [row EXCEPT !.attempts = @ + 1, !.due = FALSE]]
    /\ projector' = {}
    /\ UNCHANGED <<ledger, guard, request, operator, up, effects, audit>>

(* The backoff of a row ends.                                              *)
BackoffEnds(i) ==
    /\ outbox[i].state = "pending" /\ ~outbox[i].due
    /\ outbox' = [outbox EXCEPT ![i].due = TRUE]
    /\ UNCHANGED <<ledger, guard, request, operator, up, effects, audit, projector>>

(* retry_admin_audit_event *)
RetryDeadLetter(i) ==
    /\ outbox[i].state = "dead" /\ outbox[i].manual < MaxManual
    /\ outbox' = [outbox EXCEPT ![i] = [outbox[i] EXCEPT !.state = "pending", !.attempts = 0,
                                                         !.due = TRUE, !.manual = @ + 1]]
    /\ UNCHANGED <<ledger, guard, request, operator, up, effects, audit, projector>>

-----------------------------------------------------------------------------
(* Faults *)

(* The session that holds a guard ends, unknown to the holder.             *)
SessionLost(o) ==
    /\ "session" \in LedgerFaults
    /\ guard[o] # "none"
    /\ guard' = [guard EXCEPT ![o] = "none"]
    /\ UNCHANGED <<ledger, request, operator, up, effects, outbox, audit, projector>>

(* The threads of a process end with it, and so do the sessions.           *)
CrashProcess(p) ==
    /\ "crash" \in LedgerFaults
    /\ p \in up
    /\ up' = up \ {p}
    /\ LET dead == {r \in Requests : Active(r) /\ ProcOf(r) = p}
               \cup (IF operator # NoOperator /\ operator.proc = p THEN {"operator"} ELSE {})
       IN /\ request' = [r \in Requests |-> IF r \in dead THEN [request[r] EXCEPT !.pc = "done"] ELSE request[r]]
          /\ guard' = [o \in Workflows |-> IF guard[o] \in dead THEN "none" ELSE guard[o]]
          /\ operator' = IF "operator" \in dead THEN NoOperator ELSE operator
    /\ UNCHANGED <<ledger, effects, outbox, audit, projector>>

-----------------------------------------------------------------------------
(* The specification *)

RunOperation ==
    \E r \in Requests :
       \/ \E o \in Operations, p \in Processes : StartRequest(r, o, p)
       \/ AdmitRequest(r)
       \/ AssertHeld(r)
       \/ Dispatch(r)
       \/ Callback(r)
       \/ Complete(r)
       \/ RequireReconciliation(r)
       \/ RunAtomic(r)
       \/ RecordFailure(r)
       \/ Release(r)

Reconciliation ==
    \/ \E o \in Workflows, p \in Processes, resolution \in Resolutions : BeginReconcile(o, p, resolution)
    \/ ReconcileOperation
    \/ EndReconcile

Projection ==
    \/ ProcessOnce
    \/ RecordFailures
    \/ \E i \in DOMAIN outbox : BackoffEnds(i) \/ RetryDeadLetter(i)

LedgerFault == (\E o \in Workflows : SessionLost(o)) \/ (\E p \in Processes : CrashProcess(p))

LedgerNext == RunOperation \/ Reconciliation \/ Projection \/ LedgerFault

LedgerSpec == LedgerInit /\ [][LedgerNext]_ledgerVars

-----------------------------------------------------------------------------
(* Properties *)

(* A callback takes effect at most once, whatever retries, lost guards,    *)
(* crashes and reconciliations there are ("Execute at most once",          *)
(* run_operation), and never without a record of the operation.            *)
AtMostOnce ==
    \A o \in Operations : effects[o] <= 1 /\ (effects[o] = 1 => ledger[o] # NoRecord)

(* What the journal says of an operation is so: no effect precedes or      *)
(* follows a record that says the callback was never started or was        *)
(* cancelled; a completed or confirmed one took effect, and no thread is   *)
(* in its callback any more.                                               *)
OutcomeIsTrue ==
    \A o \in Operations :
       /\ ledger[o].status \in {"failed", "reconciled_no_effect"} => effects[o] = 0
       /\ ledger[o].status \in {"completed", "reconciled_effect_confirmed"} =>
             /\ effects[o] = 1
             /\ \A r \in Requests : Active(r) /\ OpOf(r) = o => ~At(r, "callback") /\ ~At(r, "returned")

(* An operation has one outcome for ever, and the audit trail tells that   *)
(* one: the event of an outcome exists as soon as the outcome does, and a  *)
(* projected event is never pending again or dead.                         *)
TrailMatchesLedger ==
    /\ \A o \in Operations, s \in Outcomes :
          (\E i \in DOMAIN outbox : Event(outbox[i]) = [op |-> o, status |-> s]) <=> ledger[o].status = s
    /\ \A i \in DOMAIN outbox : Event(outbox[i]) \in audit <=> outbox[i].state = "published"
=============================================================================
