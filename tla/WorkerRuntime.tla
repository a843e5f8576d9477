---------------------------- MODULE WorkerRuntime ----------------------------
(***************************************************************************)
(* RealWorkerRuntime (apps/worker/runtime.py): one worker process.  A      *)
(* daemon thread polls the queue and monitors the executions, each claimed *)
(* job runs in a handler thread, and another thread may shut the runtime   *)
(* down, monitoring the same executions meanwhile.                         *)
(*                                                                         *)
(* A section of the code that holds `_lock` or the lock of an execution is *)
(* one step; a call of the queue is one step; everything in between        *)
(* interleaves.  The queue is abstract: it may end a lease at any moment,  *)
(* and a call may fail with or without having taken effect.  Whenever it   *)
(* ends a lease, or recovers an expired one, it asks the publication       *)
(* authority, which waits for `_operation_lock`, the lock that the         *)
(* ingestion of this process holds (pipeline.py).                          *)
(*                                                                         *)
(* An execution is named by the number of its claim, which is also its     *)
(* lease token.  Clocks are abstract: a deadline passes at some moment.    *)
(***************************************************************************)
EXTENDS Integers, Sequences, FiniteSets, FiniteSetsExt

CONSTANTS
    Jobs,                  \* jobs the worker may claim
    MaxConcurrency,        \* max_concurrency
    MaxErrors,             \* max_consecutive_queue_errors
    MaxClaims,             \* bound: leases the worker may receive
    Poison,                \* jobs with a payload or an operation it refuses
    Events                 \* what may happen to the process, of AllEvents

(* Calls to cancel and request_stop, shutdown before run_forever returns,  *)
(* a handler deadline, the end of a lease, a call of the queue or a thread *)
(* launch that fails.                                                      *)
AllEvents == {"cancel", "stop", "shutdown", "deadline", "lease", "fault"}

ASSUME RuntimeAssumption ==
    /\ MaxConcurrency \in Nat \ {0} /\ MaxErrors \in Nat \ {0}
    /\ MaxClaims \in Nat /\ IsFiniteSet(Jobs) /\ Poison \subseteq Jobs
    /\ Events \subseteq AllEvents /\ "none" \notin Jobs

VARIABLES
    ex,            \* _Execution of each claim
    active,        \* _active: the registered executions
    drv,           \* program counter and locals of each monitoring thread
    batch,         \* daemon: claimed items not yet admitted
    admitted,      \* daemon: job ids that this cycle may not start
    started,       \* _started
    closing,       \* _closing
    closed,        \* _closed
    stop,          \* _stop_requested
    fatal,         \* _fatal_reason
    errors,        \* queue errors counted since the daemon last consumed them
    consecutive,   \* _consecutive_queue_errors
    deadline,      \* the shutdown deadline has passed
    report,        \* the last ShutdownReport: none, drained or timed_out
    resources,     \* DeploymentRuntime: the providers are open
    row,           \* external: the queue's view of each job
    issued,        \* external: leases issued so far
    operation,     \* _operation_lock: the execution inside ingest, 0 for none
    reports        \* calls that end a lease, per execution (history)

flags == <<started, closing, closed, stop, fatal, errors, consecutive>>
queue == <<row, issued>>
ending == <<deadline, report, resources>>
vars == <<ex, active, drv, batch, admitted, flags, ending, queue, operation, reports>>

-----------------------------------------------------------------------------
(* Executions, drivers and rows *)

Claims == 1..MaxClaims

Execution ==
    [job : Jobs \cup {"none"},
     thread : {"none", "started", "handler", "ingesting", "done", "dead"},
     result : {"none", "ok", "error", "recovery", "cancelled"},
     handler_done : BOOLEAN, launch_failed : BOOLEAN,
     cancel : BOOLEAN,        \* cancel_requested, or the token is set
     lease_lost : BOOLEAN,
     late : BOOLEAN,          \* its deadline has passed
     finalizing : BOOLEAN,
     outcome : {"none", "succeeded", "failed", "cancelled", "lease_lost", "queue_error"}]

NoExecution ==
    [job |-> "none", thread |-> "none", result |-> "none",
     handler_done |-> FALSE, launch_failed |-> FALSE, cancel |-> FALSE,
     lease_lost |-> FALSE, late |-> FALSE,
     finalizing |-> FALSE, outcome |-> "none"]

logical_done(e) == ex[e].outcome # "none"

LiveThread(e) == ex[e].thread \in {"started", "handler", "ingesting", "done"}

Drivers == {"daemon", "shutdown"}

(* `then` is where a monitoring pass returns to, `todo` its snapshot of    *)
(* the executions it has not looked at, `e` the one it looks at and `kind` *)
(* what it found.                                                          *)
Driver == [pc : {"off", "poll", "observe", "claim", "admit", "launch", "cancel",
                 "check", "close", "dispose", "finish", "returned",
                 "look", "begin", "call"},
           then : {"none", "poll", "observe", "check", "close", "finish"},
           todo : SUBSET Claims, e : Claims \cup {0},
           kind : {"none", "lost", "cancel", "timeout", "failure", "ack"}]

NoDriver == [pc |-> "off", then |-> "none", todo |-> {}, e |-> 0, kind |-> "none"]

(* The row of a job: open, with a lease that ran out, or final.            *)
Row == [state : {"open", "expired", "succeeded", "closed"}, owner : Claims \cup {0}]

Goto(d, pc) == drv' = [drv EXCEPT ![d].pc = pc, ![d].e = 0, ![d].kind = "none"]

MonitorPass(d, then) ==
    drv' = [drv EXCEPT ![d] = [pc |-> "look", then |-> then, todo |-> active,
                               e |-> 0, kind |-> "none"]]

CountError(n) == errors' = Min({MaxErrors, errors + n})

-----------------------------------------------------------------------------
(* Finalisation *)

(* Mutant: the owner of a finalisation is not looked at.                   *)
OwnedUnless(e) == logical_done(e)

(* _begin_finalization: one thread becomes the owner of the outcome.       *)
Owned(e) == logical_done(e) \/ ex[e].finalizing

(* Mutant: a failed call of the queue leaves the finalisation open.        *)
FinalizedUnlessFailed(x, outcome) ==
    IF outcome = "queue_error" THEN x
    ELSE [x EXCEPT !.finalizing = FALSE, !.lease_lost = FALSE, !.late = FALSE, !.result = "none",
                   !.outcome = IF @ = "none" THEN outcome ELSE @]

(* _end_finalization with _record_outcome: outcome, logical_done and owner *)
(* change together.  The other facts are not looked at any more.           *)
Finalized(x, outcome) ==
    [x EXCEPT !.finalizing = FALSE, !.lease_lost = FALSE, !.late = FALSE, !.result = "none",
              !.outcome = IF @ = "none" THEN outcome ELSE @]

begin_finalization(d) ==
    LET e == drv[d].e IN
    /\ drv[d].pc = "begin"
    /\ \/ /\ Owned(e)
          /\ Goto(d, "look") /\ UNCHANGED <<ex, reports>>
       \/ /\ ~Owned(e) /\ drv[d].kind = "lost"   \* _finalize_lease_lost: no call
          /\ ex' = [ex EXCEPT ![e] = Finalized(ex[e], "lease_lost")]
          /\ Goto(d, "look") /\ UNCHANGED reports
       \/ /\ ~Owned(e) /\ drv[d].kind # "lost"
          /\ ex' = [ex EXCEPT ![e].finalizing = TRUE]
          /\ drv' = [drv EXCEPT ![d].pc = "call"]
          /\ reports' = [reports EXCEPT ![e] = @ + 1]
    /\ UNCHANGED <<active, batch, admitted, flags, ending, queue, operation>>

(* The lease of e still passes the queue's fence.                          *)
Live(e) == row[ex[e].job] = [state |-> "open", owner |-> e]

(* What acknowledge, fail and cancel_lease may answer.  The state of the   *)
(* returned job, or the error raised; a deferred call leaves it RUNNING.   *)
Answers(e, kind) ==
    (IF Live(e) THEN {"succeeded", "running"}
                     \cup (IF kind = "ack" THEN {} ELSE {"cancelled"})
                     \cup (IF kind \in {"failure", "timeout"} THEN {"failed"} ELSE {})
                ELSE {"lease"})
    \cup (IF kind = "ack" /\ ex[e].late THEN {"lease"} ELSE {})
    \cup (IF "fault" \in Events THEN {"error"} ELSE {})

(* What the row may be afterwards.  An error may hide a commit.            *)
Rows(e, ans) ==
    LET r == row[ex[e].job]
        final(s) == [state |-> s, owner |-> 0]
    IN  CASE ans = "succeeded" -> {final("succeeded")}
          [] ans = "cancelled" -> {final("closed")}
          [] ans = "failed"    -> {final("closed"), final("open")}
          [] ans = "error"     -> {r} \cup (IF Live(e) THEN {final("closed")} ELSE {})
          [] OTHER             -> {r}

(* Mutant: a deferred acknowledgement counts as success.                   *)
OutcomeEager(kind, ans) ==
    CASE ans = "lease"   -> "lease_lost"
      [] ans = "running" -> IF kind = "ack" THEN "succeeded" ELSE "lease_lost"
      [] ans = "error"   -> IF kind = "cancel" THEN "cancelled" ELSE "queue_error"
      [] OTHER           -> ans

(* The outcome that the runtime records for an answer.                     *)
Outcome(kind, ans) ==
    CASE ans \in {"lease", "running"} -> "lease_lost"
      [] ans = "error" -> IF kind = "cancel" THEN "cancelled" ELSE "queue_error"
      [] OTHER         -> ans

(* The queue call of a finalisation (_finalize_failure, the end of         *)
(* _finalize_handler, _release_cancelled_lease).  A call that passes the   *)
(* fence asks the publication authority, which waits for the ingestion     *)
(* running in this process.                                                *)
FinalizingCall(d) ==
    LET e == drv[d].e
        kind == drv[d].kind
    IN  /\ drv[d].pc = "call"
        /\ Live(e) => operation = 0
        /\ \E ans \in Answers(e, kind) :
              /\ \E r \in Rows(e, ans) : row' = [row EXCEPT ![ex[e].job] = r]
              /\ CountError(IF ans = "error" THEN 1 ELSE 0)
              /\ ex' = [ex EXCEPT ![e] = Finalized(ex[e], Outcome(kind, ans))]
        /\ Goto(d, "look")
        /\ UNCHANGED <<active, batch, admitted, started, closing, closed, stop, fatal,
                       consecutive, ending, issued, operation, reports>>

-----------------------------------------------------------------------------
(* Monitoring *)

(* What _monitor_one finds, and _finalize_handler once the handler is      *)
(* done.  Their two reads of the flags are one: what changes in between    *)
(* is as if it had been there before.                                      *)
finalize_handler(e) ==
    IF ex[e].launch_failed THEN "failure"
    ELSE CASE ex[e].result = "cancelled" -> "cancel"
           [] ex[e].result = "recovery"  -> "lost"
           [] ex[e].result = "ok"        -> "ack"
           [] OTHER                      -> "failure"

Found(e) ==
    IF Owned(e) THEN "none"
    ELSE IF ex[e].lease_lost THEN "lost"
    ELSE IF ex[e].cancel THEN "cancel"
    ELSE IF ex[e].late THEN "timeout"
    ELSE IF ex[e].handler_done THEN finalize_handler(e)
    ELSE "none"

(* _monitor_one of the next execution of the snapshot.  A timeout sets the *)
(* token before its finalisation.                                          *)
monitor_one(d) ==
    /\ drv[d].pc = "look" /\ drv[d].todo # {}
    /\ LET e == Min(drv[d].todo)
           found == Found(e)
       IN  \/ /\ found # "none"
              /\ ex' = IF found = "timeout" THEN [ex EXCEPT ![e].cancel = TRUE] ELSE ex
              /\ drv' = [drv EXCEPT ![d].pc = "begin", ![d].todo = @ \ {e}, ![d].e = e,
                                    ![d].kind = found]
           \/ /\ found = "none"   \* busy or settled, no heartbeat due, or the lease renewed
              /\ drv' = [drv EXCEPT ![d].todo = @ \ {e}]
              /\ UNCHANGED ex
    /\ UNCHANGED <<active, batch, admitted, flags, ending, queue, operation, reports>>

(* _heartbeat: any error means that the lease is lost.                     *)
heartbeat(d) ==
    /\ drv[d].pc = "look" /\ drv[d].todo # {}
    /\ LET e == Min(drv[d].todo)
       IN  /\ Found(e) = "none" /\ ~Owned(e)
           /\ ~Live(e) \/ "fault" \in Events
           /\ ex' = [ex EXCEPT ![e].lease_lost = TRUE, ![e].cancel = TRUE]
           /\ drv' = [drv EXCEPT ![d].pc = "begin", ![d].todo = @ \ {e}, ![d].e = e,
                                 ![d].kind = "lost"]
    /\ UNCHANGED <<active, batch, admitted, flags, ending, queue, operation, reports>>

(* Mutant: a slot is free once the outcome is recorded.                    *)
ReapableEarly(e) == ex[e].handler_done /\ logical_done(e)

(* _reap: a slot is free once the thread has exited.                       *)
Reapable(e) == ex[e].handler_done /\ logical_done(e) /\ ~LiveThread(e)

Reaped == {e \in active : Reapable(e)}

(* The end of _monitor_active.                                             *)
monitor_return(d) ==
    /\ drv[d].pc = "look" /\ drv[d].todo = {}
    /\ active' = active \ Reaped
    /\ drv' = [drv EXCEPT ![d].pc = drv[d].then, ![d].then = "none"]
    /\ UNCHANGED <<ex, batch, admitted, flags, ending, queue, operation, reports>>

Monitor(d) ==
    \/ monitor_one(d) \/ heartbeat(d) \/ begin_finalization(d)
    \/ FinalizingCall(d) \/ monitor_return(d)

-----------------------------------------------------------------------------
(* The daemon: run_forever *)

(* start, then the loop of _run_daemon; a closed runtime raises.           *)
Start ==
    /\ drv["daemon"].pc = "off"
    /\ IF closed THEN Goto("daemon", "returned") /\ UNCHANGED started
                 ELSE Goto("daemon", "poll") /\ started' = TRUE
    /\ UNCHANGED <<ex, active, batch, admitted, closing, closed, stop, fatal, errors,
                   consecutive, ending, queue, operation, reports>>

(* consume: errors of consecutive cycles add up until the threshold stops  *)
(* the worker; a cycle without one resets them, the last pass does not.    *)
Consume(final) ==
    LET total == Min({MaxErrors, consecutive + errors})
        tripped == errors > 0 /\ total >= MaxErrors
    IN  /\ consecutive' = IF errors > 0 THEN total ELSE IF final THEN consecutive ELSE 0
        /\ errors' = 0
        /\ fatal' = (fatal \/ tripped)
        /\ stop' = (stop \/ tripped)

(* The top of the loop: a cycle begins with a monitoring pass, and a last  *)
(* one follows the loop.                                                   *)
Poll ==
    /\ drv["daemon"].pc = "poll"
    /\ Consume(FALSE)
    /\ MonitorPass("daemon", IF stop' \/ closing \/ closed THEN "finish" ELSE "observe")
    /\ UNCHANGED <<ex, active, batch, admitted, started, closing, closed, ending, queue,
                   operation, reports>>

Finish ==
    /\ drv["daemon"].pc = "finish"
    /\ Consume(TRUE)
    /\ Goto("daemon", "returned")
    /\ UNCHANGED <<ex, active, batch, admitted, started, closing, closed, ending, queue,
                   operation, reports>>

(* _run_cycle looks at the capacity; without any it only monitors.         *)
Observe ==
    /\ drv["daemon"].pc = "observe"
    /\ IF Cardinality(active) < MaxConcurrency
         THEN /\ admitted' = {ex[e].job : e \in active}
              /\ Goto("daemon", "claim")
         ELSE MonitorPass("daemon", "poll") /\ UNCHANGED admitted
    /\ UNCHANGED <<ex, active, batch, flags, ending, queue, operation, reports>>

Orders(S) == {q \in [1..Cardinality(S) -> S] : \A a, b \in DOMAIN q : q[a] = q[b] => a = b}

(* _claim: the queue recovers expired leases first, asking the publication *)
(* authority, and then leases up to the capacity.  The answer may be lost. *)
ClaimJobs ==
    LET expired == {j \in Jobs : row[j].state = "expired"} IN
    /\ drv["daemon"].pc = "claim"
    /\ expired # {} => operation = 0
    /\ \E recovered \in [expired -> {"open", "expired", "closed"}],
          S \in SUBSET Jobs :
          LET after(j) == IF j \in expired THEN recovered[j] ELSE row[j].state
              n == Cardinality(S)
          IN  /\ n <= MaxConcurrency - Cardinality(admitted) /\ issued + n <= MaxClaims
              /\ \A j \in S : after(j) = "open" /\ (j \notin expired => row[j].owner = 0)
              /\ \E q \in Orders(S) :
                    LET token(j) == issued + (CHOOSE i \in 1..n : q[i] = j)
                        items == [i \in 1..n |-> issued + i]
                    IN  /\ row' = [j \in Jobs |->
                                    IF j \in S THEN [state |-> "open", owner |-> token(j)]
                                    ELSE [row[j] EXCEPT !.state = after(j)]]
                        /\ \/ /\ batch' = items /\ UNCHANGED errors
                              /\ ex' = [e \in Claims |->
                                          IF e \in issued + 1..issued + n
                                            THEN [NoExecution EXCEPT !.job = q[e - issued]]
                                            ELSE ex[e]]
                           \/ /\ "fault" \in Events /\ CountError(1) /\ UNCHANGED <<batch, ex>>
                        /\ issued' = issued + n
    /\ Goto("daemon", "admit")
    /\ UNCHANGED <<active, admitted, started, closing, closed, stop, fatal, consecutive,
                   ending, operation, reports>>

NextItem(pc) ==
    /\ batch' = Tail(batch)
    /\ Goto("daemon", pc)

(* Mutant: the lease, not the job, is looked up.                           *)
DuplicateByLease(e) == e \in active

(* The job of the item is still active here, or came earlier in the batch. *)
Duplicate(e) == ex[e].job \in admitted

(* A duplicate, or an item whose lease has run out already, is an invalid  *)
(* claim: it is dropped, and its lease left alone.                         *)

RefuseItem ==
    /\ drv["daemon"].pc = "admit" /\ batch # << >>
    /\ Duplicate(Head(batch)) \/ ~Live(Head(batch))
    /\ CountError(1)
    /\ NextItem("admit")
    /\ UNCHANGED <<ex, active, admitted, started, closing, closed, stop, fatal, consecutive,
                   ending, queue, operation, reports>>

(* _poison_claim: the job is failed without an execution.                  *)
PoisonItem ==
    LET e == Head(batch) IN
    /\ drv["daemon"].pc = "admit" /\ batch # << >>
    /\ ~Duplicate(e) /\ ex[e].job \in Poison
    /\ Live(e) => operation = 0
    /\ \E ans \in Answers(e, "failure") :
          /\ \E r \in Rows(e, ans) : row' = [row EXCEPT ![ex[e].job] = r]
          /\ CountError(IF ans = "error" THEN 1 ELSE 0)
    /\ reports' = [reports EXCEPT ![e] = @ + 1]
    /\ admitted' = admitted \cup {ex[e].job}
    /\ NextItem("admit")
    /\ UNCHANGED <<ex, active, started, closing, closed, stop, fatal, consecutive, ending,
                   issued, operation>>

(* _start_execution registers the execution ...                            *)
RegisterItem ==
    LET e == Head(batch) IN
    /\ drv["daemon"].pc = "admit" /\ batch # << >>
    /\ ~Duplicate(e) /\ ex[e].job \notin Poison
    /\ active' = active \cup {e}
    /\ admitted' = admitted \cup {ex[e].job}
    /\ drv' = [drv EXCEPT !["daemon"].pc = "launch", !["daemon"].e = e]
    /\ batch' = Tail(batch)
    /\ UNCHANGED <<ex, flags, ending, queue, operation, reports>>

(* ... and then starts its thread.                                         *)
Launch ==
    LET e == drv["daemon"].e IN
    /\ drv["daemon"].pc = "launch"
    /\ \/ ex' = [ex EXCEPT ![e].thread = "started"]
       \/ /\ "fault" \in Events
          /\ ex' = [ex EXCEPT ![e].launch_failed = TRUE, ![e].handler_done = TRUE,
                              ![e].result = "error"]
    /\ Goto("daemon", "admit")
    /\ UNCHANGED <<active, batch, admitted, flags, ending, queue, operation, reports>>

(* The end of the cycle: one more pass.                                    *)
EndBatch ==
    /\ drv["daemon"].pc = "admit" /\ batch = << >>
    /\ admitted' = {}
    /\ MonitorPass("daemon", "poll")
    /\ UNCHANGED <<ex, active, batch, flags, ending, queue, operation, reports>>

Daemon ==
    \/ Start \/ Poll \/ Finish \/ Observe \/ ClaimJobs \/ RefuseItem \/ PoisonItem
    \/ RegisterItem \/ Launch \/ EndBatch \/ Monitor("daemon")

-----------------------------------------------------------------------------
(* Shutdown: DeploymentRuntime.shutdown around RealWorkerRuntime.shutdown *)

(* A runtime that is closed already reports that it is drained.            *)
BeginShutdown ==
    /\ drv["shutdown"].pc = "off"
    /\ "shutdown" \in Events \/ drv["daemon"].pc = "returned"
    /\ IF closed
         THEN /\ report' = "drained" /\ Goto("shutdown", "dispose")
              /\ UNCHANGED <<closing, stop>>
         ELSE /\ closing' = TRUE /\ stop' = TRUE /\ UNCHANGED report
              /\ drv' = [drv EXCEPT !["shutdown"].pc = "cancel", !["shutdown"].todo = active]
    /\ UNCHANGED <<ex, active, batch, admitted, started, closed, fatal, errors, consecutive,
                   deadline, resources, queue, operation, reports>>

(* Cancellation of the executions that were active when it began.          *)
CancelActive ==
    LET cancelled == {e \in drv["shutdown"].todo : ~logical_done(e)} IN
    /\ drv["shutdown"].pc = "cancel"
    /\ ex' = [e \in Claims |-> IF e \in cancelled THEN [ex[e] EXCEPT !.cancel = TRUE] ELSE ex[e]]
    /\ MonitorPass("shutdown", "check")
    /\ UNCHANGED <<active, batch, admitted, flags, ending, queue, operation, reports>>

(* Monitors until nothing is active or the deadline has passed, and once   *)
(* more after that.                                                        *)
CheckDrained ==
    /\ drv["shutdown"].pc = "check"
    /\ MonitorPass("shutdown", IF active = {} \/ deadline THEN "close" ELSE "check")
    /\ UNCHANGED <<ex, active, batch, admitted, flags, ending, queue, operation, reports>>

(* A timed out shutdown leaves the providers open and may be called again. *)
Close ==
    /\ drv["shutdown"].pc = "close"
    /\ closed' = TRUE
    /\ report' = IF active = {} THEN "drained" ELSE "timed_out"
    /\ Goto("shutdown", IF active = {} THEN "dispose" ELSE "off")
    /\ UNCHANGED <<ex, active, batch, admitted, started, closing, stop, fatal, errors,
                   consecutive, deadline, resources, queue, operation, reports>>

(* The worker has stopped: DeploymentRuntime closes the providers.         *)
CloseResources ==
    /\ drv["shutdown"].pc = "dispose"
    /\ resources' = FALSE
    /\ Goto("shutdown", "returned")
    /\ UNCHANGED <<ex, active, batch, admitted, flags, deadline, report, queue, operation, reports>>

Shutdown ==
    \/ BeginShutdown \/ CancelActive \/ CheckDrained \/ Close \/ CloseResources
    \/ Monitor("shutdown")

ShutdownDeadline ==
    /\ closing /\ ~deadline
    /\ deadline' = TRUE
    /\ UNCHANGED <<ex, active, drv, batch, admitted, flags, report, resources, queue,
                   operation, reports>>

-----------------------------------------------------------------------------
(* Handler threads: invoke *)

(* The token is checked before the handler is called.                      *)
EnterHandler(e) ==
    /\ ex[e].thread = "started"
    /\ ex' = [ex EXCEPT ![e] = IF ex[e].cancel
                THEN [ex[e] EXCEPT !.thread = "done", !.handler_done = TRUE,
                                   !.result = IF logical_done(e) THEN @ ELSE "cancelled"]
                ELSE [ex[e] EXCEPT !.thread = "handler"]]
    /\ UNCHANGED <<active, drv, batch, admitted, flags, ending, queue, operation, reports>>

(* The canonical ingestion holds the operation lock.                       *)
EnterIngest(e) ==
    /\ ex[e].thread = "handler" /\ operation = 0
    /\ operation' = e
    /\ ex' = [ex EXCEPT ![e].thread = "ingesting"]
    /\ UNCHANGED <<active, drv, batch, admitted, flags, ending, queue, reports>>

(* The handler returns or raises, and the thread reaps others.             *)
HandlerReturns(e) ==
    /\ ex[e].thread \in {"handler", "ingesting"}
    /\ \E r \in {"ok", "error", "recovery", "cancelled"} :
          ex' = [ex EXCEPT ![e].thread = "done", ![e].handler_done = TRUE,
                           ![e].result = IF logical_done(e) THEN @ ELSE r]
    /\ operation' = IF operation = e THEN 0 ELSE operation
    /\ active' = active \ Reaped
    /\ UNCHANGED <<drv, batch, admitted, flags, ending, queue, reports>>

ThreadExits(e) ==
    /\ ex[e].thread = "done"
    /\ ex' = [ex EXCEPT ![e].thread = "dead"]
    /\ active' = active \ Reaped
    /\ UNCHANGED <<drv, batch, admitted, flags, ending, queue, operation, reports>>

-----------------------------------------------------------------------------
(* Callers and the environment *)

Cancel(e) ==
    /\ "cancel" \in Events
    /\ e \in active /\ ~logical_done(e) /\ ~ex[e].cancel
    /\ ex' = [ex EXCEPT ![e].cancel = TRUE]
    /\ UNCHANGED <<active, drv, batch, admitted, flags, ending, queue, operation, reports>>

(* request_stop, as a signal handler calls it.                             *)
RequestStop ==
    /\ "stop" \in Events /\ ~stop
    /\ stop' = TRUE
    /\ UNCHANGED <<ex, active, drv, batch, admitted, started, closing, closed, fatal, errors,
                   consecutive, ending, queue, operation, reports>>

(* The handler deadline of e passes.                                       *)
DeadlinePasses(e) ==
    /\ "deadline" \in Events
    /\ e \in active /\ ~ex[e].late /\ ~logical_done(e)
    /\ ex' = [ex EXCEPT ![e].late = TRUE]
    /\ UNCHANGED <<active, drv, batch, admitted, flags, ending, queue, operation, reports>>

(* A lease runs out, or somebody else settles the job.                     *)
LeaseEnds(j) ==
    /\ "lease" \in Events
    /\ row[j].state = "open" /\ row[j].owner # 0
    /\ \E s \in {"expired", "closed"} : row' = [row EXCEPT ![j] = [state |-> s, owner |-> 0]]
    /\ UNCHANGED <<ex, active, drv, batch, admitted, flags, ending, issued, operation, reports>>

Environment ==
    \/ RequestStop \/ ShutdownDeadline
    \/ \E e \in Claims : Cancel(e) \/ DeadlinePasses(e)
    \/ \E j \in Jobs : LeaseEnds(j)

Threads == \E e \in Claims :
    EnterHandler(e) \/ EnterIngest(e) \/ HandlerReturns(e) \/ ThreadExits(e)

Init ==
    /\ ex = [e \in Claims |-> NoExecution]
    /\ active = {} /\ drv = [d \in Drivers |-> NoDriver]
    /\ batch = << >> /\ admitted = {}
    /\ started = FALSE /\ closing = FALSE /\ closed = FALSE /\ stop = FALSE /\ fatal = FALSE
    /\ errors = 0 /\ consecutive = 0
    /\ deadline = FALSE /\ report = "none" /\ resources = TRUE
    /\ row = [j \in Jobs |-> [state |-> "open", owner |-> 0]] /\ issued = 0
    /\ operation = 0 /\ reports = [e \in Claims |-> 0]

Next == Daemon \/ Shutdown \/ Threads \/ Environment

Spec == Init /\ [][Next]_vars

(* Both monitoring threads keep running, the launcher calls shutdown once  *)
(* run_forever has returned, started threads run and time passes.          *)
Progress ==
    /\ WF_vars(Daemon) /\ WF_vars(Shutdown) /\ WF_vars(ShutdownDeadline)
    /\ \A e \in Claims :
          WF_vars(EnterHandler(e)) /\ WF_vars(ThreadExits(e)) /\ WF_vars(DeadlinePasses(e))

(* A handler whose token is set returns: handlers are cooperative.         *)
Cooperative == \A e \in Claims : WF_vars(ex[e].cancel /\ HandlerReturns(e))

ProgressSpec == Spec /\ Progress /\ Cooperative

(* Handlers return in any case, for instance because their calls time out. *)
FairSpec == Spec /\ Progress /\ \A e \in Claims : WF_vars(HandlerReturns(e))

-----------------------------------------------------------------------------
(* Properties *)

TypeOK ==
    /\ ex \in [Claims -> Execution] /\ active \subseteq Claims
    /\ drv \in [Drivers -> Driver]
    /\ batch \in Seq(Claims) /\ admitted \subseteq Jobs
    /\ started \in BOOLEAN /\ closing \in BOOLEAN /\ closed \in BOOLEAN
    /\ stop \in BOOLEAN /\ fatal \in BOOLEAN
    /\ errors \in 0..MaxErrors /\ consecutive \in 0..MaxErrors
    /\ deadline \in BOOLEAN /\ resources \in BOOLEAN
    /\ report \in {"none", "drained", "timed_out"}
    /\ row \in [Jobs -> Row] /\ issued \in 0..MaxClaims
    /\ operation \in Claims \cup {0} /\ reports \in [Claims -> Nat]

(* Monitor, reaper and shutdown may all find one execution finished: the   *)
(* queue hears of each lease at most once.                                 *)
OneReportPerLease == \A e \in Claims : reports[e] <= 1

(* A slot stays taken until its thread has exited, whatever became of its  *)
(* lease meanwhile: no more threads than slots.                            *)
CapacityHeld == Cardinality({e \in Claims : LiveThread(e)}) <= MaxConcurrency

(* A job that is claimed again while its former thread is still running in *)
(* the process does not get a second thread.                               *)
OneThreadPerJob ==
    \A e, f \in Claims :
        LiveThread(e) /\ LiveThread(f) /\ ex[e].job = ex[f].job => e = f

(* An execution counts as succeeded only if its job has succeeded in the   *)
(* queue, whichever thread reported it and however late.                   *)
SuccessIsDurable ==
    \A e \in Claims : ex[e].outcome = "succeeded" => row[ex[e].job].state = "succeeded"

(* Every execution registered before shutdown gets an outcome: by its      *)
(* result, its deadline, a lost lease, or the shutdown itself.             *)
RegisteredSettles ==
    \A e \in Claims : (e \in active /\ ~closing) ~> logical_done(e)
=============================================================================
