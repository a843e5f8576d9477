---------------------------- MODULE RuntimeProofs ----------------------------
(***************************************************************************)
(* Proofs about WorkerRuntime for any number of jobs, slots and leases.    *)
(*                                                                         *)
(* An execution belongs to one place: it is not issued yet, it waits in    *)
(* the batch of the daemon, or it is registered, in _active or in the      *)
(* snapshot or the hands of a monitoring thread.  Only a registered one    *)
(* is finalised and only by one thread; and while the daemon admits a      *)
(* batch, `admitted` bounds what is active, so that a thread of a job that *)
(* has lost its lease keeps both its slot and its job.                     *)
(***************************************************************************)
EXTENDS WorkerRuntime, FiniteSetTheorems, SequenceTheorems, WellFoundedInduction, TLAPS

(* Execution e is in _active, or a monitoring thread may still look at it. *)
Registered(e) == e \in active \/ \E d \in Drivers : e \in drv[d].todo \/ e = drv[d].e

Admitting == drv["daemon"].pc \in {"claim", "admit", "launch"}

(* What holds of execution e.                                              *)
ExecutionInv(e) ==
    /\ e > issued => ex[e] = NoExecution /\ reports[e] = 0
    /\ Registered(e) => e <= issued /\ ex[e].job \in Jobs \ Poison
    /\ reports[e] <= 1
    /\ reports[e] = 1 => Owned(e) \/ ex[e].job \in Poison
    /\ LiveThread(e) => e \in active
    /\ ex[e].outcome = "succeeded" => ex[e].job \in Jobs /\ row[ex[e].job].state = "succeeded"

(* An item of the batch has not been touched.                              *)
ItemInv(e) ==
    /\ e <= issued /\ ex[e].job \in Jobs /\ reports[e] = 0 /\ ~Registered(e)
    /\ ex[e].thread = "none" /\ ~ex[e].handler_done

BatchInv ==
    /\ \A i \in 1..Len(batch) : ItemInv(batch[i])
    /\ \A i, j \in 1..Len(batch) : batch[i] = batch[j] => i = j
    /\ drv["daemon"].pc \notin {"admit", "launch"} => batch = << >>

LaunchInv ==
    drv["daemon"].pc = "launch" =>
       LET e == drv["daemon"].e
       IN  e \in active /\ ex[e].thread = "none" /\ ~ex[e].handler_done

(* One slot for each active execution, and one execution for each job.     *)
SlotsInv ==
    /\ \A e, f \in active : ex[e].job = ex[f].job => e = f
    /\ Cardinality(active) <= MaxConcurrency
    /\ Admitting => /\ \A e \in active : ex[e].job \in admitted
                    /\ Cardinality(admitted) + Len(batch) <= MaxConcurrency

DriverInv(d) ==
    /\ drv[d].pc \in {"begin", "call"} => drv[d].e # 0
    /\ drv[d].pc \in {"look", "begin", "call"} => drv[d].then # "none"

RuntimeInv ==
    /\ TypeOK
    /\ \A e \in Claims : ExecutionInv(e)
    /\ BatchInv /\ LaunchInv /\ SlotsInv
    /\ \A d \in Drivers : DriverInv(d)

-----------------------------------------------------------------------------
(* The values that executions and drivers take *)

Threads0 == {"none", "started", "handler", "ingesting", "done", "dead"}
LiveThreads == {"started", "handler", "ingesting", "done"}
Results == {"none", "ok", "error", "recovery", "cancelled"}
Outcomes == {"none", "succeeded", "failed", "cancelled", "lease_lost", "queue_error"}

LEMMA ExecutionFields ==
    ASSUME NEW x \in Execution
    PROVE  /\ x.job \in Jobs \cup {"none"} /\ x.thread \in Threads0 /\ x.result \in Results
           /\ x.handler_done \in BOOLEAN /\ x.cancel \in BOOLEAN /\ x.finalizing \in BOOLEAN
           /\ x.outcome \in Outcomes
BY Zenon DEF Execution, Threads0, Results, Outcomes

(* The forms in which an execution changes.                                *)
LEMMA ExecutionChanges ==
    ASSUME NEW x \in Execution, NEW r \in Results, NEW th \in Threads0, NEW o \in Outcomes
    PROVE  /\ [x EXCEPT !.cancel = TRUE] \in Execution
           /\ [x EXCEPT !.finalizing = TRUE] \in Execution
           /\ [x EXCEPT !.late = TRUE] \in Execution
           /\ [x EXCEPT !.lease_lost = TRUE, !.cancel = TRUE] \in Execution
           /\ [x EXCEPT !.thread = th] \in Execution
           /\ [x EXCEPT !.thread = th, !.handler_done = TRUE, !.result = r] \in Execution
           /\ [x EXCEPT !.launch_failed = TRUE, !.handler_done = TRUE, !.result = r] \in Execution
           /\ [x EXCEPT !.finalizing = FALSE, !.lease_lost = FALSE, !.late = FALSE, !.result = r,
                        !.outcome = o] \in Execution
           /\ \A j \in Jobs : [x EXCEPT !.job = j] \in Execution
<1>1. [x EXCEPT !.cancel = TRUE] \in Execution /\ [x EXCEPT !.finalizing = TRUE] \in Execution
  BY Zenon DEF Execution
<1>2. [x EXCEPT !.late = TRUE] \in Execution /\ [x EXCEPT !.lease_lost = TRUE, !.cancel = TRUE] \in Execution
  BY Zenon DEF Execution
<1>3. [x EXCEPT !.thread = th] \in Execution
  BY Zenon DEF Execution, Threads0
<1>4. [x EXCEPT !.thread = th, !.handler_done = TRUE, !.result = r] \in Execution
  BY Zenon DEF Execution, Threads0, Results
<1>5. [x EXCEPT !.launch_failed = TRUE, !.handler_done = TRUE, !.result = r] \in Execution
  BY Zenon DEF Execution, Results
<1>6. [x EXCEPT !.finalizing = FALSE, !.lease_lost = FALSE, !.late = FALSE, !.result = r,
                !.outcome = o] \in Execution
  BY Zenon DEF Execution, Results, Outcomes
<1>7. \A j \in Jobs : [x EXCEPT !.job = j] \in Execution
  BY Zenon DEF Execution
<1> QED
  BY <1>1, <1>2, <1>3, <1>4, <1>5, <1>6, <1>7

LEMMA ExecutionChanged ==
    ASSUME NEW x \in Execution, NEW r, NEW th, NEW o, NEW j
    PROVE  /\ LET y == [x EXCEPT !.cancel = TRUE]
              IN  /\ y.job = x.job /\ y.thread = x.thread /\ y.handler_done = x.handler_done
                  /\ y.finalizing = x.finalizing /\ y.outcome = x.outcome
           /\ LET y == [x EXCEPT !.finalizing = TRUE]
              IN  /\ y.job = x.job /\ y.thread = x.thread /\ y.handler_done = x.handler_done
                  /\ y.finalizing = TRUE /\ y.outcome = x.outcome
           /\ LET y == [x EXCEPT !.late = TRUE]
              IN  /\ y.job = x.job /\ y.thread = x.thread /\ y.handler_done = x.handler_done
                  /\ y.finalizing = x.finalizing /\ y.outcome = x.outcome
           /\ LET y == [x EXCEPT !.lease_lost = TRUE, !.cancel = TRUE]
              IN  /\ y.job = x.job /\ y.thread = x.thread /\ y.handler_done = x.handler_done
                  /\ y.finalizing = x.finalizing /\ y.outcome = x.outcome
           /\ LET y == [x EXCEPT !.thread = th]
              IN  /\ y.job = x.job /\ y.thread = th /\ y.handler_done = x.handler_done
                  /\ y.finalizing = x.finalizing /\ y.outcome = x.outcome
           /\ LET y == [x EXCEPT !.thread = th, !.handler_done = TRUE, !.result = r]
              IN  /\ y.job = x.job /\ y.thread = th
                  /\ y.finalizing = x.finalizing /\ y.outcome = x.outcome
           /\ LET y == [x EXCEPT !.launch_failed = TRUE, !.handler_done = TRUE, !.result = r]
              IN  /\ y.job = x.job /\ y.thread = x.thread
                  /\ y.finalizing = x.finalizing /\ y.outcome = x.outcome
           /\ LET y == [x EXCEPT !.finalizing = FALSE, !.lease_lost = FALSE, !.late = FALSE,
                                 !.result = r, !.outcome = o]
              IN  /\ y.job = x.job /\ y.thread = x.thread /\ y.handler_done = x.handler_done
                  /\ y.outcome = o
           /\ LET y == [x EXCEPT !.job = j]
              IN  /\ y.job = j /\ y.thread = x.thread /\ y.handler_done = x.handler_done
                  /\ y.finalizing = x.finalizing /\ y.outcome = x.outcome
BY Zenon DEF Execution

LEMMA FreshExecution ==
    /\ NoExecution \in Execution
    /\ NoExecution.job = "none" /\ NoExecution.thread = "none" /\ NoExecution.handler_done = FALSE
    /\ NoExecution.outcome = "none" /\ NoExecution.finalizing = FALSE
<1>1. NoExecution \in Execution
  BY Zenon DEF NoExecution, Execution
<1> QED
  BY <1>1 DEF NoExecution

Pcs == {"off", "poll", "observe", "claim", "admit", "launch", "cancel", "check", "close", "dispose",
        "finish", "returned", "look", "begin", "call"}
Returns == {"none", "poll", "observe", "check", "close", "finish"}
Kinds == {"none", "lost", "cancel", "timeout", "failure", "ack"}

LEMMA DriverFields ==
    ASSUME NEW x \in Driver
    PROVE  /\ x.pc \in Pcs /\ x.then \in Returns /\ x.todo \subseteq Claims /\ x.e \in Claims \cup {0}
           /\ x.kind \in Kinds
BY Zenon DEF Driver, Pcs, Returns, Kinds

LEMMA DriverChanges ==
    ASSUME NEW x \in Driver, NEW pc \in Pcs, NEW then \in Returns, NEW todo \in SUBSET Claims,
           NEW e \in Claims \cup {0}, NEW kind \in Kinds
    PROVE  /\ [x EXCEPT !.pc = pc] \in Driver
           /\ [x EXCEPT !.pc = pc, !.e = 0, !.kind = "none"] \in Driver
           /\ [x EXCEPT !.pc = pc, !.e = e] \in Driver
           /\ [x EXCEPT !.pc = pc, !.todo = todo] \in Driver
           /\ [x EXCEPT !.pc = pc, !.then = "none"] \in Driver
           /\ [x EXCEPT !.pc = pc, !.todo = todo, !.e = e, !.kind = kind] \in Driver
           /\ [x EXCEPT !.todo = todo] \in Driver
           /\ [pc |-> pc, then |-> then, todo |-> todo, e |-> e, kind |-> kind] \in Driver
<1>1. 0 \in Claims \cup {0} /\ "none" \in Kinds /\ "none" \in Returns
  BY DEF Kinds, Returns
<1>2. [x EXCEPT !.pc = pc] \in Driver
  BY Zenon DEF Driver, Pcs
<1>3. [x EXCEPT !.pc = pc, !.e = 0, !.kind = "none"] \in Driver
  BY <1>1, Zenon DEF Driver, Pcs, Kinds
<1>4. [x EXCEPT !.pc = pc, !.e = e] \in Driver
  BY Zenon DEF Driver, Pcs
<1>5. [x EXCEPT !.pc = pc, !.todo = todo] \in Driver
  BY Zenon DEF Driver, Pcs
<1>6. [x EXCEPT !.pc = pc, !.then = "none"] \in Driver
  BY <1>1, Zenon DEF Driver, Pcs, Returns
<1>7. [x EXCEPT !.pc = pc, !.todo = todo, !.e = e, !.kind = kind] \in Driver
  BY Zenon DEF Driver, Pcs, Kinds
<1>8. [x EXCEPT !.todo = todo] \in Driver
  BY Zenon DEF Driver
<1>9. [pc |-> pc, then |-> then, todo |-> todo, e |-> e, kind |-> kind] \in Driver
  BY Zenon DEF Driver, Pcs, Returns, Kinds
<1> QED
  BY <1>2, <1>3, <1>4, <1>5, <1>6, <1>7, <1>8, <1>9

LEMMA DriverChanged ==
    ASSUME NEW x \in Driver, NEW pc, NEW todo, NEW e, NEW kind
    PROVE  /\ LET y == [x EXCEPT !.pc = pc]
              IN  y.pc = pc /\ y.todo = x.todo /\ y.e = x.e /\ y.then = x.then
           /\ LET y == [x EXCEPT !.pc = pc, !.e = 0, !.kind = "none"]
              IN  y.pc = pc /\ y.todo = x.todo /\ y.e = 0 /\ y.then = x.then
           /\ LET y == [x EXCEPT !.pc = pc, !.e = e]
              IN  y.pc = pc /\ y.todo = x.todo /\ y.e = e /\ y.then = x.then
           /\ LET y == [x EXCEPT !.pc = pc, !.todo = todo]
              IN  y.pc = pc /\ y.todo = todo /\ y.e = x.e /\ y.then = x.then
           /\ LET y == [x EXCEPT !.pc = pc, !.then = "none"]
              IN  y.pc = pc /\ y.todo = x.todo /\ y.e = x.e /\ y.then = "none"
           /\ LET y == [x EXCEPT !.pc = pc, !.todo = todo, !.e = e, !.kind = kind]
              IN  y.pc = pc /\ y.todo = todo /\ y.e = e /\ y.then = x.then
           /\ LET y == [x EXCEPT !.todo = todo]
              IN  y.pc = x.pc /\ y.todo = todo /\ y.e = x.e /\ y.then = x.then
BY Zenon DEF Driver

(* Every nonempty set of naturals has a least element.                     *)
LEMMA LeastNatural ==
    ASSUME NEW S, S \subseteq Nat, S # {}
    PROVE  Min(S) \in S /\ \A j \in S : Min(S) <= j
<1> DEFINE R == {ss \in Nat \X Nat : ss[1] < ss[2]}
<1>1. IsWellFoundedOn(R, Nat)
  BY NatLessThanWellFounded DEF OpToRel
<1>2. PICK i \in S : \A j \in S : <<j, i>> \notin R
  <2> HIDE DEF R
  <2> QED BY <1>1, WFMin
<1>3. ASSUME NEW j \in S PROVE i <= j
  <2>1. <<j, i>> \in Nat \X Nat
    OBVIOUS
  <2> QED
    BY <1>2, <2>1
<1>4. \E k \in S : \A j \in S : k =< j
  BY <1>3
<1> QED
  BY <1>4, Zenon DEF Min

LEMMA ClaimsAreNatural == Claims \subseteq Nat /\ 0 \notin Claims /\ IsFiniteSet(Claims)
BY RuntimeAssumption, FS_Interval DEF Claims

LEMMA LeastTodo ==
    ASSUME TypeOK, NEW d \in Drivers, drv[d].todo # {}
    PROVE  Min(drv[d].todo) \in drv[d].todo /\ Min(drv[d].todo) \in Claims
<1>1. drv[d].todo \subseteq Claims
  BY DriverFields DEF TypeOK
<1> QED
  BY <1>1, ClaimsAreNatural, LeastNatural

-----------------------------------------------------------------------------
(* Steps that neither claim nor admit *)

(* What a step may do to execution e.                                      *)
Evolves(e) ==
    /\ ex'[e].job = ex[e].job
    /\ ~Registered(e) => ex'[e] = ex[e] /\ reports'[e] = reports[e]
    /\ LiveThread(e)' => LiveThread(e)
    /\ ex[e].thread = "none" => ex'[e].thread = "none" /\ ex'[e].handler_done = ex[e].handler_done
    /\ reports'[e] <= 1
    /\ reports'[e] = 1 => Owned(e)' \/ ex[e].job \in Poison
    /\ ex'[e].outcome = "succeeded" => ex[e].job \in Jobs /\ row'[ex[e].job].state = "succeeded"

(* No execution is registered, and the daemon admits nothing.              *)
Unregistering ==
    /\ \A e \in Claims : Registered(e)' => Registered(e)
    /\ \/ drv'["daemon"] = drv["daemon"]
       \/ /\ drv'["daemon"].pc \notin {"claim", "admit", "launch"}
          /\ drv["daemon"].pc \notin {"admit", "launch"}
    /\ \A d \in Drivers : DriverInv(d)'

LEMMA QuietKeeps ==
    ASSUME RuntimeInv, TypeOK', UNCHANGED <<batch, admitted, issued>>,
           active' \subseteq active, \A e \in active \ active' : Reapable(e),
           Unregistering, \A e \in Claims : Evolves(e)
    PROVE  RuntimeInv'
<1>1. TypeOK /\ active \subseteq Claims /\ batch \in Seq(Claims)
  BY DEF RuntimeInv, TypeOK
<1>2. ASSUME NEW e \in Claims PROVE ExecutionInv(e)'
  <2>1. ExecutionInv(e) /\ Evolves(e) /\ (Registered(e)' => Registered(e))
    BY DEF RuntimeInv, Unregistering
  <2>2. e > issued => ~Registered(e)
    BY <2>1, ClaimsAreNatural DEF ExecutionInv, RuntimeInv, TypeOK
  <2>3. LiveThread(e)' => e \in active'
    <3>1. LiveThread(e)' => e \in active /\ LiveThread(e)
      BY <2>1 DEF ExecutionInv, Evolves
    <3> QED
      BY <3>1 DEF Reapable
  <2> QED
    BY <2>1, <2>2, <2>3 DEF ExecutionInv, Evolves
<1>3. BatchInv'
  <2>1. ASSUME NEW i \in 1..Len(batch) PROVE ItemInv(batch[i])'
    <3>1. batch[i] \in Claims
      BY <1>1
    <3>2. ItemInv(batch[i]) /\ Evolves(batch[i]) /\ (Registered(batch[i])' => Registered(batch[i]))
      BY <3>1 DEF RuntimeInv, BatchInv, Unregistering
    <3> QED
      BY <3>2 DEF ItemInv, Evolves, Registered
  <2>2. drv'["daemon"].pc \notin {"admit", "launch"} => batch = << >>
    BY DEF Unregistering, RuntimeInv, BatchInv
  <2> QED
    BY <2>1, <2>2 DEF RuntimeInv, BatchInv
<1>4. LaunchInv'
  <2> DEFINE e == drv["daemon"].e
  <2>1. CASE drv'["daemon"].pc = "launch"
    <3>1. drv'["daemon"] = drv["daemon"]
      BY <2>1 DEF Unregistering
    <3>2. e \in active /\ ex[e].thread = "none" /\ ~ex[e].handler_done
      BY <2>1, <3>1 DEF RuntimeInv, LaunchInv
    <3>3. Evolves(e) /\ e \in active'
      BY <1>1, <3>2 DEF Reapable
    <3> QED
      BY <3>1, <3>2, <3>3 DEF LaunchInv, Evolves
  <2>2. CASE drv'["daemon"].pc # "launch"
    BY <2>2 DEF LaunchInv
  <2> QED
    BY <2>1, <2>2
<1>5. SlotsInv'
  <2>1. \A e \in active' : e \in active /\ ex'[e].job = ex[e].job
    BY <1>1 DEF Evolves
  <2>2. Cardinality(active') <= MaxConcurrency
    <3>1. IsFiniteSet(active) /\ Cardinality(active) \in Nat
      BY <1>1, ClaimsAreNatural, FS_Subset, FS_CardinalityType
    <3>2. IsFiniteSet(active') /\ Cardinality(active') <= Cardinality(active)
      BY <3>1, FS_Subset
    <3>3. Cardinality(active') \in Nat
      BY <3>2, FS_CardinalityType
    <3> QED
      BY <3>1, <3>2, <3>3, RuntimeAssumption DEF RuntimeInv, SlotsInv
  <2>3. Admitting' => Admitting
    BY DEF Unregistering, Admitting
  <2> QED
    BY <2>1, <2>2, <2>3 DEF RuntimeInv, SlotsInv
<1> QED
  BY <1>2, <1>3, <1>4, <1>5 DEF RuntimeInv, Unregistering

(* Nothing but the driver d moves, among the drivers.                      *)
LEMMA DriverMoves ==
    ASSUME RuntimeInv, NEW d \in Drivers, NEW X \in Driver, drv' = [drv EXCEPT ![d] = X],
           active' \subseteq active,
           \A e \in X.todo : Registered(e), X.e = 0 \/ Registered(X.e),
           X.pc \in {"begin", "call"} => X.e # 0, X.pc \in {"look", "begin", "call"} => X.then # "none",
           d = "daemon" => /\ X.pc \notin {"claim", "admit", "launch"}
                           /\ drv[d].pc \notin {"admit", "launch"}
    PROVE  drv' \in [Drivers -> Driver] /\ Unregistering
<1>1. drv'[d] = X /\ \A c \in Drivers : c # d => drv'[c] = drv[c]
  BY DEF RuntimeInv, TypeOK
<1>2. drv' \in [Drivers -> Driver]
  BY DEF RuntimeInv, TypeOK
<1>3. ASSUME NEW e \in Claims, Registered(e)' PROVE Registered(e)
  <2>1. e # 0
    BY ClaimsAreNatural
  <2> QED
    BY <1>1, <1>3, <2>1 DEF Registered
<1>4. \A c \in Drivers : DriverInv(c)'
  BY <1>1 DEF RuntimeInv, DriverInv
<1>5. "daemon" \in Drivers
  BY DEF Drivers
<1> QED
  BY <1>1, <1>2, <1>3, <1>4, <1>5 DEF Unregistering

LEMMA DriversStay ==
    ASSUME RuntimeInv, drv' = drv, active' \subseteq active
    PROVE  drv' \in [Drivers -> Driver] /\ Unregistering
BY DEF RuntimeInv, TypeOK, Unregistering, Registered, DriverInv

(* Nothing happens to the executions.                                      *)
LEMMA ExecutionsStay ==
    ASSUME RuntimeInv, ex' = ex, reports' = reports,
           \A j \in Jobs : row[j].state = "succeeded" => row'[j].state = "succeeded"
    PROVE  \A e \in Claims : Evolves(e)
BY DEF RuntimeInv, ExecutionInv, Evolves, LiveThread, Owned, logical_done

(* A registered execution changes without an outcome.                      *)
LEMMA ExecutionMoves ==
    ASSUME RuntimeInv, NEW e \in Claims, Registered(e), NEW Y \in Execution, ex' = [ex EXCEPT ![e] = Y],
           Y.job = ex[e].job, Y.outcome = ex[e].outcome, ex[e].finalizing => Y.finalizing,
           \/ Y.thread = ex[e].thread /\ Y.handler_done = ex[e].handler_done
           \/ LiveThread(e),
           UNCHANGED <<reports, row>>
    PROVE  ex' \in [Claims -> Execution] /\ \A f \in Claims : Evolves(f)
<1>1. ex'[e] = Y /\ (\A f \in Claims : f # e => ex'[f] = ex[f]) /\ ex' \in [Claims -> Execution]
  BY DEF RuntimeInv, TypeOK
<1>2. Evolves(e)
  <2>1. ExecutionInv(e)
    BY DEF RuntimeInv
  <2>2. LiveThread(e)' => LiveThread(e)
    BY <1>1 DEF LiveThread
  <2>3. ex[e].thread = "none" => ex'[e].thread = "none" /\ ex'[e].handler_done = ex[e].handler_done
    BY <1>1 DEF LiveThread
  <2>4. Owned(e) => Owned(e)'
    BY <1>1 DEF Owned, logical_done
  <2> QED
    BY <1>1, <2>1, <2>2, <2>3, <2>4 DEF ExecutionInv, Evolves
<1>3. ASSUME NEW f \in Claims, f # e PROVE Evolves(f)
  <2>1. ExecutionInv(f) /\ ex'[f] = ex[f]
    BY <1>1, <1>3 DEF RuntimeInv
  <2> QED
    BY <2>1 DEF ExecutionInv, Evolves, LiveThread, Owned, logical_done
<1> QED
  BY <1>1, <1>2, <1>3

(* A registered execution is finalised, as the queue knows.                *)
LEMMA ExecutionEnds ==
    ASSUME RuntimeInv, NEW e \in Claims, Registered(e), NEW o \in Outcomes \ {"none"},
           ex' = [ex EXCEPT ![e] = Finalized(ex[e], o)], reports' = reports,
           \A j \in Jobs : row[j].state = "succeeded" => row'[j].state = "succeeded",
           o = "succeeded" => row'[ex[e].job].state = "succeeded"
    PROVE  ex' \in [Claims -> Execution] /\ \A f \in Claims : Evolves(f)
<1> DEFINE p == IF ex[e].outcome = "none" THEN o ELSE ex[e].outcome
           Y == [ex[e] EXCEPT !.finalizing = FALSE, !.lease_lost = FALSE, !.late = FALSE,
                              !.result = "none", !.outcome = p]
<1>1. ex[e] \in Execution /\ ex[e].outcome \in Outcomes /\ "none" \in Results
  BY ExecutionFields DEF RuntimeInv, TypeOK, Results
<1>2. ex' = [ex EXCEPT ![e] = Y]
  BY DEF Finalized
<1>3. p \in Outcomes /\ p # "none" /\ (p = "succeeded" => ex[e].outcome = "succeeded" \/ o = "succeeded")
  BY <1>1
<1> HIDE DEF p
<1>4. Y \in Execution
  BY <1>1, <1>3, ExecutionChanges DEF Threads0
<1>5. /\ Y.job = ex[e].job /\ Y.thread = ex[e].thread /\ Y.handler_done = ex[e].handler_done
      /\ Y.outcome = p
  BY <1>1, ExecutionChanged
<1> HIDE DEF Y
<1>6. ex'[e] = Y /\ (\A f \in Claims : f # e => ex'[f] = ex[f]) /\ ex' \in [Claims -> Execution]
  BY <1>2, <1>4 DEF RuntimeInv, TypeOK
<1>7. Evolves(e)
  <2>1. ExecutionInv(e) /\ ex[e].job \in Jobs
    BY DEF RuntimeInv, ExecutionInv
  <2>2. LiveThread(e)' => LiveThread(e)
    BY <1>5, <1>6 DEF LiveThread
  <2>3. Owned(e)'
    BY <1>3, <1>5, <1>6 DEF Owned, logical_done
  <2>4. ex'[e].outcome = "succeeded" => row'[ex[e].job].state = "succeeded"
    BY <1>3, <1>5, <1>6, <2>1 DEF ExecutionInv
  <2> QED
    BY <1>5, <1>6, <2>1, <2>2, <2>3, <2>4 DEF ExecutionInv, Evolves
<1>8. ASSUME NEW f \in Claims, f # e PROVE Evolves(f)
  <2>1. ExecutionInv(f) /\ ex'[f] = ex[f]
    BY <1>6, <1>8 DEF RuntimeInv
  <2> QED
    BY <2>1 DEF ExecutionInv, Evolves, LiveThread, Owned, logical_done
<1> QED
  BY <1>6, <1>7, <1>8

-----------------------------------------------------------------------------
(* Types of the next state *)

FlagsOK ==
    /\ started \in BOOLEAN /\ closing \in BOOLEAN /\ closed \in BOOLEAN
    /\ stop \in BOOLEAN /\ fatal \in BOOLEAN
    /\ deadline \in BOOLEAN /\ resources \in BOOLEAN
    /\ report \in {"none", "drained", "timed_out"}

CountsOK == errors \in 0..MaxErrors /\ consecutive \in 0..MaxErrors

LEMMA FlagsStay ==
    ASSUME TypeOK, UNCHANGED <<flags, ending>>
    PROVE  FlagsOK' /\ CountsOK'
BY DEF TypeOK, FlagsOK, CountsOK, flags, ending

LEMMA CountsFit ==
    ASSUME TypeOK, NEW n \in Nat, CountError(n), consecutive' = consecutive
    PROVE  CountsOK'
<1>1. errors \in 0..MaxErrors /\ consecutive \in 0..MaxErrors /\ MaxErrors \in Nat
  BY RuntimeAssumption DEF TypeOK
<1>2. {MaxErrors, errors + n} \subseteq Nat /\ {MaxErrors, errors + n} # {}
  BY <1>1
<1>3. Min({MaxErrors, errors + n}) \in Nat /\ Min({MaxErrors, errors + n}) <= MaxErrors
  BY <1>2, LeastNatural
<1> QED
  BY <1>1, <1>3 DEF CountsOK, CountError

LEMMA ConsumeFits ==
    ASSUME TypeOK, NEW final \in BOOLEAN, Consume(final), UNCHANGED <<started, closing, closed, ending>>
    PROVE  FlagsOK' /\ CountsOK'
<1>1. errors \in 0..MaxErrors /\ consecutive \in 0..MaxErrors /\ MaxErrors \in Nat
  BY RuntimeAssumption DEF TypeOK
<1>2. {MaxErrors, consecutive + errors} \subseteq Nat /\ {MaxErrors, consecutive + errors} # {}
  BY <1>1
<1>3. /\ Min({MaxErrors, consecutive + errors}) \in Nat
      /\ Min({MaxErrors, consecutive + errors}) <= MaxErrors
  BY <1>2, LeastNatural
<1>4. CountsOK'
  BY <1>1, <1>3 DEF CountsOK, Consume
<1>5. stop' \in BOOLEAN /\ fatal' \in BOOLEAN
  BY Zenon DEF Consume
<1> QED
  BY <1>4, <1>5 DEF FlagsOK, TypeOK, ending

(* A step that leaves the batch, what is admitted and the leases issued,   *)
(* and only removes what may be reaped.                                    *)
LEMMA QuietStep ==
    ASSUME RuntimeInv, FlagsOK', CountsOK', ex' \in [Claims -> Execution],
           drv' \in [Drivers -> Driver], row' \in [Jobs -> Row], operation' \in Claims \cup {0},
           reports' \in [Claims -> Nat], UNCHANGED <<batch, admitted, issued>>,
           active' = active \/ active' = active \ Reaped,
           Unregistering, \A e \in Claims : Evolves(e)
    PROVE  RuntimeInv'
<1>1. active' \subseteq active /\ \A e \in active \ active' : Reapable(e)
  BY DEF Reaped
<1>2. TypeOK'
  BY <1>1 DEF RuntimeInv, TypeOK, FlagsOK, CountsOK
<1> QED
  BY <1>1, <1>2, QuietKeeps

(* What the queue answers fits the row.                                    *)
LEMMA AnswerFits ==
    ASSUME TypeOK, NEW e \in Claims, ex[e].job \in Jobs, NEW kind \in Kinds, NEW ans \in Answers(e, kind),
           NEW r \in Rows(e, ans), row' = [row EXCEPT ![ex[e].job] = r]
    PROVE  /\ row' \in [Jobs -> Row]
           /\ \A j \in Jobs : row[j].state = "succeeded" => row'[j].state = "succeeded"
           /\ Outcome(kind, ans) \in Outcomes \ {"none"}
           /\ Outcome(kind, ans) = "succeeded" => row'[ex[e].job].state = "succeeded"
<1> DEFINE j0 == ex[e].job
<1>1. row \in [Jobs -> Row] /\ row[j0] \in Row
  BY DEF TypeOK
<1>2. ans \in {"succeeded", "running", "cancelled", "failed", "lease", "error"}
  BY DEF Answers
<1>3. ~Live(e) => ans \in {"lease", "error"}
  BY DEF Answers
<1>4. Live(e) => row[j0].state = "open"
  BY DEF Live
<1>5. \/ ans = "succeeded" /\ r = [state |-> "succeeded", owner |-> 0]
      \/ ans # "succeeded" /\ Live(e) /\ r = [state |-> "closed", owner |-> 0]
      \/ ans # "succeeded" /\ Live(e) /\ r = [state |-> "open", owner |-> 0]
      \/ ans # "succeeded" /\ r = row[j0]
  BY <1>2, <1>3 DEF Rows
<1>6. r \in Row
  BY <1>1, <1>5 DEF Row
<1>7. row[j0].state = "succeeded" => r.state = "succeeded"
  BY <1>4, <1>5
<1>8. Outcome(kind, ans) \in Outcomes \ {"none"} /\ (Outcome(kind, ans) = "succeeded" => ans = "succeeded")
  BY <1>2 DEF Outcome, Outcomes
<1>9. row'[j0] = r /\ \A j \in Jobs : j # j0 => row'[j] = row[j]
  BY <1>1
<1> QED
  BY <1>1, <1>5, <1>6, <1>7, <1>8, <1>9

(* The two ways in which a driver that admits nothing goes on.             *)
LEMMA GotoFits ==
    ASSUME RuntimeInv, NEW d \in Drivers, NEW pc \in Pcs, Goto(d, pc), active' \subseteq active,
           pc \notin {"claim", "admit", "launch", "begin", "call"}, drv[d].pc \notin {"admit", "launch"},
           pc = "look" => drv[d].pc \in {"look", "begin", "call"}
    PROVE  drv' \in [Drivers -> Driver] /\ Unregistering
<1> DEFINE X == [drv[d] EXCEPT !.pc = pc, !.e = 0, !.kind = "none"]
<1>1. drv \in [Drivers -> Driver] /\ drv[d] \in Driver
  BY DEF RuntimeInv, TypeOK
<1>2. drv' = [drv EXCEPT ![d] = X]
  BY <1>1 DEF Goto
<1>3. X \in Driver
  BY <1>1, DriverChanges, Zenon DEF Returns, Kinds
<1>4. X.pc = pc /\ X.todo = drv[d].todo /\ X.e = 0 /\ X.then = drv[d].then
  BY <1>1, DriverChanged
<1> HIDE DEF X
<1>6. pc = "look" => drv[d].then # "none"
  BY DEF RuntimeInv, DriverInv
<1>5. \A e \in X.todo : Registered(e)
  BY <1>4 DEF Registered
<1> QED
  BY <1>2, <1>3, <1>4, <1>5, <1>6, DriverMoves

LEMMA PassFits ==
    ASSUME RuntimeInv, NEW d \in Drivers, NEW then \in Returns \ {"none"}, MonitorPass(d, then), active' \subseteq active,
           drv[d].pc \notin {"admit", "launch"}
    PROVE  drv' \in [Drivers -> Driver] /\ Unregistering
<1> DEFINE X == [pc |-> "look", then |-> then, todo |-> active, e |-> 0, kind |-> "none"]
<1>1. drv[d] \in Driver /\ active \in SUBSET Claims /\ "look" \in Pcs /\ "none" \in Kinds
  BY DEF RuntimeInv, TypeOK, Pcs, Kinds
<1>2. drv' = [drv EXCEPT ![d] = X]
  BY DEF MonitorPass
<1>3. X \in Driver
  BY <1>1, DriverChanges
<1>4. X.pc = "look" /\ X.todo = active /\ X.e = 0 /\ X.then = then
  OBVIOUS
<1> HIDE DEF X
<1>5. \A e \in X.todo : Registered(e)
  BY <1>4 DEF Registered
<1> QED
  BY <1>2, <1>3, <1>4, <1>5, DriverMoves

LEMMA TypesKnown ==
    ASSUME RuntimeInv
    PROVE  /\ TypeOK /\ ex \in [Claims -> Execution] /\ drv \in [Drivers -> Driver]
           /\ row \in [Jobs -> Row] /\ operation \in Claims \cup {0} /\ reports \in [Claims -> Nat]
           /\ "daemon" \in Drivers /\ "shutdown" \in Drivers
BY DEF RuntimeInv, TypeOK, Drivers

-----------------------------------------------------------------------------
(* The steps of a monitoring pass *)

LEMMA MonitorOneKeeps ==
    ASSUME RuntimeInv, NEW d \in Drivers, monitor_one(d)
    PROVE  RuntimeInv'
<1> DEFINE e == Min(drv[d].todo)
           X == [drv[d] EXCEPT !.pc = "begin", !.todo = @ \ {e}, !.e = e, !.kind = Found(e)]
           Z == [drv[d] EXCEPT !.todo = @ \ {e}]
           Y == [ex[e] EXCEPT !.cancel = TRUE]
<1>1. drv[d].pc = "look" /\ e \in drv[d].todo /\ e \in Claims /\ drv[d].then # "none"
  BY TypesKnown, LeastTodo DEF monitor_one, RuntimeInv, DriverInv
<1>2. Registered(e) /\ \A f \in drv[d].todo \ {e} : Registered(f)
  BY <1>1 DEF Registered
<1>3. FlagsOK' /\ CountsOK'
  BY TypesKnown, FlagsStay DEF monitor_one
<1>4. drv[d] \in Driver /\ ex[e] \in Execution /\ drv[d].todo \ {e} \in SUBSET Claims /\ e # 0
  BY <1>1, TypesKnown, DriverFields, ClaimsAreNatural
<1>5. Found(e) \in Kinds /\ "begin" \in Pcs
  BY DEF Found, finalize_handler, Kinds, Pcs
<1>6. drv' \in [Drivers -> Driver] /\ Unregistering
  <2>1. CASE drv' = [drv EXCEPT ![d] = X]
    <3>1. X \in Driver
      BY <1>1, <1>4, <1>5, DriverChanges DEF Returns
    <3>2. X.pc = "begin" /\ X.todo = drv[d].todo \ {e} /\ X.e = e /\ X.then = drv[d].then
      BY <1>4, DriverChanged
    <3> HIDE DEF X, e
    <3> QED
      BY <1>1, <1>2, <1>4, <2>1, <3>1, <3>2, DriverMoves DEF monitor_one
  <2>2. CASE drv' = [drv EXCEPT ![d] = Z]
    <3>1. Z \in Driver
      BY <1>1, <1>4, <1>5, DriverChanges DEF Returns
    <3>2. Z.pc = drv[d].pc /\ Z.todo = drv[d].todo \ {e} /\ Z.e = drv[d].e /\ Z.then = drv[d].then
      BY <1>4, DriverChanged
    <3>3. Z.e = 0 \/ Registered(Z.e)
      BY <3>2 DEF Registered
    <3> HIDE DEF Z, e
    <3> QED
      BY <1>1, <1>2, <1>4, <2>2, <3>1, <3>2, <3>3, DriverMoves DEF monitor_one
  <2>3. drv' = [drv EXCEPT ![d] = X] \/ drv' = [drv EXCEPT ![d] = Z]
    BY <1>4, TypesKnown DEF monitor_one
  <2> QED
    BY <2>1, <2>2, <2>3
<1>7. ex' \in [Claims -> Execution] /\ \A f \in Claims : Evolves(f)
  <2>1. CASE ex' = ex
    BY <2>1, TypesKnown, ExecutionsStay DEF monitor_one, queue
  <2>2. CASE ex' = [ex EXCEPT ![e] = Y]
    <3>1. Y \in Execution
      BY <1>4, ExecutionChanges DEF Results, Threads0, Outcomes
    <3>2. /\ Y.job = ex[e].job /\ Y.thread = ex[e].thread /\ Y.handler_done = ex[e].handler_done
          /\ Y.finalizing = ex[e].finalizing /\ Y.outcome = ex[e].outcome
      BY <1>4, ExecutionChanged
    <3> HIDE DEF Y, e
    <3> QED
      BY <1>1, <1>2, <2>2, <3>1, <3>2, ExecutionMoves DEF monitor_one, queue
  <2>3. ex' = ex \/ ex' = [ex EXCEPT ![e] = Y]
    BY DEF monitor_one
  <2> QED
    BY <2>1, <2>2, <2>3
<1> QED
  BY <1>3, <1>6, <1>7, TypesKnown, QuietStep DEF monitor_one, queue

LEMMA HeartbeatKeeps ==
    ASSUME RuntimeInv, NEW d \in Drivers, heartbeat(d)
    PROVE  RuntimeInv'
<1> DEFINE e == Min(drv[d].todo)
           X == [drv[d] EXCEPT !.pc = "begin", !.todo = @ \ {e}, !.e = e, !.kind = "lost"]
           Y == [ex[e] EXCEPT !.lease_lost = TRUE, !.cancel = TRUE]
<1>1. drv[d].pc = "look" /\ e \in drv[d].todo /\ e \in Claims /\ drv[d].then # "none"
  BY TypesKnown, LeastTodo DEF heartbeat, RuntimeInv, DriverInv
<1>2. Registered(e) /\ \A f \in drv[d].todo \ {e} : Registered(f)
  BY <1>1 DEF Registered
<1>3. FlagsOK' /\ CountsOK'
  BY TypesKnown, FlagsStay DEF heartbeat
<1>4. drv[d] \in Driver /\ ex[e] \in Execution /\ drv[d].todo \ {e} \in SUBSET Claims /\ e # 0
  BY <1>1, TypesKnown, DriverFields, ClaimsAreNatural
<1>5. "lost" \in Kinds /\ "begin" \in Pcs
  BY DEF Kinds, Pcs
<1>6. drv' \in [Drivers -> Driver] /\ Unregistering
  <2>1. X \in Driver
    <3>1. e \in Claims \cup {0} /\ "none" \in Returns
      BY <1>1 DEF Returns
    <3> HIDE DEF e
    <3> QED
      BY <1>4, <1>5, <3>1, DriverChanges, Zenon
  <2>2. X.pc = "begin" /\ X.todo = drv[d].todo \ {e} /\ X.e = e /\ X.then = drv[d].then
    BY <1>4, DriverChanged
  <2>3. drv' = [drv EXCEPT ![d] = X]
    BY <1>4, TypesKnown DEF heartbeat
  <2> HIDE DEF X, e
  <2> QED
    BY <1>1, <1>2, <1>4, <2>1, <2>2, <2>3, DriverMoves DEF heartbeat
<1>7. ex' \in [Claims -> Execution] /\ \A f \in Claims : Evolves(f)
  <2>1. Y \in Execution
    BY <1>4, ExecutionChanges DEF Results, Threads0, Outcomes
  <2>2. /\ Y.job = ex[e].job /\ Y.thread = ex[e].thread /\ Y.handler_done = ex[e].handler_done
        /\ Y.finalizing = ex[e].finalizing /\ Y.outcome = ex[e].outcome
    BY <1>4, ExecutionChanged
  <2>3. ex' = [ex EXCEPT ![e] = Y]
    BY <1>4, TypesKnown DEF heartbeat
  <2> HIDE DEF Y, e
  <2> QED
    BY <1>1, <1>2, <2>1, <2>2, <2>3, ExecutionMoves DEF heartbeat, queue
<1> QED
  BY <1>3, <1>6, <1>7, TypesKnown, QuietStep DEF heartbeat, queue

LEMMA BeginKeeps ==
    ASSUME RuntimeInv, NEW d \in Drivers, begin_finalization(d)
    PROVE  RuntimeInv'
<1> DEFINE e == drv[d].e
           X == [drv[d] EXCEPT !.pc = "call"]
           Y == [ex[e] EXCEPT !.finalizing = TRUE]
<1>1. /\ drv[d] \in Driver /\ drv[d].pc = "begin" /\ e \in Claims /\ e # 0 /\ Registered(e)
      /\ drv[d].then # "none"
  <2>1. drv[d] \in Driver /\ e \in Claims \cup {0}
    BY TypesKnown, DriverFields
  <2> QED
    BY <2>1 DEF begin_finalization, RuntimeInv, DriverInv, Registered
<1>2. ExecutionInv(e) /\ ex[e] \in Execution
  BY <1>1, TypesKnown DEF RuntimeInv
<1>3. FlagsOK' /\ CountsOK'
  BY TypesKnown, FlagsStay DEF begin_finalization
<1>4. "look" \in Pcs /\ "call" \in Pcs /\ "none" \in Returns /\ "none" \in Kinds
  BY DEF Pcs, Returns, Kinds
<1>5. /\ UNCHANGED <<active, batch, admitted, issued, row, operation>>
      /\ row' \in [Jobs -> Row] /\ operation' \in Claims \cup {0}
  BY TypesKnown DEF begin_finalization, queue
<1>6. CASE Goto(d, "look") /\ UNCHANGED <<ex, reports>>
  <2>1. drv' \in [Drivers -> Driver] /\ Unregistering
    BY <1>1, <1>4, <1>5, <1>6, GotoFits
  <2>2. \A f \in Claims : Evolves(f)
    BY <1>5, <1>6, ExecutionsStay
  <2> QED
    BY <1>3, <1>5, <1>6, <2>1, <2>2, TypesKnown, QuietStep
<1>7. CASE Goto(d, "look") /\ UNCHANGED reports /\ ex' = [ex EXCEPT ![e] = Finalized(ex[e], "lease_lost")]
  <2>1. drv' \in [Drivers -> Driver] /\ Unregistering
    BY <1>1, <1>4, <1>5, <1>7, GotoFits
  <2>2. "lease_lost" \in Outcomes \ {"none"}
    BY DEF Outcomes
  <2>3. ex' \in [Claims -> Execution] /\ \A f \in Claims : Evolves(f)
    <3> HIDE DEF e
    <3> QED
      BY <1>1, <1>5, <1>7, <2>2, ExecutionEnds
  <2> QED
    BY <1>3, <1>5, <1>7, <2>1, <2>3, TypesKnown, QuietStep
<1>8. CASE /\ ~Owned(e) /\ ex' = [ex EXCEPT ![e] = Y] /\ drv' = [drv EXCEPT ![d] = X]
           /\ reports' = [reports EXCEPT ![e] = @ + 1]
  <2>1. drv' \in [Drivers -> Driver] /\ Unregistering
    <3>1. X \in Driver
      BY <1>1, <1>4, DriverChanges, Zenon
    <3>2. X.pc = "call" /\ X.todo = drv[d].todo /\ X.e = e /\ X.then = drv[d].then
      BY <1>1, DriverChanged
    <3>3. \A f \in X.todo : Registered(f)
      BY <3>2 DEF Registered
    <3> HIDE DEF X, e
    <3> QED
      BY <1>1, <1>5, <1>8, <3>1, <3>2, <3>3, DriverMoves
  <2>2. Y \in Execution
    BY <1>2, ExecutionChanges DEF Results, Threads0, Outcomes
  <2>3. /\ Y.job = ex[e].job /\ Y.thread = ex[e].thread /\ Y.handler_done = ex[e].handler_done
        /\ Y.finalizing = TRUE /\ Y.outcome = ex[e].outcome
    BY <1>2, ExecutionChanged
  <2> HIDE DEF Y, e
  <2>4. ex'[e] = Y /\ (\A f \in Claims : f # e => ex'[f] = ex[f]) /\ ex' \in [Claims -> Execution]
    BY <1>1, <1>8, <2>2, TypesKnown
  <2>5. reports[e] \in Nat /\ reports[e] <= 1 /\ ex[e].job \in Jobs \ Poison
    BY <1>1, <1>2, TypesKnown DEF ExecutionInv
  <2>6. reports[e] = 0
    BY <1>2, <1>8, <2>5 DEF ExecutionInv
  <2>7. /\ reports' \in [Claims -> Nat] /\ reports'[e] = 1
        /\ \A f \in Claims : f # e => reports'[f] = reports[f]
    BY <1>1, <1>8, <2>6, TypesKnown
  <2>8. ASSUME NEW f \in Claims, f = e PROVE Evolves(f)
    <3>1. LiveThread(f)' => LiveThread(f)
      BY <2>3, <2>4, <2>8 DEF LiveThread
    <3>2. Owned(f)'
      BY <2>3, <2>4, <2>8 DEF Owned
    <3> QED
      BY <1>1, <1>2, <2>8, <1>5, <2>3, <2>4, <2>7, <3>1, <3>2 DEF Evolves, ExecutionInv
  <2>9. ASSUME NEW f \in Claims, f # e PROVE Evolves(f)
    <3>1. ExecutionInv(f) /\ ex'[f] = ex[f] /\ reports'[f] = reports[f]
      BY <2>4, <2>7, <2>9 DEF RuntimeInv
    <3> QED
      BY <1>5, <3>1 DEF ExecutionInv, Evolves, LiveThread, Owned, logical_done
  <2> QED
    BY <1>3, <1>5, <2>1, <2>4, <2>7, <2>8, <2>9, QuietStep
<1> QED
  BY <1>6, <1>7, <1>8, TypesKnown DEF begin_finalization

LEMMA CallKeeps ==
    ASSUME RuntimeInv, NEW d \in Drivers, FinalizingCall(d)
    PROVE  RuntimeInv'
<1> DEFINE e == drv[d].e
           kind == drv[d].kind
<1>1. /\ drv[d] \in Driver /\ drv[d].pc = "call" /\ e \in Claims /\ e # 0 /\ Registered(e)
      /\ kind \in Kinds
  <2>1. drv[d] \in Driver /\ e \in Claims \cup {0} /\ kind \in Kinds
    BY TypesKnown, DriverFields
  <2> QED
    BY <2>1 DEF FinalizingCall, RuntimeInv, DriverInv, Registered
<1>2. ExecutionInv(e) /\ ex[e].job \in Jobs
  BY <1>1 DEF RuntimeInv, ExecutionInv
<1>3. PICK ans \in Answers(e, kind) :
         /\ \E r \in Rows(e, ans) : row' = [row EXCEPT ![ex[e].job] = r]
         /\ CountError(IF ans = "error" THEN 1 ELSE 0)
         /\ ex' = [ex EXCEPT ![e] = Finalized(ex[e], Outcome(kind, ans))]
  BY DEF FinalizingCall
<1>4. PICK r \in Rows(e, ans) : row' = [row EXCEPT ![ex[e].job] = r]
  BY <1>3
<1>5. /\ UNCHANGED <<active, batch, admitted, issued, operation, reports, consecutive, ending>>
      /\ UNCHANGED <<started, closing, closed, stop, fatal>> /\ Goto(d, "look")
  BY DEF FinalizingCall
<1>6. CountsOK' /\ FlagsOK'
  <2>1. (IF ans = "error" THEN 1 ELSE 0) \in Nat
    OBVIOUS
  <2>2. CountsOK'
    BY <1>3, <1>5, <2>1, CountsFit, TypesKnown
  <2> QED
    BY <1>5, <2>2, TypesKnown DEF FlagsOK, TypeOK, ending
<1>7. drv' \in [Drivers -> Driver] /\ Unregistering
  <2>1. "look" \in Pcs
    BY DEF Pcs
  <2> QED
    BY <1>1, <1>5, <2>1, GotoFits
<1> HIDE DEF e, kind
<1>8. /\ row' \in [Jobs -> Row]
      /\ \A j \in Jobs : row[j].state = "succeeded" => row'[j].state = "succeeded"
      /\ Outcome(kind, ans) \in Outcomes \ {"none"}
      /\ Outcome(kind, ans) = "succeeded" => row'[ex[e].job].state = "succeeded"
  BY <1>1, <1>2, <1>4, TypesKnown, AnswerFits
<1>9. ex' \in [Claims -> Execution] /\ \A f \in Claims : Evolves(f)
  BY <1>1, <1>3, <1>5, <1>8, ExecutionEnds
<1> QED
  BY <1>5, <1>6, <1>7, <1>8, <1>9, TypesKnown, QuietStep

LEMMA ReturnKeeps ==
    ASSUME RuntimeInv, NEW d \in Drivers, monitor_return(d)
    PROVE  RuntimeInv'
<1> DEFINE X == [drv[d] EXCEPT !.pc = drv[d].then, !.then = "none"]
<1>1. /\ drv[d] \in Driver /\ drv[d].pc = "look" /\ drv[d].then \in Returns \ {"none"}
      /\ drv' = [drv EXCEPT ![d] = X]
  BY TypesKnown, DriverFields DEF monitor_return, RuntimeInv, DriverInv
<1>2. drv[d].then \in Pcs /\ drv[d].then \notin {"claim", "admit", "launch", "look", "begin", "call"}
  BY <1>1 DEF Returns, Pcs
<1>3. X \in Driver
  <2>1. "none" \in Returns /\ "none" \in Kinds /\ 0 \in Claims \cup {0} /\ {} \in SUBSET Claims
    BY DEF Returns, Kinds
  <2> QED
    BY <1>1, <1>2, <2>1, DriverChanges, Zenon
<1>4. X.pc = drv[d].then /\ X.todo = drv[d].todo /\ X.e = drv[d].e
  BY <1>1, DriverChanged
<1> HIDE DEF X
<1>5. active' \subseteq active /\ active' = active \ Reaped
  BY DEF monitor_return
<1>6. (\A f \in X.todo : Registered(f)) /\ (X.e = 0 \/ Registered(X.e))
  BY <1>4 DEF Registered
<1>7. drv' \in [Drivers -> Driver] /\ Unregistering
  BY <1>1, <1>2, <1>3, <1>4, <1>5, <1>6, DriverMoves
<1>8. FlagsOK' /\ CountsOK'
  BY TypesKnown, FlagsStay DEF monitor_return
<1>9. UNCHANGED <<ex, batch, admitted, row, issued, operation, reports>>
  BY DEF monitor_return, queue
<1>10. \A f \in Claims : Evolves(f)
  BY <1>9, ExecutionsStay
<1> QED
  BY <1>5, <1>7, <1>8, <1>9, <1>10, TypesKnown, QuietStep

-----------------------------------------------------------------------------
(* The daemon outside of an admission, and the shutdown *)

LEMMA StartKeeps == ASSUME RuntimeInv, Start PROVE RuntimeInv'
<1>1. UNCHANGED <<ex, active, batch, admitted, row, issued, operation, reports>>
  BY DEF Start, queue
<1>2. FlagsOK' /\ CountsOK'
  BY TypesKnown, Zenon DEF Start, TypeOK, FlagsOK, CountsOK, ending
<1>3. PICK pc \in {"returned", "poll"} : Goto("daemon", pc)
  BY DEF Start
<1>4. drv' \in [Drivers -> Driver] /\ Unregistering
  <2>1. pc \in Pcs /\ drv["daemon"].pc = "off"
    BY DEF Pcs, Start
  <2> QED
    BY <1>1, <1>3, <2>1, TypesKnown, GotoFits
<1> QED
  BY <1>1, <1>2, <1>4, TypesKnown, ExecutionsStay, QuietStep

LEMMA PollKeeps == ASSUME RuntimeInv, Poll PROVE RuntimeInv'
<1>1. UNCHANGED <<ex, active, batch, admitted, row, issued, operation, reports>>
  BY DEF Poll, queue
<1>2. FlagsOK' /\ CountsOK'
  BY TypesKnown, ConsumeFits DEF Poll
<1>3. PICK then \in {"finish", "observe"} : MonitorPass("daemon", then)
  BY DEF Poll
<1>4. drv' \in [Drivers -> Driver] /\ Unregistering
  <2>1. then \in Returns \ {"none"} /\ drv["daemon"].pc = "poll"
    BY DEF Returns, Poll
  <2> QED
    BY <1>1, <1>3, <2>1, TypesKnown, PassFits
<1> QED
  BY <1>1, <1>2, <1>4, TypesKnown, ExecutionsStay, QuietStep

LEMMA FinishKeeps == ASSUME RuntimeInv, Finish PROVE RuntimeInv'
<1>1. UNCHANGED <<ex, active, batch, admitted, row, issued, operation, reports>>
  BY DEF Finish, queue
<1>2. FlagsOK' /\ CountsOK'
  BY TypesKnown, ConsumeFits DEF Finish
<1>3. drv' \in [Drivers -> Driver] /\ Unregistering
  <2>1. "returned" \in Pcs /\ drv["daemon"].pc = "finish" /\ Goto("daemon", "returned")
    BY DEF Pcs, Finish
  <2> QED
    BY <1>1, <2>1, TypesKnown, GotoFits
<1> QED
  BY <1>1, <1>2, <1>3, TypesKnown, ExecutionsStay, QuietStep

LEMMA BeginShutdownKeeps == ASSUME RuntimeInv, BeginShutdown PROVE RuntimeInv'
<1> DEFINE X == [drv["shutdown"] EXCEPT !.pc = "cancel", !.todo = active]
<1>1. UNCHANGED <<ex, active, batch, admitted, row, issued, operation, reports>>
  BY DEF BeginShutdown, queue
<1>2. FlagsOK' /\ CountsOK'
  BY TypesKnown, Zenon DEF BeginShutdown, TypeOK, FlagsOK, CountsOK
<1>3. drv["shutdown"] \in Driver /\ drv["shutdown"].pc = "off" /\ active \in SUBSET Claims
  BY TypesKnown DEF BeginShutdown, TypeOK
<1>4. drv' \in [Drivers -> Driver] /\ Unregistering
  <2>1. CASE Goto("shutdown", "dispose")
    <3>1. "dispose" \in Pcs
      BY DEF Pcs
    <3> QED
      BY <1>1, <1>3, <2>1, <3>1, TypesKnown, GotoFits
  <2>2. CASE drv' = [drv EXCEPT !["shutdown"] = X]
    <3>1. "cancel" \in Pcs /\ "none" \in Returns /\ "none" \in Kinds /\ 0 \in Claims \cup {0}
      BY DEF Pcs, Returns, Kinds
    <3>2. X \in Driver
      BY <1>3, <3>1, DriverChanges, Zenon
    <3>3. X.pc = "cancel" /\ X.todo = active /\ X.e = drv["shutdown"].e
      BY <1>3, DriverChanged
    <3> HIDE DEF X
    <3>4. (\A f \in X.todo : Registered(f)) /\ (X.e = 0 \/ Registered(X.e))
      BY <3>3, TypesKnown DEF Registered
    <3> QED
      BY <1>1, <1>3, <2>2, <3>2, <3>3, <3>4, TypesKnown, DriverMoves
  <2>3. Goto("shutdown", "dispose") \/ drv' = [drv EXCEPT !["shutdown"] = X]
    BY TypesKnown DEF BeginShutdown
  <2> QED
    BY <2>1, <2>2, <2>3
<1> QED
  BY <1>1, <1>2, <1>4, TypesKnown, ExecutionsStay, QuietStep

LEMMA CancelActiveKeeps == ASSUME RuntimeInv, CancelActive PROVE RuntimeInv'
<1> DEFINE C == {e \in drv["shutdown"].todo : ~logical_done(e)}
<1>1. UNCHANGED <<active, batch, admitted, row, issued, operation, reports>>
  BY DEF CancelActive, queue
<1>2. FlagsOK' /\ CountsOK'
  BY TypesKnown, FlagsStay DEF CancelActive
<1>3. drv' \in [Drivers -> Driver] /\ Unregistering
  <2>1. "check" \in Returns \ {"none"} /\ drv["shutdown"].pc = "cancel" /\ MonitorPass("shutdown", "check")
    BY DEF Returns, CancelActive
  <2> QED
    BY <1>1, <2>1, TypesKnown, PassFits
<1>4. ex' = [e \in Claims |-> IF e \in C THEN [ex[e] EXCEPT !.cancel = TRUE] ELSE ex[e]]
  BY DEF CancelActive
<1>5. \A e \in C : Registered(e)
  BY TypesKnown DEF Registered
<1> HIDE DEF C
<1>6. ASSUME NEW e \in Claims PROVE ex'[e] \in Execution /\ Evolves(e)
  <2>1. ExecutionInv(e) /\ ex[e] \in Execution
    BY TypesKnown DEF RuntimeInv
  <2>2. CASE e \in C
    <3> DEFINE Y == [ex[e] EXCEPT !.cancel = TRUE]
    <3>1. Y \in Execution
      BY <2>1, ExecutionChanges DEF Results, Threads0, Outcomes
    <3>2. /\ Y.job = ex[e].job /\ Y.thread = ex[e].thread /\ Y.handler_done = ex[e].handler_done
          /\ Y.finalizing = ex[e].finalizing /\ Y.outcome = ex[e].outcome
      BY <2>1, ExecutionChanged
    <3>3. ex'[e] = Y
      BY <1>4, <2>2
    <3> HIDE DEF Y
    <3>4. (LiveThread(e)' => LiveThread(e)) /\ (Owned(e) => Owned(e)')
      BY <3>2, <3>3 DEF LiveThread, Owned, logical_done
    <3> QED
      BY <1>1, <1>5, <2>1, <2>2, <3>1, <3>2, <3>3, <3>4 DEF Evolves, ExecutionInv
  <2>3. CASE e \notin C
    <3>1. ex'[e] = ex[e]
      BY <1>4, <2>3
    <3> QED
      BY <1>1, <2>1, <3>1 DEF ExecutionInv, Evolves, LiveThread, Owned, logical_done
  <2> QED
    BY <2>2, <2>3
<1>7. ex' \in [Claims -> Execution]
  <2>1. ex' = [e \in Claims |-> ex'[e]]
    BY <1>4
  <2> QED
    BY <1>6, <2>1
<1> QED
  BY <1>1, <1>2, <1>3, <1>6, <1>7, TypesKnown, QuietStep

LEMMA CheckDrainedKeeps == ASSUME RuntimeInv, CheckDrained PROVE RuntimeInv'
<1>1. UNCHANGED <<ex, active, batch, admitted, row, issued, operation, reports>>
  BY DEF CheckDrained, queue
<1>2. FlagsOK' /\ CountsOK'
  BY TypesKnown, FlagsStay DEF CheckDrained
<1>3. PICK then \in {"close", "check"} : MonitorPass("shutdown", then)
  BY DEF CheckDrained
<1>4. drv' \in [Drivers -> Driver] /\ Unregistering
  <2>1. then \in Returns \ {"none"} /\ drv["shutdown"].pc = "check"
    BY DEF Returns, CheckDrained
  <2> QED
    BY <1>1, <1>3, <2>1, TypesKnown, PassFits
<1> QED
  BY <1>1, <1>2, <1>4, TypesKnown, ExecutionsStay, QuietStep

LEMMA CloseKeeps == ASSUME RuntimeInv, Close PROVE RuntimeInv'
<1>1. UNCHANGED <<ex, active, batch, admitted, row, issued, operation, reports>>
  BY DEF Close, queue
<1>2. FlagsOK' /\ CountsOK'
  BY TypesKnown, Zenon DEF Close, TypeOK, FlagsOK, CountsOK
<1>3. PICK pc \in {"dispose", "off"} : Goto("shutdown", pc)
  BY DEF Close
<1>4. drv' \in [Drivers -> Driver] /\ Unregistering
  <2>1. pc \in Pcs /\ drv["shutdown"].pc = "close"
    BY DEF Pcs, Close
  <2> QED
    BY <1>1, <1>3, <2>1, TypesKnown, GotoFits
<1> QED
  BY <1>1, <1>2, <1>4, TypesKnown, ExecutionsStay, QuietStep

LEMMA CloseResourcesKeeps == ASSUME RuntimeInv, CloseResources PROVE RuntimeInv'
<1>1. UNCHANGED <<ex, active, batch, admitted, row, issued, operation, reports>>
  BY DEF CloseResources, queue
<1>2. FlagsOK' /\ CountsOK'
  BY TypesKnown, Zenon DEF CloseResources, TypeOK, FlagsOK, CountsOK, flags
<1>3. drv' \in [Drivers -> Driver] /\ Unregistering
  <2>1. "returned" \in Pcs /\ drv["shutdown"].pc = "dispose" /\ Goto("shutdown", "returned")
    BY DEF Pcs, CloseResources
  <2> QED
    BY <1>1, <2>1, TypesKnown, GotoFits
<1> QED
  BY <1>1, <1>2, <1>3, TypesKnown, ExecutionsStay, QuietStep

-----------------------------------------------------------------------------
(* Handler threads, callers and the environment *)

LEMMA SignalKeeps == ASSUME RuntimeInv, ShutdownDeadline \/ RequestStop PROVE RuntimeInv'
<1>1. UNCHANGED <<ex, active, batch, admitted, row, issued, operation, reports, drv>>
  BY DEF ShutdownDeadline, RequestStop, queue
<1>2. FlagsOK' /\ CountsOK'
  BY TypesKnown, Zenon DEF ShutdownDeadline, RequestStop, TypeOK, FlagsOK, CountsOK, flags, ending
<1> QED
  BY <1>1, <1>2, TypesKnown, DriversStay, ExecutionsStay, QuietStep

LEMMA LeaseEndsKeeps == ASSUME RuntimeInv, NEW j \in Jobs, LeaseEnds(j) PROVE RuntimeInv'
<1>1. UNCHANGED <<ex, active, batch, admitted, issued, operation, reports, drv>>
  BY DEF LeaseEnds
<1>2. FlagsOK' /\ CountsOK'
  BY TypesKnown, FlagsStay DEF LeaseEnds
<1>3. PICK s \in {"expired", "closed"} : row' = [row EXCEPT ![j] = [state |-> s, owner |-> 0]]
  BY DEF LeaseEnds
<1>4. row' \in [Jobs -> Row]
  BY <1>3, TypesKnown DEF Row
<1>5. \A k \in Jobs : row[k].state = "succeeded" => row'[k].state = "succeeded"
  BY <1>3, TypesKnown DEF LeaseEnds
<1> QED
  BY <1>1, <1>2, <1>4, <1>5, TypesKnown, DriversStay, ExecutionsStay, QuietStep

(* Execution e is told to stop or finds its deadline passed, or its thread *)
(* makes a step.                                                           *)
LEMMA ThreadKeeps ==
    ASSUME RuntimeInv, NEW e \in Claims, Registered(e), NEW Y \in Execution, ex' = [ex EXCEPT ![e] = Y],
           Y.job = ex[e].job, Y.outcome = ex[e].outcome, Y.finalizing = ex[e].finalizing,
           \/ Y.thread = ex[e].thread /\ Y.handler_done = ex[e].handler_done
           \/ LiveThread(e),
           active' = active \/ active' = active \ Reaped,
           operation' \in Claims \cup {0},
           UNCHANGED <<drv, batch, admitted, flags, ending, queue, reports>>
    PROVE  RuntimeInv'
<1>1. UNCHANGED <<batch, admitted, issued, reports, row, drv>>
  BY DEF queue
<1>2. FlagsOK' /\ CountsOK'
  BY TypesKnown, FlagsStay
<1>3. ex' \in [Claims -> Execution] /\ \A f \in Claims : Evolves(f)
  BY <1>1, ExecutionMoves
<1> QED
  BY <1>1, <1>2, <1>3, TypesKnown, DriversStay, QuietStep

LEMMA CallersKeep == ASSUME RuntimeInv, NEW e \in Claims, Cancel(e) \/ DeadlinePasses(e) PROVE RuntimeInv'
<1>1. ex[e] \in Execution /\ Registered(e) /\ operation' \in Claims \cup {0}
  BY TypesKnown DEF Cancel, DeadlinePasses, Registered
<1>2. CASE Cancel(e)
  <2> DEFINE Y == [ex[e] EXCEPT !.cancel = TRUE]
  <2>1. Y \in Execution
    BY <1>1, ExecutionChanges DEF Results, Threads0, Outcomes
  <2>2. /\ Y.job = ex[e].job /\ Y.thread = ex[e].thread /\ Y.handler_done = ex[e].handler_done
        /\ Y.finalizing = ex[e].finalizing /\ Y.outcome = ex[e].outcome
    BY <1>1, ExecutionChanged
  <2>3. ex' = [ex EXCEPT ![e] = Y]
    BY <1>2, TypesKnown DEF Cancel
  <2> HIDE DEF Y
  <2> QED
    BY <1>1, <1>2, <2>1, <2>2, <2>3, ThreadKeeps DEF Cancel
<1>3. CASE DeadlinePasses(e)
  <2> DEFINE Y == [ex[e] EXCEPT !.late = TRUE]
  <2>1. Y \in Execution
    BY <1>1, ExecutionChanges DEF Results, Threads0, Outcomes
  <2>2. /\ Y.job = ex[e].job /\ Y.thread = ex[e].thread /\ Y.handler_done = ex[e].handler_done
        /\ Y.finalizing = ex[e].finalizing /\ Y.outcome = ex[e].outcome
    BY <1>1, ExecutionChanged
  <2>3. ex' = [ex EXCEPT ![e] = Y]
    BY <1>3, TypesKnown DEF DeadlinePasses
  <2> HIDE DEF Y
  <2> QED
    BY <1>1, <1>3, <2>1, <2>2, <2>3, ThreadKeeps DEF DeadlinePasses
<1> QED
  BY <1>2, <1>3

LEMMA HandlerKeeps ==
    ASSUME RuntimeInv, NEW e \in Claims,
           EnterHandler(e) \/ EnterIngest(e) \/ HandlerReturns(e) \/ ThreadExits(e)
    PROVE  RuntimeInv'
<1>1. ex[e] \in Execution /\ LiveThread(e) /\ Registered(e) /\ operation' \in Claims \cup {0}
  <2>1. LiveThread(e)
    BY DEF EnterHandler, EnterIngest, HandlerReturns, ThreadExits, LiveThread
  <2>2. e \in active
    BY <2>1 DEF RuntimeInv, ExecutionInv
  <2>3. operation' \in Claims \cup {0}
    BY TypesKnown DEF EnterHandler, EnterIngest, HandlerReturns, ThreadExits
  <2> QED
    BY <2>1, <2>2, <2>3, TypesKnown DEF Registered
<1>2. ASSUME NEW th \in Threads0, ex' = [ex EXCEPT ![e] = [ex[e] EXCEPT !.thread = th]],
             active' = active \/ active' = active \ Reaped,
             UNCHANGED <<drv, batch, admitted, flags, ending, queue, reports>>
      PROVE  RuntimeInv'
  <2> DEFINE Y == [ex[e] EXCEPT !.thread = th]
  <2>1. Y \in Execution
    BY <1>1, ExecutionChanges DEF Results, Outcomes
  <2>2. Y.job = ex[e].job /\ Y.finalizing = ex[e].finalizing /\ Y.outcome = ex[e].outcome
    BY <1>1, ExecutionChanged
  <2> HIDE DEF Y
  <2> QED
    BY <1>1, <1>2, <2>1, <2>2, ThreadKeeps DEF Y
<1>3. ASSUME NEW r \in Results,
             ex' = [ex EXCEPT ![e] = [ex[e] EXCEPT !.thread = "done", !.handler_done = TRUE, !.result = r]],
             active' = active \/ active' = active \ Reaped,
             UNCHANGED <<drv, batch, admitted, flags, ending, queue, reports>>
      PROVE  RuntimeInv'
  <2> DEFINE Y == [ex[e] EXCEPT !.thread = "done", !.handler_done = TRUE, !.result = r]
  <2>1. Y \in Execution
    BY <1>1, ExecutionChanges DEF Threads0, Outcomes
  <2>2. Y.job = ex[e].job /\ Y.finalizing = ex[e].finalizing /\ Y.outcome = ex[e].outcome
    BY <1>1, ExecutionChanged
  <2>3. ex' = [ex EXCEPT ![e] = Y]
    BY <1>3
  <2> HIDE DEF Y
  <2> QED
    BY <1>1, <1>3, <2>1, <2>2, <2>3, ThreadKeeps
<1>4. ex[e].result \in Results /\ {"ok", "error", "recovery", "cancelled"} \subseteq Results
  BY <1>1, ExecutionFields DEF Results
<1>5. {"handler", "ingesting", "dead"} \subseteq Threads0
  BY DEF Threads0
<1>6. CASE EnterHandler(e) /\ ex[e].cancel
  <2> DEFINE r == IF logical_done(e) THEN ex[e].result ELSE "cancelled"
  <2>1. r \in Results
    BY <1>4
  <2>2. ex' = [ex EXCEPT ![e] = [ex[e] EXCEPT !.thread = "done", !.handler_done = TRUE, !.result = r]]
    BY <1>6, TypesKnown DEF EnterHandler
  <2> HIDE DEF r
  <2> QED
    BY <1>3, <1>6, <2>1, <2>2 DEF EnterHandler
<1>7. CASE EnterHandler(e) /\ ~ex[e].cancel
  BY <1>2, <1>5, <1>7 DEF EnterHandler
<1>8. CASE EnterIngest(e)
  <2>1. ex' = [ex EXCEPT ![e] = [ex[e] EXCEPT !.thread = "ingesting"]]
    BY <1>8, TypesKnown DEF EnterIngest
  <2> QED
    BY <1>2, <1>5, <1>8, <2>1 DEF EnterIngest
<1>9. CASE HandlerReturns(e)
  <2>1. PICK r0 \in {"ok", "error", "recovery", "cancelled"} :
           ex' = [ex EXCEPT ![e].thread = "done", ![e].handler_done = TRUE,
                            ![e].result = IF logical_done(e) THEN @ ELSE r0]
    BY <1>9 DEF HandlerReturns
  <2> DEFINE r == IF logical_done(e) THEN ex[e].result ELSE r0
  <2>2. r \in Results
    BY <1>4
  <2>3. ex' = [ex EXCEPT ![e] = [ex[e] EXCEPT !.thread = "done", !.handler_done = TRUE, !.result = r]]
    BY <2>1, TypesKnown
  <2> HIDE DEF r
  <2> QED
    BY <1>3, <1>9, <2>2, <2>3 DEF HandlerReturns
<1>10. CASE ThreadExits(e)
  <2>1. ex' = [ex EXCEPT ![e] = [ex[e] EXCEPT !.thread = "dead"]]
    BY <1>10, TypesKnown DEF ThreadExits
  <2> QED
    BY <1>2, <1>5, <1>10, <2>1 DEF ThreadExits
<1> QED
  BY <1>6, <1>7, <1>8, <1>9, <1>10

-----------------------------------------------------------------------------
(* A cycle of the daemon: observe, claim and admit *)

(* The daemon goes on, and the shutdown stays where it is.                 *)
LEMMA DaemonMoves ==
    ASSUME RuntimeInv, NEW X \in Driver, drv' = [drv EXCEPT !["daemon"] = X],
           X.pc \notin {"begin", "call"}, X.pc = "look" => X.then # "none"
    PROVE  /\ drv' \in [Drivers -> Driver] /\ \A d \in Drivers : DriverInv(d)'
           /\ drv'["daemon"] = X /\ drv'["shutdown"] = drv["shutdown"]
<1>1. /\ drv'["daemon"] = X /\ drv'["shutdown"] = drv["shutdown"]
      /\ \A d \in Drivers : d = "daemon" \/ drv'[d] = drv[d]
  BY TypesKnown DEF Drivers
<1>2. drv' \in [Drivers -> Driver]
  BY TypesKnown
<1>3. ASSUME NEW d \in Drivers PROVE DriverInv(d)'
  BY <1>1 DEF RuntimeInv, DriverInv
<1> QED
  BY <1>1, <1>2, <1>3

LEMMA DaemonGoes ==
    ASSUME RuntimeInv, NEW pc \in Pcs \ {"look", "begin", "call"}, Goto("daemon", pc)
    PROVE  /\ drv' \in [Drivers -> Driver] /\ \A d \in Drivers : DriverInv(d)'
           /\ drv'["daemon"].pc = pc
           /\ active' \subseteq active => \A e \in Claims : Registered(e)' => Registered(e)
<1> DEFINE X == [drv["daemon"] EXCEPT !.pc = pc, !.e = 0, !.kind = "none"]
<1>1. drv["daemon"] \in Driver /\ drv' = [drv EXCEPT !["daemon"] = X]
  BY TypesKnown DEF Goto
<1>2. X \in Driver
  BY <1>1, DriverChanges, Zenon DEF Returns, Kinds
<1>3. X.pc = pc /\ X.todo = drv["daemon"].todo /\ X.e = 0
  BY <1>1, DriverChanged
<1> HIDE DEF X
<1>4. /\ drv' \in [Drivers -> Driver] /\ \A d \in Drivers : DriverInv(d)'
      /\ drv'["daemon"] = X /\ drv'["shutdown"] = drv["shutdown"]
  BY <1>1, <1>2, <1>3, DaemonMoves
<1>5. ASSUME active' \subseteq active, NEW e \in Claims, Registered(e)' PROVE Registered(e)
  <2>1. e # 0
    BY ClaimsAreNatural
  <2> QED
    BY <1>3, <1>4, <1>5, <2>1 DEF Registered, Drivers
<1> QED
  BY <1>3, <1>4, <1>5

LEMMA DaemonPasses ==
    ASSUME RuntimeInv, NEW then \in Returns \ {"none"}, MonitorPass("daemon", then), active' = active
    PROVE  /\ drv' \in [Drivers -> Driver] /\ \A d \in Drivers : DriverInv(d)'
           /\ drv'["daemon"].pc = "look" /\ \A e \in Claims : Registered(e)' => Registered(e)
<1> DEFINE X == [pc |-> "look", then |-> then, todo |-> active, e |-> 0, kind |-> "none"]
<1>1. drv["daemon"] \in Driver /\ drv' = [drv EXCEPT !["daemon"] = X]
  BY TypesKnown DEF MonitorPass
<1>2. X \in Driver
  <2>1. active \in SUBSET Claims /\ "look" \in Pcs /\ "none" \in Kinds
    BY TypesKnown DEF TypeOK, Pcs, Kinds
  <2> QED
    BY <1>1, <2>1, DriverChanges
<1>3. X.pc = "look" /\ X.todo = active /\ X.e = 0 /\ X.then = then
  OBVIOUS
<1> HIDE DEF X
<1>4. /\ drv' \in [Drivers -> Driver] /\ \A d \in Drivers : DriverInv(d)'
      /\ drv'["daemon"] = X /\ drv'["shutdown"] = drv["shutdown"]
  BY <1>1, <1>2, <1>3, DaemonMoves
<1>5. ASSUME NEW e \in Claims, Registered(e)' PROVE Registered(e)
  <2>1. e # 0
    BY ClaimsAreNatural
  <2> QED
    BY <1>3, <1>4, <1>5, <2>1 DEF Registered, Drivers
<1> QED
  BY <1>3, <1>4, <1>5

(* The executions, where nothing happens to them.                          *)
LEMMA ExecutionsKept ==
    ASSUME RuntimeInv, UNCHANGED <<ex, reports, issued, active>>,
           \A j \in Jobs : row[j].state = "succeeded" => row'[j].state = "succeeded",
           NEW e \in Claims, Registered(e)' => Registered(e)
    PROVE  ExecutionInv(e)'
<1>1. ExecutionInv(e)
  BY DEF RuntimeInv
<1>2. (LiveThread(e)' <=> LiveThread(e)) /\ (Owned(e)' <=> Owned(e))
  BY DEF LiveThread, Owned, logical_done
<1> QED
  BY <1>1, <1>2 DEF ExecutionInv

(* What the batch has beyond its first item.                               *)
LEMMA BatchTail ==
    ASSUME RuntimeInv, batch # << >>
    PROVE  /\ Head(batch) \in Claims /\ ItemInv(Head(batch))
           /\ Tail(batch) \in Seq(Claims) /\ Len(Tail(batch)) = Len(batch) - 1 /\ Len(batch) \in Nat
           /\ \A i \in 1..Len(Tail(batch)) :
                 /\ Tail(batch)[i] \in Claims /\ ItemInv(Tail(batch)[i])
                 /\ Tail(batch)[i] # Head(batch)
           /\ \A i, j \in 1..Len(Tail(batch)) : Tail(batch)[i] = Tail(batch)[j] => i = j
<1>1. batch \in Seq(Claims) /\ Len(batch) \in Nat /\ Len(batch) >= 1
  BY TypesKnown, EmptySeq DEF TypeOK
<1>2. /\ Tail(batch) \in Seq(Claims) /\ Len(Tail(batch)) = Len(batch) - 1
      /\ \A i \in 1..Len(Tail(batch)) : Tail(batch)[i] = batch[i + 1]
      /\ Head(batch) = batch[1] /\ Head(batch) \in Claims
  BY <1>1, HeadTailProperties
<1>3. \A i \in 1..Len(Tail(batch)) : i + 1 \in 1..Len(batch) /\ i + 1 # 1
  BY <1>1, <1>2
<1>4. /\ \A i \in 1..Len(batch) : ItemInv(batch[i])
      /\ \A i, j \in 1..Len(batch) : batch[i] = batch[j] => i = j
      /\ 1 \in 1..Len(batch)
  BY <1>1 DEF RuntimeInv, BatchInv
<1>5. ASSUME NEW i \in 1..Len(Tail(batch))
      PROVE  /\ Tail(batch)[i] \in Claims /\ ItemInv(Tail(batch)[i])
             /\ Tail(batch)[i] # Head(batch)
  BY <1>1, <1>2, <1>3, <1>4
<1>6. ASSUME NEW i \in 1..Len(Tail(batch)), NEW j \in 1..Len(Tail(batch)), Tail(batch)[i] = Tail(batch)[j]
      PROVE  i = j
  <2>1. i + 1 = j + 1
    BY <1>2, <1>3, <1>4, <1>6
  <2> QED
    BY <2>1, <1>1, <1>2
<1> QED
  BY <1>1, <1>2, <1>4, <1>5, <1>6

(* The first item leaves the batch, and nothing happens to the others.     *)
LEMMA BatchKept ==
    ASSUME RuntimeInv, batch # << >>, batch' = Tail(batch), drv'["daemon"].pc \in {"admit", "launch"},
           \A g \in Claims : ItemInv(g) /\ g # Head(batch) => ItemInv(g)'
    PROVE  BatchInv'
<1>1. ASSUME NEW g \in Claims, NEW i \in 1..Len(Tail(batch)), g = Tail(batch)[i] PROVE ItemInv(g)'
  BY <1>1, BatchTail
<1>2. \A i \in 1..Len(batch') : batch'[i] \in Claims
  BY BatchTail
<1>3. \A i \in 1..Len(batch') : ItemInv(batch[i])'
  BY <1>1, <1>2 DEF ItemInv, Registered
<1> QED
  BY <1>3, BatchTail DEF BatchInv

LEMMA ObserveKeeps == ASSUME RuntimeInv, Observe PROVE RuntimeInv'
<1>1. UNCHANGED <<ex, active, batch, row, issued, operation, reports>> /\ drv["daemon"].pc = "observe"
  BY DEF Observe, queue
<1>2. FlagsOK' /\ CountsOK'
  BY TypesKnown, FlagsStay DEF Observe
<1>3. CASE MonitorPass("daemon", "poll") /\ UNCHANGED admitted
  <2>1. "poll" \in Returns \ {"none"}
    BY DEF Returns
  <2>2. drv' \in [Drivers -> Driver] /\ Unregistering
    BY <1>1, <1>3, <2>1, TypesKnown, PassFits
  <2> QED
    BY <1>1, <1>2, <1>3, <2>2, TypesKnown, ExecutionsStay, QuietStep
<1>4. CASE admitted' = {ex[e].job : e \in active} /\ Goto("daemon", "claim")
  <2>1. "claim" \in Pcs \ {"look", "begin", "call"}
    BY DEF Pcs
  <2>2. /\ drv' \in [Drivers -> Driver] /\ \A d \in Drivers : DriverInv(d)'
        /\ drv'["daemon"].pc = "claim" /\ \A e \in Claims : Registered(e)' => Registered(e)
    BY <1>1, <1>4, <2>1, DaemonGoes
  <2>3. active \subseteq Claims /\ IsFiniteSet(active) /\ batch = << >>
    BY <1>1, ClaimsAreNatural, FS_Subset DEF RuntimeInv, TypeOK, BatchInv
  <2>4. \A e \in active : ex[e].job \in Jobs
    BY <2>3 DEF RuntimeInv, ExecutionInv, Registered
  <2>5. TypeOK'
    BY <1>1, <1>2, <1>4, <2>2, <2>4, TypesKnown DEF TypeOK, FlagsOK, CountsOK
  <2>6. Cardinality(admitted') + Len(batch') <= MaxConcurrency
    <3> DEFINE f == [e \in active |-> ex[e].job]
    <3>1. f \in Surjection(active, admitted')
      BY <1>4 DEF Surjection
    <3>2. IsFiniteSet(admitted') /\ Cardinality(admitted') <= Cardinality(active)
      BY <2>3, <3>1, FS_Surjection
    <3>3. Cardinality(admitted') \in Nat /\ Cardinality(active) \in Nat /\ Len(batch') = 0
      BY <1>1, <2>3, <3>2, FS_CardinalityType, EmptySeq
    <3> QED
      BY <3>2, <3>3, RuntimeAssumption DEF RuntimeInv, SlotsInv
  <2>7. \A e \in Claims : ExecutionInv(e)'
    BY <1>1, <2>2, ExecutionsKept
  <2>8. BatchInv'
    BY <1>1, <2>3 DEF BatchInv
  <2>9. LaunchInv' /\ SlotsInv'
    BY <1>1, <1>4, <2>2, <2>6 DEF LaunchInv, SlotsInv, RuntimeInv
  <2> QED
    BY <2>2, <2>5, <2>7, <2>8, <2>9 DEF RuntimeInv
<1> QED
  BY <1>3, <1>4 DEF Observe

LEMMA EndBatchKeeps == ASSUME RuntimeInv, EndBatch PROVE RuntimeInv'
<1>1. /\ UNCHANGED <<ex, active, batch, row, issued, operation, reports>>
      /\ batch = << >> /\ admitted' = {} /\ MonitorPass("daemon", "poll")
  BY DEF EndBatch, queue
<1>2. FlagsOK' /\ CountsOK'
  BY TypesKnown, FlagsStay DEF EndBatch
<1>3. /\ drv' \in [Drivers -> Driver] /\ \A d \in Drivers : DriverInv(d)'
      /\ drv'["daemon"].pc = "look" /\ \A e \in Claims : Registered(e)' => Registered(e)
  <2>1. "poll" \in Returns \ {"none"}
    BY DEF Returns
  <2> QED
    BY <1>1, <2>1, DaemonPasses
<1>4. TypeOK'
  BY <1>1, <1>2, <1>3, TypesKnown DEF TypeOK, FlagsOK, CountsOK
<1>5. \A e \in Claims : ExecutionInv(e)'
  BY <1>1, <1>3, ExecutionsKept
<1>6. BatchInv'
  BY <1>1, EmptySeq DEF BatchInv
<1>7. LaunchInv' /\ SlotsInv'
  BY <1>1, <1>3 DEF LaunchInv, SlotsInv, RuntimeInv, Admitting
<1> QED
  BY <1>3, <1>4, <1>5, <1>6, <1>7 DEF RuntimeInv

LEMMA RefuseKeeps == ASSUME RuntimeInv, RefuseItem PROVE RuntimeInv'
<1>1. /\ UNCHANGED <<ex, active, admitted, row, issued, operation, reports, consecutive, ending>>
      /\ UNCHANGED <<started, closing, closed, stop, fatal>> /\ CountError(1)
      /\ batch # << >> /\ batch' = Tail(batch) /\ Goto("daemon", "admit") /\ drv["daemon"].pc = "admit"
  BY DEF RefuseItem, NextItem, queue
<1>2. FlagsOK' /\ CountsOK'
  <2>1. CountsOK'
    BY <1>1, TypesKnown, CountsFit
  <2> QED
    BY <1>1, <2>1, TypesKnown DEF FlagsOK, TypeOK, ending
<1>3. /\ drv' \in [Drivers -> Driver] /\ \A d \in Drivers : DriverInv(d)'
      /\ drv'["daemon"].pc = "admit" /\ \A e \in Claims : Registered(e)' => Registered(e)
  <2>1. "admit" \in Pcs \ {"look", "begin", "call"}
    BY DEF Pcs
  <2> QED
    BY <1>1, <2>1, DaemonGoes
<1>4. TypeOK'
  BY <1>1, <1>2, <1>3, TypesKnown, BatchTail DEF TypeOK, FlagsOK, CountsOK
<1>5. \A e \in Claims : ExecutionInv(e)'
  BY <1>1, <1>3, ExecutionsKept
<1>6. BatchInv'
  <2>1. ASSUME NEW g \in Claims, ItemInv(g) PROVE ItemInv(g)'
    BY <1>1, <1>3, <2>1 DEF ItemInv
  <2> QED
    BY <1>1, <1>3, <2>1, BatchKept
<1>7. LaunchInv'
  BY <1>3 DEF LaunchInv
<1>8. SlotsInv'
  <2>1. IsFiniteSet(admitted) /\ Cardinality(admitted) \in Nat
    BY RuntimeAssumption, TypesKnown, FS_Subset, FS_CardinalityType DEF TypeOK
  <2> QED
    BY <1>1, <2>1, BatchTail, RuntimeAssumption DEF SlotsInv, RuntimeInv, Admitting
<1> QED
  BY <1>3, <1>4, <1>5, <1>6, <1>7, <1>8 DEF RuntimeInv

(* The jobs of a cycle and the slots they take.                            *)
LEMMA AdmittedGrows ==
    ASSUME RuntimeInv, drv["daemon"].pc = "admit", batch # << >>, NEW j \in Jobs,
           admitted' = admitted \cup {j}, batch' = Tail(batch)
    PROVE  /\ IsFiniteSet(admitted') /\ Cardinality(admitted') \in Nat
           /\ Cardinality(admitted') + Len(batch') <= MaxConcurrency /\ Len(batch') \in Nat
<1>1. IsFiniteSet(admitted) /\ Cardinality(admitted) \in Nat
  BY RuntimeAssumption, TypesKnown, FS_Subset, FS_CardinalityType DEF TypeOK
<1>2. IsFiniteSet(admitted') /\ Cardinality(admitted') <= Cardinality(admitted) + 1
  <2>1. /\ IsFiniteSet(admitted \cup {j})
        /\ Cardinality(admitted \cup {j}) = IF j \in admitted THEN Cardinality(admitted)
                                            ELSE Cardinality(admitted) + 1
    BY <1>1, FS_AddElement, Zenon
  <2> QED
    BY <1>1, <2>1
<1>3. Cardinality(admitted') \in Nat
  BY <1>2, FS_CardinalityType
<1>4. Cardinality(admitted) + Len(batch) <= MaxConcurrency
  BY DEF RuntimeInv, SlotsInv, Admitting
<1>5. Len(batch') = Len(batch) - 1 /\ Len(batch) \in Nat /\ Len(batch') \in Nat
  BY BatchTail
<1> QED
  BY <1>1, <1>2, <1>3, <1>4, <1>5, RuntimeAssumption

LEMMA PoisonKeeps == ASSUME RuntimeInv, PoisonItem PROVE RuntimeInv'
<1>0. PICK e \in Claims : e = Head(batch) /\ ItemInv(e)
  BY BatchTail DEF PoisonItem
<1>1. /\ UNCHANGED <<ex, active, issued, operation, consecutive, ending>>
      /\ UNCHANGED <<started, closing, closed, stop, fatal>>
      /\ batch # << >> /\ batch' = Tail(batch) /\ Goto("daemon", "admit") /\ drv["daemon"].pc = "admit"
      /\ ex[e].job \in Poison /\ ex[e].job \in Jobs
      /\ admitted' = admitted \cup {ex[e].job} /\ reports' = [reports EXCEPT ![e] = @ + 1]
  BY <1>0, RuntimeAssumption DEF PoisonItem, NextItem
<1>2. PICK ans \in Answers(e, "failure") :
         /\ \E r \in Rows(e, ans) : row' = [row EXCEPT ![ex[e].job] = r]
         /\ CountError(IF ans = "error" THEN 1 ELSE 0)
  BY <1>0 DEF PoisonItem
<1>3. /\ row' \in [Jobs -> Row]
      /\ \A j \in Jobs : row[j].state = "succeeded" => row'[j].state = "succeeded"
  <2>1. "failure" \in Kinds
    BY DEF Kinds
  <2> QED
    BY <1>1, <1>2, <2>1, TypesKnown, AnswerFits
<1>4. FlagsOK' /\ CountsOK'
  <2>1. (IF ans = "error" THEN 1 ELSE 0) \in Nat
    OBVIOUS
  <2>2. CountsOK'
    BY <1>1, <1>2, <2>1, TypesKnown, CountsFit
  <2> QED
    BY <1>1, <2>2, TypesKnown DEF FlagsOK, TypeOK, ending
<1>5. /\ drv' \in [Drivers -> Driver] /\ \A d \in Drivers : DriverInv(d)'
      /\ drv'["daemon"].pc = "admit" /\ \A f \in Claims : Registered(f)' => Registered(f)
  <2>1. "admit" \in Pcs \ {"look", "begin", "call"}
    BY DEF Pcs
  <2> QED
    BY <1>1, <2>1, DaemonGoes
<1>6. /\ reports' \in [Claims -> Nat] /\ reports'[e] = 1
      /\ \A f \in Claims : f # e => reports'[f] = reports[f]
  BY <1>0, <1>1, TypesKnown DEF ItemInv
<1>7. TypeOK'
  BY <1>1, <1>3, <1>4, <1>5, <1>6, TypesKnown, BatchTail DEF TypeOK, FlagsOK, CountsOK
<1>8. ASSUME NEW f \in Claims PROVE ExecutionInv(f)'
  <2>1. ExecutionInv(f) /\ (Registered(f)' => Registered(f))
    BY <1>5 DEF RuntimeInv
  <2>2. (LiveThread(f)' <=> LiveThread(f)) /\ (Owned(f)' <=> Owned(f))
    BY <1>1 DEF LiveThread, Owned, logical_done
  <2>3. CASE f = e
    <3>1. ~(e > issued)
      BY <1>0, ClaimsAreNatural, TypesKnown DEF ItemInv, TypeOK
    <3> QED
      BY <1>1, <1>3, <1>6, <2>1, <2>2, <2>3, <3>1 DEF ExecutionInv
  <2>4. CASE f # e
    BY <1>1, <1>3, <1>6, <2>1, <2>2, <2>4 DEF ExecutionInv
  <2> QED
    BY <2>3, <2>4
<1>9. BatchInv'
  <2>1. ASSUME NEW g \in Claims, ItemInv(g), g # Head(batch) PROVE ItemInv(g)'
    BY <1>0, <1>1, <1>5, <1>6, <2>1 DEF ItemInv
  <2> QED
    BY <1>1, <1>5, <2>1, BatchKept
<1>10. LaunchInv'
  BY <1>5 DEF LaunchInv
<1>11. SlotsInv'
  BY <1>1, AdmittedGrows DEF SlotsInv, RuntimeInv, Admitting
<1> QED
  BY <1>5, <1>7, <1>8, <1>9, <1>10, <1>11 DEF RuntimeInv

LEMMA RegisterKeeps == ASSUME RuntimeInv, RegisterItem PROVE RuntimeInv'
<1>0. PICK e \in Claims : e = Head(batch) /\ ItemInv(e)
  BY BatchTail DEF RegisterItem
<1> DEFINE X == [drv["daemon"] EXCEPT !.pc = "launch", !.e = e]
<1>1. /\ UNCHANGED <<ex, row, issued, operation, reports>>
      /\ batch # << >> /\ batch' = Tail(batch) /\ drv["daemon"].pc = "admit"
      /\ drv' = [drv EXCEPT !["daemon"] = X]
      /\ ex[e].job \notin admitted /\ ex[e].job \in Jobs \ Poison
      /\ admitted' = admitted \cup {ex[e].job} /\ active' = active \cup {e}
  BY <1>0, TypesKnown DEF RegisterItem, ItemInv, Duplicate, queue
<1>2. FlagsOK' /\ CountsOK'
  BY TypesKnown, FlagsStay DEF RegisterItem
<1>3. drv["daemon"] \in Driver
  BY TypesKnown
<1>4. X \in Driver
  <2>1. "launch" \in Pcs /\ "none" \in Returns /\ "none" \in Kinds /\ {} \in SUBSET Claims /\ e \in Claims \cup {0}
    BY <1>0 DEF Pcs, Returns, Kinds
  <2> QED
    BY <1>3, <2>1, DriverChanges, Zenon
<1>5. X.pc = "launch" /\ X.todo = drv["daemon"].todo /\ X.e = e
  BY <1>3, DriverChanged
<1> HIDE DEF X
<1>6. /\ drv' \in [Drivers -> Driver] /\ \A d \in Drivers : DriverInv(d)'
      /\ drv'["daemon"] = X /\ drv'["shutdown"] = drv["shutdown"]
  BY <1>1, <1>4, <1>5, DaemonMoves
<1>7. ASSUME NEW f \in Claims, Registered(f)' PROVE Registered(f) \/ f = e
  BY <1>1, <1>5, <1>6, <1>7 DEF Registered, Drivers
<1>8. active \subseteq Claims /\ admitted \subseteq Jobs
  BY TypesKnown DEF TypeOK
<1>9. TypeOK'
  BY <1>0, <1>1, <1>2, <1>6, <1>8, TypesKnown, BatchTail DEF TypeOK, FlagsOK, CountsOK
<1>10. ASSUME NEW f \in Claims PROVE ExecutionInv(f)'
  <2>1. ExecutionInv(f)
    BY DEF RuntimeInv
  <2>2. (LiveThread(f)' <=> LiveThread(f)) /\ (Owned(f)' <=> Owned(f))
    BY <1>1 DEF LiveThread, Owned, logical_done
  <2>3. f = e => f <= issued
    BY <1>0 DEF ItemInv
  <2> QED
    BY <1>1, <1>7, <2>1, <2>2, <2>3 DEF ExecutionInv
<1>11. BatchInv'
  <2>1. ASSUME NEW g \in Claims, ItemInv(g), g # Head(batch) PROVE ItemInv(g)'
    <3>1. ~Registered(g)'
      BY <1>0, <1>7, <2>1 DEF ItemInv
    <3> QED
      BY <1>1, <2>1, <3>1 DEF ItemInv
  <2> QED
    BY <1>1, <1>5, <1>6, <2>1, BatchKept
<1>12. LaunchInv'
  BY <1>0, <1>1, <1>5, <1>6 DEF LaunchInv, ItemInv
<1>13. SlotsInv'
  <2>1. \A f \in active : ex[f].job \in admitted
    BY <1>1 DEF RuntimeInv, SlotsInv, Admitting
  <2>2. \A f, g \in active' : ex[f].job = ex[g].job => f = g
    BY <1>1, <2>1 DEF RuntimeInv, SlotsInv
  <2>3. \A f \in active' : ex[f].job \in admitted'
    BY <1>1, <2>1
  <2>4. /\ IsFiniteSet(admitted') /\ Cardinality(admitted') \in Nat
        /\ Cardinality(admitted') + Len(batch') <= MaxConcurrency /\ Len(batch') \in Nat
    BY <1>1, AdmittedGrows
  <2> DEFINE h == [f \in active' |-> ex[f].job]
  <2>5. h \in Injection(active', admitted')
    BY <2>2, <2>3 DEF Injection, IsInjective
  <2>6. IsFiniteSet(active') /\ Cardinality(active') <= Cardinality(admitted')
    BY <2>4, <2>5, FS_Injection
  <2>7. Cardinality(active') \in Nat
    BY <2>6, FS_CardinalityType
  <2>8. Cardinality(active') <= MaxConcurrency
    BY <2>4, <2>6, <2>7, RuntimeAssumption
  <2> QED
    BY <1>1, <2>2, <2>3, <2>4, <2>8 DEF SlotsInv
<1> QED
  BY <1>6, <1>9, <1>10, <1>11, <1>12, <1>13 DEF RuntimeInv

LEMMA LaunchKeeps == ASSUME RuntimeInv, Launch PROVE RuntimeInv'
<1>0. PICK e \in Claims : /\ e = drv["daemon"].e /\ e \in active /\ ex[e].thread = "none"
                          /\ ex[e] \in Execution /\ Registered(e)
  <2>1. drv["daemon"].e \in active /\ ex[drv["daemon"].e].thread = "none" /\ active \subseteq Claims
    BY TypesKnown DEF Launch, RuntimeInv, LaunchInv, TypeOK
  <2> QED
    BY <2>1, TypesKnown DEF Registered
<1> DEFINE Y1 == [ex[e] EXCEPT !.thread = "started"]
           Y2 == [ex[e] EXCEPT !.launch_failed = TRUE, !.handler_done = TRUE, !.result = "error"]
<1>1. /\ UNCHANGED <<active, batch, admitted, row, issued, operation, reports>>
      /\ drv["daemon"].pc = "launch" /\ Goto("daemon", "admit")
      /\ ex' = [ex EXCEPT ![e] = Y1] \/ ex' = [ex EXCEPT ![e] = Y2]
  BY <1>0, TypesKnown DEF Launch, queue
<1>2. FlagsOK' /\ CountsOK'
  BY TypesKnown, FlagsStay DEF Launch
<1>3. /\ drv' \in [Drivers -> Driver] /\ \A d \in Drivers : DriverInv(d)'
      /\ drv'["daemon"].pc = "admit" /\ \A f \in Claims : Registered(f)' => Registered(f)
  <2>1. "admit" \in Pcs \ {"look", "begin", "call"}
    BY DEF Pcs
  <2> QED
    BY <1>1, <2>1, DaemonGoes
<1>4. Y1 \in Execution /\ Y2 \in Execution
  BY <1>0, ExecutionChanges DEF Results, Threads0, Outcomes
<1>5. /\ Y1.job = ex[e].job /\ Y1.finalizing = ex[e].finalizing /\ Y1.outcome = ex[e].outcome
      /\ Y2.job = ex[e].job /\ Y2.finalizing = ex[e].finalizing /\ Y2.outcome = ex[e].outcome
  BY <1>0, ExecutionChanged
<1> HIDE DEF Y1, Y2
<1>6. PICK Y \in Execution : /\ ex' = [ex EXCEPT ![e] = Y]
                             /\ Y.job = ex[e].job /\ Y.finalizing = ex[e].finalizing
                             /\ Y.outcome = ex[e].outcome
  BY <1>1, <1>4, <1>5
<1>7. ex'[e] = Y /\ (\A f \in Claims : f # e => ex'[f] = ex[f]) /\ ex' \in [Claims -> Execution]
  BY <1>6, TypesKnown
<1>8. TypeOK'
  BY <1>1, <1>2, <1>3, <1>7, TypesKnown DEF TypeOK, FlagsOK, CountsOK
<1>9. ASSUME NEW f \in Claims PROVE ExecutionInv(f)'
  <2>1. ExecutionInv(f) /\ (Registered(f)' => Registered(f))
    BY <1>3 DEF RuntimeInv
  <2>2. Owned(f)' <=> Owned(f)
    BY <1>6, <1>7 DEF Owned, logical_done
  <2>3. ex'[f].job = ex[f].job /\ ex'[f].outcome = ex[f].outcome
    BY <1>6, <1>7
  <2>4. CASE f = e
    <3>1. e <= issued /\ ~(e > issued)
      BY <1>0, <2>1, <2>4, ClaimsAreNatural, TypesKnown DEF ExecutionInv, TypeOK
    <3> QED
      BY <1>0, <1>1, <2>1, <2>2, <2>3, <2>4, <3>1 DEF ExecutionInv
  <2>5. CASE f # e
    <3>1. ex'[f] = ex[f] /\ (LiveThread(f)' <=> LiveThread(f))
      BY <1>7, <2>5 DEF LiveThread
    <3> QED
      BY <1>1, <2>1, <2>2, <3>1 DEF ExecutionInv
  <2> QED
    BY <2>4, <2>5
<1>10. BatchInv'
  <2>1. ASSUME NEW i \in 1..Len(batch) PROVE ItemInv(batch[i])'
    <3>1. batch[i] \in Claims /\ ItemInv(batch[i])
      BY TypesKnown DEF RuntimeInv, BatchInv, TypeOK
    <3>2. PICK g \in Claims : g = batch[i]
      BY <3>1
    <3>3. g # e /\ ItemInv(g)
      BY <1>0, <3>1, <3>2 DEF ItemInv
    <3>4. ItemInv(g)'
      BY <1>1, <1>3, <1>7, <3>3 DEF ItemInv
    <3> QED
      BY <1>1, <3>2, <3>4 DEF ItemInv, Registered
  <2> QED
    BY <1>1, <1>3, <2>1 DEF BatchInv, RuntimeInv
<1>11. LaunchInv'
  BY <1>3 DEF LaunchInv
<1>12. SlotsInv'
  <2>1. \A f \in active : ex'[f].job = ex[f].job
    BY <1>6, <1>7, TypesKnown DEF TypeOK
  <2> QED
    BY <1>1, <2>1 DEF SlotsInv, RuntimeInv, Admitting
<1> QED
  BY <1>3, <1>8, <1>9, <1>10, <1>11, <1>12 DEF RuntimeInv

(* The queue leases the jobs of S, in some order, behind the leases it has *)
(* issued before.                                                          *)
LEMMA OrdersCover ==
    ASSUME NEW S, IsFiniteSet(S), NEW q \in Orders(S)
    PROVE  /\ Cardinality(S) \in Nat /\ q \in [1..Cardinality(S) -> S]
           /\ \A j \in S : \E i \in 1..Cardinality(S) : q[i] = j
<1> DEFINE n == Cardinality(S)
<1>1. n \in Nat
  BY FS_CardinalityType
<1>2. q \in [1..n -> S] /\ \A a, b \in 1..n : q[a] = q[b] => a = b
  BY DEF Orders
<1> HIDE DEF n
<1>3. q \in Injection(1..n, S)
  BY <1>2 DEF Injection, IsInjective
<1>4. Cardinality(1..n) = n
  BY <1>1, FS_Interval
<1>5. q \in Surjection(1..n, S)
  BY <1>3, <1>4, FS_Injection DEF n
<1>6. \A j \in S : \E i \in 1..n : q[i] = j
  BY <1>5 DEF Surjection
<1> QED
  BY <1>1, <1>2, <1>6 DEF n

LEMMA ClaimKeeps == ASSUME RuntimeInv, ClaimJobs PROVE RuntimeInv'
<1> DEFINE expired == {j \in Jobs : row[j].state = "expired"}
<1>1. PICK recovered \in [expired -> {"open", "expired", "closed"}], S \in SUBSET Jobs :
         LET after(j) == IF j \in expired THEN recovered[j] ELSE row[j].state
             n == Cardinality(S)
         IN  /\ n <= MaxConcurrency - Cardinality(admitted) /\ issued + n <= MaxClaims
             /\ \A j \in S : after(j) = "open" /\ (j \notin expired => row[j].owner = 0)
             /\ \E q \in Orders(S) :
                   LET token(j) == issued + (CHOOSE i \in 1..n : q[i] = j)
                       items == [i \in 1..n |-> issued + i]
                   IN  /\ row' = [j \in Jobs |->
                                   IF j \in S THEN [state |-> "open", owner |-> token(j)]
                                   ELSE [row[j] EXCEPT !.state = after(j)]]
                       /\ \/ /\ batch' = items /\ UNCHANGED errors
                             /\ ex' = [e \in Claims |->
                                         IF e \in issued + 1..issued + n
                                           THEN [NoExecution EXCEPT !.job = q[e - issued]]
                                           ELSE ex[e]]
                          \/ /\ "fault" \in Events /\ CountError(1) /\ UNCHANGED <<batch, ex>>
                       /\ issued' = issued + n
  BY DEF ClaimJobs
<1> DEFINE after(j) == IF j \in expired THEN recovered[j] ELSE row[j].state
           n == Cardinality(S)
<1>2. n <= MaxConcurrency - Cardinality(admitted) /\ issued + n <= MaxClaims /\ issued' = issued + n
  BY <1>1
<1>3. \A j \in S : after(j) = "open"
  BY <1>1
<1>4. PICK q \in Orders(S) :
         /\ row' = [j \in Jobs |->
                     IF j \in S THEN [state |-> "open", owner |-> issued + (CHOOSE i \in 1..n : q[i] = j)]
                     ELSE [row[j] EXCEPT !.state = after(j)]]
         /\ \/ /\ batch' = [i \in 1..n |-> issued + i] /\ UNCHANGED errors
               /\ ex' = [e \in Claims |-> IF e \in issued + 1..issued + n
                                            THEN [NoExecution EXCEPT !.job = q[e - issued]]
                                            ELSE ex[e]]
            \/ CountError(1) /\ UNCHANGED <<batch, ex>>
  BY <1>1
<1>5. /\ UNCHANGED <<active, admitted, operation, reports, consecutive, ending>>
      /\ UNCHANGED <<started, closing, closed, stop, fatal>>
      /\ drv["daemon"].pc = "claim" /\ Goto("daemon", "admit")
  BY DEF ClaimJobs
<1>6. /\ n \in Nat /\ q \in [1..n -> S] /\ S \subseteq Jobs
      /\ \A j \in S : \E i \in 1..n : q[i] = j
  BY RuntimeAssumption, FS_Subset, OrdersCover
<1>7. /\ issued \in Nat /\ MaxClaims \in Nat /\ issued' \in 0..MaxClaims /\ batch = << >>
      /\ Cardinality(admitted) \in Nat
  BY <1>2, <1>5, <1>6, TypesKnown, RuntimeAssumption, FS_Subset, FS_CardinalityType
     DEF TypeOK, RuntimeInv, BatchInv
<1>8. \A j \in Jobs : /\ after(j) \in {"open", "expired", "succeeded", "closed"}
                      /\ row[j].state = "succeeded" => after(j) = "succeeded"
  BY TypesKnown DEF Row
<1> HIDE DEF after, n
<1>9. ASSUME NEW j \in Jobs
      PROVE  row'[j] \in Row /\ (row[j].state = "succeeded" => row'[j].state = "succeeded")
  <2>1. row[j] \in Row
    BY TypesKnown
  <2>2. CASE j \in S
    <3>1. (CHOOSE i \in 1..n : q[i] = j) \in 1..n
      BY <1>6, <2>2
    <3>2. issued + (CHOOSE i \in 1..n : q[i] = j) \in Claims
      BY <1>2, <1>6, <1>7, <3>1 DEF Claims
    <3>3. row'[j] = [state |-> "open", owner |-> issued + (CHOOSE i \in 1..n : q[i] = j)]
      BY <1>4, <2>2
    <3> QED
      BY <1>3, <1>8, <2>2, <3>2, <3>3 DEF Row
  <2>3. CASE j \notin S
    <3>1. row'[j] = [row[j] EXCEPT !.state = after(j)]
      BY <1>4, <2>3
    <3> QED
      BY <1>8, <2>1, <3>1 DEF Row
  <2> QED
    BY <2>2, <2>3
<1>10. row' \in [Jobs -> Row]
  <2>1. row' = [j \in Jobs |-> row'[j]]
    BY <1>4
  <2> QED
    BY <1>9, <2>1
<1>11. FlagsOK' /\ CountsOK'
  <2>1. CountsOK'
    BY <1>4, <1>5, TypesKnown, CountsFit DEF CountsOK, TypeOK
  <2> QED
    BY <1>5, <2>1, TypesKnown DEF FlagsOK, TypeOK, ending
<1>12. /\ drv' \in [Drivers -> Driver] /\ \A d \in Drivers : DriverInv(d)'
       /\ drv'["daemon"].pc = "admit" /\ \A f \in Claims : Registered(f)' => Registered(f)
  <2>1. "admit" \in Pcs \ {"look", "begin", "call"}
    BY DEF Pcs
  <2> QED
    BY <1>5, <2>1, DaemonGoes
<1>13. LaunchInv'
  BY <1>12 DEF LaunchInv
<1>14. CASE UNCHANGED <<batch, ex>>
  <2>1. TypeOK'
    BY <1>5, <1>7, <1>10, <1>11, <1>12, <1>14, TypesKnown DEF TypeOK, FlagsOK, CountsOK
  <2>2. ASSUME NEW f \in Claims PROVE ExecutionInv(f)'
    <3>1. ExecutionInv(f) /\ (Registered(f)' => Registered(f)) /\ f \in Nat
      BY <1>12, ClaimsAreNatural DEF RuntimeInv
    <3>2. (LiveThread(f)' <=> LiveThread(f)) /\ (Owned(f)' <=> Owned(f))
      BY <1>14 DEF LiveThread, Owned, logical_done
    <3>3. (f > issued' => f > issued) /\ (f <= issued => f <= issued')
      BY <1>2, <1>6, <1>7, <3>1
    <3> QED
      BY <1>5, <1>9, <1>14, <3>1, <3>2, <3>3 DEF ExecutionInv
  <2>3. BatchInv' /\ Len(batch') = 0
    BY <1>7, <1>14, EmptySeq DEF BatchInv
  <2>4. SlotsInv'
    BY <1>2, <1>5, <1>6, <1>7, <1>14, <2>3, RuntimeAssumption DEF SlotsInv, RuntimeInv, Admitting
  <2> QED
    BY <1>12, <1>13, <2>1, <2>2, <2>3, <2>4 DEF RuntimeInv
<1>15. CASE /\ batch' = [i \in 1..n |-> issued + i]
            /\ ex' = [e \in Claims |-> IF e \in issued + 1..issued + n
                                         THEN [NoExecution EXCEPT !.job = q[e - issued]]
                                         ELSE ex[e]]
  <2>1. /\ batch' \in Seq(Claims) /\ Len(batch') = n
        /\ \A i \in 1..n : batch'[i] = issued + i /\ issued + i \in Claims
    <3>1. \A i \in 1..n : issued + i \in Claims
      BY <1>2, <1>6, <1>7 DEF Claims
    <3>2. batch' \in [1..n -> Claims]
      BY <1>15, <3>1
    <3>3. batch' \in Seq(Claims)
      BY <1>6, <3>2
    <3>4. Len(batch') = n
      BY <1>6, <1>15, <3>3, LenProperties
    <3> QED
      BY <1>15, <3>1, <3>3, <3>4
  <2>2. ASSUME NEW f \in Claims, f > issued, f <= issued + n
        PROVE  /\ ex'[f] \in Execution /\ ex'[f].job \in Jobs /\ ex'[f].thread = "none"
               /\ ex'[f].handler_done = FALSE /\ ex'[f].outcome = "none" /\ ex'[f].finalizing = FALSE
    <3> DEFINE k == q[f - issued]
    <3>1. f \in issued + 1..issued + n /\ f - issued \in 1..n
      BY <1>6, <1>7, <2>2, ClaimsAreNatural
    <3>2. k \in Jobs /\ ex'[f] = [NoExecution EXCEPT !.job = k]
      BY <1>6, <1>15, <3>1
    <3> HIDE DEF k
    <3>3. [NoExecution EXCEPT !.job = k] \in Execution
      BY <3>2, FreshExecution, ExecutionChanges DEF Results, Threads0, Outcomes
    <3>4. LET y == [NoExecution EXCEPT !.job = k]
          IN  /\ y.job = k /\ y.thread = NoExecution.thread /\ y.handler_done = NoExecution.handler_done
              /\ y.finalizing = NoExecution.finalizing /\ y.outcome = NoExecution.outcome
      BY FreshExecution, ExecutionChanged
    <3> QED
      BY <3>2, <3>3, <3>4, FreshExecution
  <2>3. ASSUME NEW f \in Claims, ~(f > issued /\ f <= issued + n) PROVE ex'[f] = ex[f]
    <3>1. f \notin issued + 1..issued + n
      BY <1>6, <1>7, <2>3, ClaimsAreNatural
    <3> QED
      BY <1>15, <3>1
  <2>4. ex' \in [Claims -> Execution]
    <3>1. \A f \in Claims : ex'[f] \in Execution
      BY <2>2, <2>3, TypesKnown
    <3>2. ex' = [f \in Claims |-> ex'[f]]
      BY <1>15
    <3> QED
      BY <3>1, <3>2
  <2>5. TypeOK'
    BY <1>5, <1>7, <1>10, <1>11, <1>12, <2>1, <2>4, TypesKnown DEF TypeOK, FlagsOK, CountsOK
  <2>6. ASSUME NEW f \in Claims, f > issued PROVE ~Registered(f) /\ ~Registered(f)' /\ reports[f] = 0
    BY <1>7, <1>12, <2>6, ClaimsAreNatural DEF RuntimeInv, ExecutionInv
  <2>7. ASSUME NEW f \in Claims PROVE ExecutionInv(f)'
    <3>1. ExecutionInv(f) /\ (Registered(f)' => Registered(f)) /\ f \in Nat
      BY <1>12, ClaimsAreNatural DEF RuntimeInv
    <3>2. (f > issued' => f > issued + n /\ f > issued) /\ (f <= issued => f <= issued')
      BY <1>2, <1>6, <1>7, <3>1
    <3>3. CASE f > issued /\ f <= issued + n
      <4>1. ~(f > issued') /\ ~Registered(f)' /\ reports'[f] = 0
        BY <1>2, <1>5, <1>6, <1>7, <2>6, <3>1, <3>3
      <4>2. ~LiveThread(f)' /\ ex'[f].outcome # "succeeded"
        BY <2>2, <3>3 DEF LiveThread
      <4> QED
        BY <4>1, <4>2 DEF ExecutionInv
    <3>4. CASE ~(f > issued /\ f <= issued + n)
      <4>1. ex'[f] = ex[f]
        BY <2>3, <3>4
      <4>2. (LiveThread(f)' <=> LiveThread(f)) /\ (Owned(f)' <=> Owned(f))
        BY <4>1 DEF LiveThread, Owned, logical_done
      <4> QED
        BY <1>5, <1>9, <3>1, <3>2, <4>1, <4>2 DEF ExecutionInv
    <3> QED
      BY <3>3, <3>4
  <2>8. BatchInv'
    <3>1. ASSUME NEW g \in Claims, g > issued, g <= issued + n PROVE ItemInv(g)'
      BY <1>2, <1>5, <2>2, <2>6, <3>1 DEF ItemInv
    <3>2. ASSUME NEW i \in 1..Len(batch') PROVE ItemInv(batch[i])'
      <4>1. batch'[i] \in Claims /\ batch'[i] > issued /\ batch'[i] <= issued + n
        BY <1>6, <1>7, <2>1
      <4> QED
        BY <3>1, <4>1 DEF ItemInv, Registered
    <3>3. \A i, j \in 1..Len(batch') : batch'[i] = batch'[j] => i = j
      BY <1>6, <1>7, <2>1
    <3> QED
      BY <1>12, <3>2, <3>3 DEF BatchInv
  <2>9. SlotsInv'
    <3>1. ASSUME NEW f \in active PROVE ex'[f] = ex[f]
      <4>1. f \in Claims /\ Registered(f)
        BY TypesKnown DEF TypeOK, Registered
      <4> QED
        BY <2>3, <2>6, <4>1
    <3>2. Cardinality(admitted) + n <= MaxConcurrency
      BY <1>2, <1>6, <1>7, RuntimeAssumption
    <3> QED
      BY <1>5, <2>1, <3>1, <3>2 DEF SlotsInv, RuntimeInv, Admitting
  <2> QED
    BY <1>12, <1>13, <2>5, <2>7, <2>8, <2>9 DEF RuntimeInv
<1> QED
  BY <1>4, <1>14, <1>15

-----------------------------------------------------------------------------
(* The invariant and what it gives *)

LEMMA RuntimeStarts == Init => RuntimeInv
<1> SUFFICES ASSUME Init PROVE RuntimeInv
  OBVIOUS
<1>1. ex \in [Claims -> Execution] /\ \A e \in Claims : ex[e] = NoExecution
  BY FreshExecution DEF Init
<1>2. NoDriver \in Driver
  BY Zenon DEF NoDriver, Driver
<1>3. drv \in [Drivers -> Driver] /\ \A d \in Drivers : drv[d] = NoDriver
  BY <1>2 DEF Init
<1>4. NoDriver.pc = "off" /\ NoDriver.todo = {} /\ NoDriver.e = 0
  BY DEF NoDriver
<1>5. "daemon" \in Drivers
  BY DEF Drivers
<1>6. row \in [Jobs -> Row]
  BY DEF Init, Row
<1>7. << >> \in Seq(Claims) /\ Len(<< >>) = 0
  BY EmptySeq
<1>8. errors \in 0..MaxErrors /\ consecutive \in 0..MaxErrors /\ issued \in 0..MaxClaims
  BY RuntimeAssumption DEF Init
<1>9. TypeOK
  BY <1>1, <1>3, <1>6, <1>7, <1>8 DEF Init, TypeOK
<1>10. ASSUME NEW e \in Claims PROVE ExecutionInv(e)
  <2>1. ~Registered(e)
    BY <1>3, <1>4, ClaimsAreNatural DEF Registered, Init
  <2>2. reports[e] = 0 /\ ex[e] = NoExecution
    BY <1>1 DEF Init
  <2>3. ~LiveThread(e) /\ ex[e].outcome = "none"
    BY <2>2, FreshExecution DEF LiveThread
  <2> QED
    BY <2>1, <2>2, <2>3 DEF ExecutionInv
<1>11. BatchInv
  BY <1>7 DEF BatchInv, Init
<1>12. LaunchInv /\ \A d \in Drivers : DriverInv(d)
  BY <1>3, <1>4, <1>5 DEF LaunchInv, DriverInv
<1>13. SlotsInv
  BY <1>3, <1>4, <1>5, RuntimeAssumption, FS_EmptySet DEF SlotsInv, Init, Admitting
<1> QED
  BY <1>9, <1>10, <1>11, <1>12, <1>13 DEF RuntimeInv

LEMMA RuntimeStutters == ASSUME RuntimeInv, UNCHANGED vars PROVE RuntimeInv'
<1>1. /\ UNCHANGED <<ex, active, drv, batch, admitted, row, issued, operation, reports>>
      /\ UNCHANGED <<flags, ending>>
  BY DEF vars, queue
<1>2. FlagsOK' /\ CountsOK'
  BY <1>1, TypesKnown, FlagsStay
<1> QED
  BY <1>1, <1>2, TypesKnown, DriversStay, ExecutionsStay, QuietStep

LEMMA RuntimeSteps == RuntimeInv /\ [Next]_vars => RuntimeInv'
<1> SUFFICES ASSUME RuntimeInv, [Next]_vars PROVE RuntimeInv'
  OBVIOUS
<1>1. ASSUME NEW d \in Drivers, Monitor(d) PROVE RuntimeInv'
  BY <1>1, MonitorOneKeeps, HeartbeatKeeps, BeginKeeps, CallKeeps, ReturnKeeps DEF Monitor
<1>2. CASE Daemon
  BY <1>1, <1>2, TypesKnown, StartKeeps, PollKeeps, FinishKeeps, ObserveKeeps, ClaimKeeps, RefuseKeeps,
     PoisonKeeps, RegisterKeeps, LaunchKeeps, EndBatchKeeps DEF Daemon
<1>3. CASE Shutdown
  BY <1>1, <1>3, TypesKnown, BeginShutdownKeeps, CancelActiveKeeps, CheckDrainedKeeps, CloseKeeps,
     CloseResourcesKeeps DEF Shutdown
<1>4. CASE Threads
  BY <1>4, HandlerKeeps DEF Threads
<1>5. CASE Environment
  BY <1>5, SignalKeeps, CallersKeep, LeaseEndsKeeps DEF Environment
<1> QED
  BY <1>2, <1>3, <1>4, <1>5, RuntimeStutters DEF Next

LEMMA RuntimeHolds == Spec => []RuntimeInv
BY RuntimeStarts, RuntimeSteps, PTL DEF Spec

(* Every variable of the runtime keeps its type.                           *)
THEOREM RuntimeTyping == Spec => []TypeOK
<1>1. RuntimeInv => TypeOK
  BY DEF RuntimeInv
<1> QED
  BY <1>1, RuntimeHolds, PTL

(* However monitor, shutdown and handler threads interleave, whatever the  *)
(* queue answers and however many leases there are, the daemon and the     *)
(* shutdown report a lease to the queue at most once between them          *)
(* (_begin_finalization): a report makes its caller the owner of the       *)
(* outcome, and a refused payload never becomes an execution.              *)
THEOREM LeaseReportedOnce == Spec => []OneReportPerLease
<1>1. RuntimeInv => OneReportPerLease
  BY DEF RuntimeInv, ExecutionInv, OneReportPerLease
<1> QED
  BY <1>1, RuntimeHolds, PTL

(* There are never more handler threads than slots (max_concurrency): each *)
(* live thread is in _active, and a cycle claims no more than the slots    *)
(* that it saw free, one for each job it admits.                           *)
THEOREM CapacityIsHeld == Spec => []CapacityHeld
<1>1. RuntimeInv => CapacityHeld
  <2> SUFFICES ASSUME RuntimeInv PROVE CapacityHeld
    OBVIOUS
  <2> DEFINE L == {e \in Claims : LiveThread(e)}
  <2>1. L \subseteq active /\ active \subseteq Claims
    BY DEF RuntimeInv, ExecutionInv, TypeOK
  <2>2. IsFiniteSet(active) /\ Cardinality(active) \in Nat /\ Cardinality(active) <= MaxConcurrency
    BY <2>1, ClaimsAreNatural, FS_Subset, FS_CardinalityType DEF RuntimeInv, SlotsInv
  <2>3. IsFiniteSet(L) /\ Cardinality(L) <= Cardinality(active)
    BY <2>1, <2>2, FS_Subset
  <2>4. Cardinality(L) \in Nat
    BY <2>3, FS_CardinalityType
  <2>5. Cardinality(L) <= MaxConcurrency
    BY <2>2, <2>3, <2>4, RuntimeAssumption
  <2> QED
    BY <2>5 DEF CapacityHeld
<1> QED
  BY <1>1, RuntimeHolds, PTL

(* A job whose lease was lost and that the worker claims again while its   *)
(* former thread still runs gets no second thread in this process: the     *)
(* former execution is still in _active, and its job among the admitted.   *)
THEOREM JobRunsOnce == Spec => []OneThreadPerJob
<1>1. RuntimeInv => OneThreadPerJob
  <2> SUFFICES ASSUME RuntimeInv, NEW e \in Claims, NEW f \in Claims,
                      LiveThread(e), LiveThread(f), ex[e].job = ex[f].job
               PROVE  e = f
    BY DEF OneThreadPerJob
  <2>1. e \in active /\ f \in active
    BY DEF RuntimeInv, ExecutionInv
  <2> QED
    BY <2>1 DEF RuntimeInv, SlotsInv
<1> QED
  BY <1>1, RuntimeHolds, PTL

(* The runtime counts an execution as succeeded only if the queue has      *)
(* stored the success of its job: no error, no deferred acknowledgement    *)
(* and no lost lease becomes a success, and no later lease undoes it.      *)
THEOREM SuccessIsStored == Spec => []SuccessIsDurable
<1>1. RuntimeInv => SuccessIsDurable
  BY DEF RuntimeInv, ExecutionInv, SuccessIsDurable
<1> QED
  BY <1>1, RuntimeHolds, PTL
=============================================================================
