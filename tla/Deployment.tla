----------------------------- MODULE Deployment -----------------------------
(***************************************************************************)
(* Operations on an installation: deploy.py under infrastructure/vps, the  *)
(* inventory and the authorisation of SQL in db_guard.py, and the          *)
(* migration runner infrastructure/scripts/migrate.py.                     *)
(*                                                                         *)
(* Operators freeze one another (docs/operations/vps-github-images.md), so *)
(* one operation runs at a time; but a command that exceeds its time, or   *)
(* an operation that dies, leaves its migration job behind in its          *)
(* container, and reviewed plans may be used late.  The artifacts of the   *)
(* releases extend one another; checksums, signatures and file checks are  *)
(* refusals that may come at any step.                                     *)
(***************************************************************************)
EXTENDS Integers, Sequences, FiniteSets

CONSTANTS
    Carries,       \* release -> number of its last migration
    Floor,         \* oldest populated schema that is upgraded (0007)
    Services,      \* the services of the application
    Containers,    \* bound: migration jobs at the same time
    MaxPlans,      \* bound: migration plans
    MaxPolicies    \* bound: rollback policies

Releases == DOMAIN Carries

ASSUME DeploymentAssumption ==
    /\ Carries \in Seq(Nat \ {0}) /\ Floor \in Nat
    /\ \A r, q \in Releases : r <= q => Carries[r] <= Carries[q]

VARIABLES
    schema,        \* migrations applied: the contiguous prefix in the history table
    stores,        \* "absent": prepared volumes without containers
    serving,       \* release of each running service, 0 when it is stopped
    plans,         \* reviewed migration plans
    policies,      \* reviewed rollback policies
    act,           \* the operation of deploy.py
    job            \* db-migrate containers

deploymentVars == <<schema, stores, serving, plans, policies, act, job>>

(* A plan authorises the pending SQL of a release on the inventory         *)
(* observed; a policy lets a target release run on the schema of another.  *)
Plan == [release : Releases, observed : Nat]
Policy == [target : Releases, retained : Releases]
NoPlan == [release |-> 0, observed |-> 0]

Operation == [kind : {"none", "deploy", "rollback", "migrate"}, release : Releases \cup {0},
              plan : Plan \cup {NoPlan}, retained : Releases \cup {0}, fresh : BOOLEAN,
              stage : {"idle", "admit", "stop", "stores", "observe", "job", "wait", "services"},
              job : Containers \cup {0}]
NoOperation == [kind |-> "none", release |-> 0, plan |-> NoPlan, retained |-> 0, fresh |-> FALSE,
                stage |-> "idle", job |-> 0]

NoMigration == [stage |-> "none", plan |-> NoPlan]

DeploymentTypeOK ==
    /\ schema \in Nat /\ stores \in {"absent", "up"}
    /\ serving \in [Services -> Releases \cup {0}]
    /\ plans \subseteq Plan /\ policies \subseteq Policy
    /\ act \in Operation
    /\ job \in [Containers -> [stage : {"none", "inspect", "apply"}, plan : Plan \cup {NoPlan}]]

DeploymentInit ==
    /\ schema = 0 /\ stores = "absent"
    /\ serving = [s \in Services |-> 0]
    /\ plans = {} /\ policies = {}
    /\ act = NoOperation
    /\ job = [k \in Containers |-> NoMigration]

-----------------------------------------------------------------------------
(* Inventory and review *)

(* inspect_database with the files of a release: the history is a prefix   *)
(* of its migrations, and not older than the staged upgrade allows.        *)
Inspects(r) ==
    /\ stores = "up"
    /\ schema <= Carries[r]
    /\ schema = 0 \/ schema >= Floor

Pending(r) == schema < Carries[r]

(* What an operation demands of the inventory, each time it observes it.   *)
Authorized(o) ==
    CASE o.kind = "migrate"  -> Inspects(o.release) /\ schema = o.plan.observed
      [] o.kind = "deploy"   -> Inspects(o.release) /\ ~Pending(o.release)
      [] o.kind = "rollback" -> Inspects(o.retained) /\ ~Pending(o.retained)
      [] OTHER -> FALSE

(* preflight, and the review of what it printed.  With the reviewed        *)
(* absence of data it starts the stores itself.                            *)
Preflight(r) ==
    /\ act.stage = "idle"
    /\ stores' = "up"
    /\ stores = "up" => Inspects(r)
    /\ Pending(r)
    /\ plans' = plans \cup {[release |-> r, observed |-> schema]}
    /\ Cardinality(plans') <= MaxPlans
    /\ UNCHANGED <<schema, serving, policies, act, job>>

(* A plan for an empty database is written without one.                    *)
PlanEmpty(r) ==
    /\ plans' = plans \cup {[release |-> r, observed |-> 0]}
    /\ plans' # plans /\ Cardinality(plans') <= MaxPlans
    /\ UNCHANGED <<schema, stores, serving, policies, act, job>>

(* preflight --retained-schema-inventory, and the review of compatibility.  *)
ReviewRollback(target, retained) ==
    /\ act.stage = "idle" /\ target <= retained
    /\ Inspects(retained) /\ ~Pending(retained)
    /\ policies' = policies \cup {[target |-> target, retained |-> retained]}
    /\ policies' # policies /\ Cardinality(policies') <= MaxPolicies
    /\ UNCHANGED <<schema, stores, serving, plans, act, job>>

-----------------------------------------------------------------------------
(* deploy.py *)

BeginOperation(o) ==
    /\ act.stage = "idle"
    /\ act' = [o EXCEPT !.stage = "admit"]
    /\ UNCHANGED <<schema, stores, serving, plans, policies, job>>

BeginDeploy(r) == BeginOperation([NoOperation EXCEPT !.kind = "deploy", !.release = r])
BeginMigrate(p, fresh) ==
    BeginOperation([NoOperation EXCEPT !.kind = "migrate", !.release = p.release,
                                       !.plan = p, !.fresh = fresh])
BeginRollback(y) ==
    BeginOperation([NoOperation EXCEPT !.kind = "rollback", !.release = y.target,
                                       !.retained = y.retained])

(* Any check may refuse, and a failed or timed out command ends the         *)
(* operation; what it started in a container goes on.                      *)
RefuseOperation ==
    /\ act.stage # "idle"
    /\ act' = NoOperation
    /\ UNCHANGED <<schema, stores, serving, plans, policies, job>>

(* The state is admitted before any effect; a fresh migration demands that *)
(* there are no containers and that its plan is for an empty database.     *)
AdmitState ==
    /\ act.stage = "admit"
    /\ IF act.fresh THEN stores = "absent" /\ act.plan.observed = 0 ELSE Authorized(act)
    /\ act' = [act EXCEPT !.stage = IF act.kind = "migrate" /\ ~act.fresh THEN "stop" ELSE "stores"]
    /\ UNCHANGED <<schema, stores, serving, plans, policies, job>>

(* compose stop: a failure leaves some services running and refuses.       *)
StopServices ==
    /\ act.stage = "stop"
    /\ \E stopped \in SUBSET Services :
          /\ serving' = [s \in Services |-> IF s \in stopped THEN 0 ELSE serving[s]]
          /\ act' = IF stopped = Services THEN [act EXCEPT !.stage = "stores"] ELSE NoOperation
    /\ UNCHANGED <<schema, stores, plans, policies, job>>

StartStores ==
    /\ act.stage = "stores"
    /\ stores' = "up"
    /\ act' = [act EXCEPT !.stage = "observe"]
    /\ UNCHANGED <<schema, serving, plans, policies, job>>

(* The second observation, after the writers stopped.                      *)
ObserveAgain ==
    /\ act.stage = "observe"
    /\ Authorized(act)
    /\ act' = [act EXCEPT !.stage = IF act.kind = "migrate" THEN "job" ELSE "services"]
    /\ UNCHANGED <<schema, stores, serving, plans, policies, job>>

(* compose run db-migrate                                                  *)
RunMigration(k) ==
    /\ act.stage = "job" /\ job[k] = NoMigration
    /\ job' = [job EXCEPT ![k] = [stage |-> "inspect", plan |-> act.plan]]
    /\ act' = [act EXCEPT !.stage = "wait", !.job = k]
    /\ UNCHANGED <<schema, stores, serving, plans, policies>>

(* The bootstraps of the stores, then compose up: a failure leaves some    *)
(* services replaced.                                                      *)
StartServices ==
    /\ act.stage = "services"
    /\ \E started \in SUBSET Services :
          serving' = [s \in Services |-> IF s \in started THEN act.release ELSE serving[s]]
    /\ act' = NoOperation
    /\ UNCHANGED <<schema, stores, plans, policies, job>>

-----------------------------------------------------------------------------
(* The migration job: db_guard.py apply *)

JobEnds(k) ==
    /\ job' = [job EXCEPT ![k] = NoMigration]
    /\ act' = IF act.stage = "wait" /\ act.job = k THEN NoOperation ELSE act

(* Its own inventory, in a read-only transaction.                          *)
JobInspects(k) ==
    /\ job[k].stage = "inspect"
    /\ Inspects(job[k].plan.release) /\ schema = job[k].plan.observed
    /\ job' = [job EXCEPT ![k].stage = "apply"]
    /\ UNCHANGED <<schema, stores, serving, plans, policies, act>>

(* The mutant trusts the inventory of before the lock.                     *)
JobAppliesTrusting(k) ==
    /\ job[k].stage = "apply"
    /\ schema <= Carries[job[k].plan.release]
    /\ schema' = Carries[job[k].plan.release]
    /\ JobEnds(k)
    /\ UNCHANGED <<stores, serving, plans, policies>>

(* apply: under the advisory lock the inventory is read and compared once  *)
(* more, and all of the pending SQL is one transaction with its history.   *)
JobApplies(k) ==
    /\ job[k].stage = "apply"
    /\ schema <= Carries[job[k].plan.release] /\ schema = job[k].plan.observed
    /\ schema' = Carries[job[k].plan.release]
    /\ JobEnds(k)
    /\ UNCHANGED <<stores, serving, plans, policies>>

(* A refusal or an error of the database; nothing is applied.              *)
JobFails(k) ==
    /\ job[k] # NoMigration
    /\ JobEnds(k)
    /\ UNCHANGED <<schema, stores, serving, plans, policies>>

(* The host restarts: services that were not stopped come back, jobs not.  *)
HostRestarts ==
    /\ act # NoOperation \/ \E k \in Containers : job[k] # NoMigration
    /\ act' = NoOperation
    /\ job' = [k \in Containers |-> NoMigration]
    /\ UNCHANGED <<schema, stores, serving, plans, policies>>

DeploymentNext ==
    \/ \E r \in Releases : Preflight(r) \/ PlanEmpty(r) \/ BeginDeploy(r)
    \/ \E r, q \in Releases : ReviewRollback(r, q)
    \/ \E p \in plans, fresh \in BOOLEAN : BeginMigrate(p, fresh)
    \/ \E y \in policies : BeginRollback(y)
    \/ AdmitState \/ StopServices \/ StartStores \/ ObserveAgain \/ StartServices
    \/ RefuseOperation \/ HostRestarts
    \/ \E k \in Containers : RunMigration(k) \/ JobInspects(k) \/ JobApplies(k) \/ JobFails(k)

DeploymentSpec == DeploymentInit /\ [][DeploymentNext]_deploymentVars

-----------------------------------------------------------------------------
(* Properties *)

(* The schema moves only by a whole reviewed plan, from exactly the state  *)
(* it was reviewed on, also when abandoned jobs are still at work; and     *)
(* with the application stopped, as long as somebody waits for the job     *)
(* (locked_observation, authorize).  No service is started on a schema     *)
(* that lacks one of its migrations (bundled_operation).                   *)
DeploysAsReviewed ==
    [][/\ schema' # schema =>
            /\ \E p \in plans : p.observed = schema /\ Carries[p.release] = schema'
            /\ act.stage = "wait" /\ job'[act.job] # job[act.job] =>
                  \A s \in Services : serving[s] = 0
       /\ \A s \in Services : serving'[s] \notin {serving[s], 0} =>
                                  Carries[serving'[s]] <= schema]_deploymentVars
=============================================================================
