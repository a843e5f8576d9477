----------------------------- MODULE JobLifecycle -----------------------------
(***************************************************************************)
(* What the job queue promises its clients, whatever the interleaving of   *)
(* submitters, workers, recovery and retention: a job is owned by one      *)
(* grantee at a time, is attempted at most MaxTries times, is settled      *)
(* once, and is only then forgotten.  JobQueue is shown to implement this. *)
(***************************************************************************)
EXTENDS Naturals

CONSTANTS Jobs, MaxTries

VARIABLES
    phase,    \* absent, waiting, owned, succeeded, cancelled, dead or gone
    tries,    \* attempts that were started
    grants    \* leases that were granted; the last grantee is the owner

Phase == {"absent", "waiting", "owned", "succeeded", "cancelled", "dead", "gone"}

Settled == {"succeeded", "cancelled", "dead"}

Init ==
    /\ phase = [j \in Jobs |-> "absent"]
    /\ tries = [j \in Jobs |-> 0]
    /\ grants = [j \in Jobs |-> 0]

(* The steps of one job, each as a relation on (phase, tries, grants).     *)
Accept(j) == phase[j] = "absent" /\ phase'[j] = "waiting"
             /\ tries'[j] = tries[j] /\ grants'[j] = grants[j]

Grant(j) == /\ phase[j] = "waiting" /\ phase'[j] = "owned"
            /\ tries[j] < MaxTries /\ tries'[j] = tries[j] + 1
            /\ grants'[j] = grants[j] + 1

(* The owner is replaced: within the same attempt, or by a new attempt.    *)
Transfer(j) == /\ phase[j] = "owned" /\ phase'[j] = "owned"
               /\ tries'[j] = tries[j] \/ (tries[j] < MaxTries /\ tries'[j] = tries[j] + 1)
               /\ grants'[j] = grants[j] + 1

Return(j) == /\ phase[j] = "owned" /\ phase'[j] = "waiting" /\ tries[j] < MaxTries
             /\ tries'[j] = tries[j] /\ grants'[j] = grants[j]

Settle(j) == /\ \/ phase[j] = "owned" /\ phase'[j] \in Settled
                \/ phase[j] = "waiting" /\ phase'[j] = "cancelled"
             /\ tries'[j] = tries[j] /\ grants'[j] = grants[j]

Retire(j) == /\ phase[j] \in Settled /\ phase'[j] = "gone"
             /\ tries'[j] = tries[j] /\ grants'[j] = grants[j]

Rest(j) == phase'[j] = phase[j] /\ tries'[j] = tries[j] /\ grants'[j] = grants[j]

(* One transaction of the queue may move several jobs.                     *)
Next ==
    \A j \in Jobs : \/ Accept(j) \/ Grant(j) \/ Transfer(j) \/ Return(j)
                    \/ Settle(j) \/ Retire(j) \/ Rest(j)

Spec == Init /\ [][Next]_<<phase, tries, grants>>
=============================================================================
