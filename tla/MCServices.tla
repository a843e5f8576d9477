----------------------------- MODULE MCServices -----------------------------
(***************************************************************************)
(* The components that share no state with one another, checked side by    *)
(* side: the initial state chooses the one that runs, the others stand     *)
(* still.                                                                  *)
(***************************************************************************)
EXTENDS WorkerRuntime, UploadService, ConversationLease, AccountStore, ChatTurn

VARIABLE part      \* the component under check

servicesVars == <<part, vars, uploadVars, leaseVars, accountVars, chatVars>>

(* The upload service is checked in two environments: with a restart and   *)
(* every call but retry and shutdown, and with a restart, submissions,     *)
(* synchronous uploads, retries, cancellations and shutdown.               *)
UploadStep ==
    /\ UploadNext
    /\ part = "uploads" => op'.kind # "retry" /\ stopper' = "none"
    /\ part = "submissions" => op'.kind \in {"none", "submit", "upload", "retry"}

ServicesInit ==
    /\ part \in {"runtime", "uploads", "submissions", "lease", "accounts", "chat"}
    /\ Init /\ UploadInit /\ LeaseInit /\ AccountInit /\ ChatInit
    /\ store = "postgres" \/ part = "chat"

ServicesNext ==
    /\ UNCHANGED part
    /\ \/ /\ part = "runtime" /\ Next
          /\ UNCHANGED <<uploadVars, leaseVars, accountVars, chatVars>>
       \/ /\ part \in {"uploads", "submissions"} /\ UploadStep
          /\ UNCHANGED <<vars, leaseVars, accountVars, chatVars>>
       \/ /\ part = "lease" /\ LeaseNext
          /\ UNCHANGED <<vars, uploadVars, accountVars, chatVars>>
       \/ /\ part = "accounts" /\ AccountNext
          /\ UNCHANGED <<vars, uploadVars, leaseVars, chatVars>>
       \/ /\ part = "chat" /\ ChatNext
          /\ UNCHANGED <<vars, uploadVars, leaseVars, accountVars>>

ServicesSpec == ServicesInit /\ [][ServicesNext]_servicesVars
=============================================================================
