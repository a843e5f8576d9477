---------------------------- MODULE MCOperations ----------------------------
(***************************************************************************)
(* Operations with effects outside of the process, checked side by side:   *)
(* the audited operations, the requests to the model providers, and the    *)
(* operations on an installation.  The initial state chooses the one that  *)
(* runs, the others stand still.                                           *)
(***************************************************************************)
EXTENDS OperationLedger, ProviderStream, Deployment, TLC

Symmetry == Permutations(Requests) \cup Permutations(Processes)

MCCarries == <<1, 2, 3>>

VARIABLE part      \* the component under check

operationsVars == <<part, ledgerVars, providerVars, deploymentVars>>

OperationsInit ==
    /\ part \in {"ledger", "provider", "deployment"}
    /\ LedgerInit /\ ProviderInit /\ DeploymentInit
    /\ part # "provider" => \A c \in Streams : req[c] = Unsent

OperationsNext ==
    /\ UNCHANGED part
    /\ \/ part = "ledger" /\ LedgerNext /\ UNCHANGED <<providerVars, deploymentVars>>
       \/ part = "provider" /\ ProviderNext /\ UNCHANGED <<ledgerVars, deploymentVars>>
       \/ part = "deployment" /\ DeploymentNext /\ UNCHANGED <<ledgerVars, providerVars>>

OperationsSpec == OperationsInit /\ [][OperationsNext]_operationsVars
=============================================================================
