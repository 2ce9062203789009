---------------------- MODULE MCTargetConfigReconciler ----------------------
(***************************************************************************)
(* Model checking instances of TargetConfigReconciler: a fresh cluster and *)
(* one where an earlier operator finished, each with the budgets of        *)
(* disturbances that make one question interesting.                        *)
(***************************************************************************)
EXTENDS TargetConfigReconciler

Once(kinds) == [d \in Disturbance |-> IF d \in kinds THEN 1 ELSE 0]
Twice(kind) == [d \in Disturbance |-> IF d = kind THEN 2 ELSE 0]

NoDisturbance == {Once({})}

\* Pairs whose second disturbance can hit the reaction to the first.
SafetyBudgets ==
    {Twice("edit"), Twice("secret")} \cup
    {Once(k) : k \in {{"recreate", "collect"}, {"secret", "edit"},
                      {"secret", "restart"}, {"delete", "tamper"},
                      {"fault", "edit"}, {"fault", "secret"},
                      {"certmanager", "tamper"}, {"podloss", "fault"},
                      {"conversion", "edit"}}}

LivenessBudgets ==
    {Once(k) : k \in {{"edit", "secret"}, {"recreate", "collect"}, {"certmanager", "delete"},
                      {"tamper", "edit"}, {"podloss", "restart"}, {"fault"}}} \cup
    NoDisturbance

DriftBudgets == {Once({"edit", "delete", "tamper"})}
ConversionBudgets == {Once({"conversion"})}

\* The operator starts in a cluster where an earlier one finished.
InstalledInit ==
    /\ cr = [exists |-> TRUE, uid |-> 1, mgmt |-> "Managed", log |-> "Normal",
             status |-> [available |-> "True", degraded |-> "False",
                         tcd |-> "False", gen |-> 1, ready |-> Replicas]]
    /\ certManager = TRUE
    /\ secret = [s \in SecretName |-> [state |-> "ready", ver |-> 1]]
    /\ objs = [o \in Object |-> Desired(1)]
    /\ configmap = [exists |-> TRUE, owner |-> 1, drifted |-> FALSE, ver |-> 1]
    /\ deployment = [exists |-> TRUE, owner |-> 1,
                     template |-> [secrets |-> [s \in SecretName |-> 1],
                                   config |-> 1, log |-> "info"],
                     drifted |-> FALSE, gen |-> 1, avail |-> Replicas]
    /\ unseen = {}
    /\ issued = [s \in SecretName |-> {1}]
    /\ left \in Budgets
    /\ crCache = cr
    /\ secretCache = secret
    /\ depCache = deployment
    /\ dirty = TRUE
    /\ delayed = FALSE
    /\ pc = "idle"
    /\ loc = NoLocal
    /\ err = FALSE

\* An installation into an empty cluster, undisturbed.
InstallInit == Init /\ left \in NoDisturbance /\ cr.log = "Normal"

InstalledSpec == InstalledInit /\ [][Next]_vars
InstalledFairSpec == InstalledSpec /\ Fairness
LivenessSpec == (InstallInit \/ InstalledInit) /\ [][Next]_vars /\ Fairness

=============================================================================
