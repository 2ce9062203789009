------------------------------- MODULE Cluster -------------------------------
(***************************************************************************)
(* The Kubernetes API objects the jobset-operator reads and writes, the    *)
(* watch events the API server still has to deliver to the operator's      *)
(* informers, and the actors outside the operator: the administrator,      *)
(* cert-manager, the Deployment controller and the garbage collector.      *)
(* None of it is code of the operator, except the shape of the objects,    *)
(* which the operator's code fixes; the external actors are modelled from  *)
(* what the operator's code expects of them.                               *)
(***************************************************************************)
EXTENDS Integers

CONSTANTS
    LogLevel,         \* values an administrator gives spec.logLevel
    ManagementState,  \* values an administrator gives spec.managementState
    Replicas,         \* spec.replicas of the operand Deployment's manifest
    Budgets           \* how often each kind of disturbance may happen

\* The kinds of disturbance. A behaviour draws one of Budgets, which bounds how
\* often each kind happens in it; nothing else is bounded.
Disturbance == {"edit", "recreate", "secret", "certmanager", "tamper",
                "conversion", "delete", "collect", "podloss", "fault",
                "restart"}

ASSUME ClusterAssumption ==
    /\ LogLevel # {}
    /\ "Managed" \in ManagementState
    /\ Replicas \in Nat \ {0}
    /\ Budgets \subseteq [Disturbance -> Nat]

\* The Secrets cert-manager issues: webhook-server-cert, metrics-server-cert.
SecretName == {"webhook", "metrics"}

\* The operand objects a sync applies besides ConfigMap and Deployment; those of
\* cert-manager's kinds, and those by which Prometheus finds the metrics.
CertManagerObject == {"issuer", "servingcert", "metricscert"}

MonitoringObject == {"role", "rolebinding", "servicemonitor"}

Object == {"networkpolicy", "service", "validatingwebhook", "mutatingwebhook", "crd"}
              \cup CertManagerObject \cup MonitoringObject

\* The cert-manager Certificate that asks for each Secret.
CertificateOf == [webhook |-> "servingcert", metrics |-> "metricscert"]

\* What the TargetConfigController's informers watch.
Watched == {"cr", "deployment", "configmap", "networkpolicy"} \cup SecretName

Condition == {"Unset", "True", "False"}
Content   == {"desired", "drifted", "noconversion"}

\* status.conditions, the Deployment's entry of status.generations (-1: none)
\* and status.readyReplicas. tcd is TargetConfigControllerDegraded.
Status   == [available : Condition, degraded : Condition, tcd : Condition,
             gen : Int, ready : Nat]
NoStatus == [available |-> "Unset", degraded |-> "Unset", tcd |-> "Unset",
             gen |-> -1, ready |-> 0]

CR == [exists : BOOLEAN, uid : Nat, mgmt : ManagementState, log : LogLevel,
       status : Status]

\* What the pod template depends on: the Secret versions and the ConfigMap
\* version in its annotations, and the log level argument.
Template   == [secrets : [SecretName -> Nat], config : Nat,
               log : {"info", "debug"}]
NoTemplate == [secrets |-> [s \in SecretName |-> 0], config |-> 0,
               log |-> "info"]

\* template is what the spec-hash annotation was computed from; drifted says
\* that the spec itself was changed afterwards.
Deployment   == [exists : BOOLEAN, owner : Nat, template : Template,
                 drifted : BOOLEAN, gen : Nat, avail : 0..Replicas]
NoDeployment == [exists |-> FALSE, owner |-> 0, template |-> NoTemplate,
                 drifted |-> FALSE, gen |-> 0, avail |-> 0]

Secret    == [state : {"absent", "empty", "ready"}, ver : Nat]
ObjectVal == [exists : BOOLEAN, owner : Nat, content : Content]
NoObject  == [exists |-> FALSE, owner |-> 0, content |-> "desired"]
ConfigMap == [exists : BOOLEAN, owner : Nat, drifted : BOOLEAN, ver : Nat]

VARIABLES
    cr,           \* the JobSetOperator named "cluster"
    certManager,  \* whether cert-manager's Issuer kind is registered
    secret,       \* the two Secrets
    objs,         \* the operand objects of Object
    configmap,    \* the operand's ConfigMap
    deployment,   \* the operand's Deployment
    unseen,       \* watched objects with events not delivered yet
    issued,       \* history: the versions in which each Secret was complete
    left          \* what is left of the budget

clusterVars == <<cr, certManager, secret, objs, configmap, deployment,
                 unseen, issued, left>>

ClusterTypeOK ==
    /\ cr \in CR
    /\ certManager \in BOOLEAN
    /\ secret \in [SecretName -> Secret]
    /\ objs \in [Object -> ObjectVal]
    /\ configmap \in ConfigMap
    /\ deployment \in Deployment
    /\ unseen \in SUBSET Watched
    /\ issued \in [SecretName -> SUBSET Nat]
    /\ left \in [Disturbance -> Nat]

ClusterInit ==
    /\ \E l \in LogLevel :
          cr = [exists |-> TRUE, uid |-> 1, mgmt |-> "Managed", log |-> l,
                status |-> NoStatus]
    /\ certManager \in BOOLEAN
    /\ secret = [s \in SecretName |-> [state |-> "absent", ver |-> 0]]
    /\ objs = [o \in Object |-> NoObject]
    /\ configmap = [exists |-> FALSE, owner |-> 0, drifted |-> FALSE, ver |-> 0]
    /\ deployment = NoDeployment
    /\ unseen = {}
    /\ issued = [s \in SecretName |-> {}]
    /\ left \in Budgets

Spend(d) == left[d] > 0 /\ left' = [left EXCEPT ![d] = @ - 1]

Notify(w) == unseen' = unseen \cup {w}

\* An object is watched or changes in silence.
NotifyObject(o) == unseen' = IF o \in Watched THEN unseen \cup {o} ELSE unseen

-----------------------------------------------------------------------------
(* The administrator.                                                      *)

EditCR ==
    /\ cr.exists
    /\ \E m \in ManagementState, l \in LogLevel :
          /\ <<m, l>> # <<cr.mgmt, cr.log>>
          /\ cr' = [cr EXCEPT !.mgmt = m, !.log = l]
    /\ Spend("edit")
    /\ Notify("cr")
    /\ UNCHANGED <<certManager, secret, objs, configmap, deployment, issued>>

DeleteCR ==
    /\ cr.exists
    /\ cr' = [cr EXCEPT !.exists = FALSE, !.status = NoStatus]
    /\ Spend("recreate")
    /\ Notify("cr")
    /\ UNCHANGED <<certManager, secret, objs, configmap, deployment, issued>>

CreateCR ==
    /\ ~cr.exists
    /\ cr' = [cr EXCEPT !.exists = TRUE, !.uid = @ + 1, !.mgmt = "Managed"]
    /\ Notify("cr")
    /\ UNCHANGED <<certManager, secret, objs, configmap, deployment, issued,
                   left>>

\* Somebody edits an operand object, in a field that its apply function compares.
TamperObject(o) ==
    /\ objs[o].exists
    /\ objs' = [objs EXCEPT ![o].content = "drifted"]
    /\ Spend("tamper")
    /\ NotifyObject(o)
    /\ UNCHANGED <<cr, certManager, secret, configmap, deployment, issued>>

\* Somebody replaces the JobSet CRD's conversion strategy Webhook by None.
DropConversion ==
    /\ objs["crd"].exists
    /\ objs' = [objs EXCEPT !["crd"].content = "noconversion"]
    /\ Spend("conversion")
    /\ UNCHANGED <<cr, certManager, secret, configmap, deployment, unseen,
                   issued>>

DeleteObject(o) ==
    /\ objs[o].exists
    /\ objs' = [objs EXCEPT ![o] = NoObject]
    /\ Spend("delete")
    /\ NotifyObject(o)
    /\ UNCHANGED <<cr, certManager, secret, configmap, deployment, issued>>

TamperConfigMap ==
    /\ configmap.exists
    /\ configmap' = [configmap EXCEPT !.drifted = TRUE, !.ver = @ + 1]
    /\ Spend("tamper")
    /\ Notify("configmap")
    /\ UNCHANGED <<cr, certManager, secret, objs, deployment, issued>>

RemoveConfigMap ==
    /\ configmap' = [exists |-> FALSE, owner |-> 0, drifted |-> FALSE,
                     ver |-> configmap.ver + 1]
    /\ Notify("configmap")

DeleteConfigMap ==
    /\ configmap.exists
    /\ RemoveConfigMap
    /\ Spend("delete")
    /\ UNCHANGED <<cr, certManager, secret, objs, deployment, issued>>

\* Every change of a Deployment's spec increments its generation.
TamperDeployment ==
    /\ deployment.exists
    /\ deployment' = [deployment EXCEPT !.drifted = TRUE, !.gen = @ + 1]
    /\ Spend("tamper")
    /\ Notify("deployment")
    /\ UNCHANGED <<cr, certManager, secret, objs, configmap, issued>>

RemoveDeployment == deployment' = NoDeployment /\ Notify("deployment")

DeleteDeployment ==
    /\ deployment.exists
    /\ RemoveDeployment
    /\ Spend("delete")
    /\ UNCHANGED <<cr, certManager, secret, objs, configmap, issued>>

-----------------------------------------------------------------------------
(* cert-manager.                                                           *)

\* cert-manager is installed, or removed together with its kinds' objects.
ToggleCertManager ==
    /\ certManager' = ~certManager
    /\ objs' = IF certManager
               THEN [o \in Object |-> IF o \in CertManagerObject
                                      THEN NoObject ELSE objs[o]]
               ELSE objs
    /\ Spend("certmanager")
    /\ UNCHANGED <<cr, secret, configmap, deployment, unseen, issued>>

Requested(s) == /\ certManager
                /\ objs["issuer"].exists
                /\ objs[CertificateOf[s]].exists

\* The Secret appears before its certificate and key are in it.
PrepareSecret(s) ==
    /\ Requested(s)
    /\ secret[s].state = "absent"
    /\ secret' = [secret EXCEPT ![s] = [state |-> "empty", ver |-> @.ver + 1]]
    /\ Notify(s)
    /\ UNCHANGED <<cr, certManager, objs, configmap, deployment, issued, left>>

FillSecret(s) ==
    /\ secret' = [secret EXCEPT ![s] = [state |-> "ready", ver |-> @.ver + 1]]
    /\ issued' = [issued EXCEPT ![s] = @ \cup {secret[s].ver + 1}]
    /\ Notify(s)
    /\ UNCHANGED <<cr, certManager, objs, configmap, deployment>>

IssueSecret(s) ==
    /\ Requested(s)
    /\ secret[s].state # "ready"
    /\ FillSecret(s)
    /\ UNCHANGED left

RotateSecret(s) ==
    /\ Requested(s)
    /\ secret[s].state = "ready"
    /\ FillSecret(s)
    /\ Spend("secret")

\* Deleting the Secret is the documented way to force a new certificate.
DeleteSecret(s) ==
    /\ secret[s].state # "absent"
    /\ secret' = [secret EXCEPT ![s] = [state |-> "absent", ver |-> @.ver + 1]]
    /\ Spend("secret")
    /\ Notify(s)
    /\ UNCHANGED <<cr, certManager, objs, configmap, deployment, issued>>

-----------------------------------------------------------------------------
(* The Deployment controller and the garbage collector.                    *)

PodsReady ==
    /\ deployment.exists
    /\ deployment.avail # Replicas
    /\ deployment' = [deployment EXCEPT !.avail = Replicas]
    /\ Notify("deployment")
    /\ UNCHANGED <<cr, certManager, secret, objs, configmap, issued, left>>

PodsLost ==
    /\ deployment.avail # 0
    /\ deployment' = [deployment EXCEPT !.avail = 0]
    /\ Spend("podloss")
    /\ Notify("deployment")
    /\ UNCHANGED <<cr, certManager, secret, objs, configmap, issued>>

\* An object is garbage when the CR its owner reference names is gone. A pass
\* collects what is garbage at that moment; while the operator still owns its
\* writes by a deleted CR there is always more, hence the budget.
Orphan(x) == x.exists /\ ~(cr.exists /\ x.owner = cr.uid)

CollectObjects ==
    /\ \E o \in Object : Orphan(objs[o])
    /\ objs' = [o \in Object |-> IF Orphan(objs[o]) THEN NoObject ELSE objs[o]]
    /\ unseen' = unseen \cup {o \in Object \cap Watched : Orphan(objs[o])}
    /\ Spend("collect")
    /\ UNCHANGED <<cr, certManager, secret, configmap, deployment, issued>>

CollectConfigMap ==
    /\ Orphan(configmap)
    /\ RemoveConfigMap
    /\ Spend("collect")
    /\ UNCHANGED <<cr, certManager, secret, objs, deployment, issued>>

CollectDeployment ==
    /\ Orphan(deployment)
    /\ RemoveDeployment
    /\ Spend("collect")
    /\ UNCHANGED <<cr, certManager, secret, objs, configmap, issued>>

\* What the cluster does on its own: it is fair.
ClusterProgress ==
    \/ \E s \in SecretName : IssueSecret(s)
    \/ PodsReady

ClusterNext ==
    \/ EditCR
    \/ DeleteCR
    \/ CreateCR
    \/ \E o \in Object : TamperObject(o) \/ DeleteObject(o)
    \/ DropConversion
    \/ TamperConfigMap
    \/ DeleteConfigMap
    \/ TamperDeployment
    \/ DeleteDeployment
    \/ ToggleCertManager
    \/ \E s \in SecretName : PrepareSecret(s) \/ RotateSecret(s) \/ DeleteSecret(s)
    \/ PodsLost
    \/ CollectObjects
    \/ CollectConfigMap
    \/ CollectDeployment
    \/ ClusterProgress

=============================================================================
