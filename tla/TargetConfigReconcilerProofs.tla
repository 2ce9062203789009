-------------------- MODULE TargetConfigReconcilerProofs --------------------
(***************************************************************************)
(* Theorems about TargetConfigReconciler for every value of its constants. *)
(***************************************************************************)
EXTENDS TargetConfigReconciler, TLAPS

\* The variables of sync() have their types before the first call.
LEMMA NoLocalType == NoLocal \in Local
<1>1. (CHOOSE l \in LogLevel : TRUE) \in LogLevel
  BY ClusterAssumption
<1>2. QED
  BY <1>1, ClusterAssumption DEF NoLocal, Local

\* The operator starts in a state of the right type.
LEMMA InitType == Init => TypeOK
<1> SUFFICES ASSUME Init PROVE TypeOK
  OBVIOUS
<1> USE ClusterAssumption DEF Init, ClusterInit
<1>1. cr \in CR
  BY DEF CR, NoStatus, Status, Condition
<1>2. ClusterTypeOK
  BY <1>1 DEF ClusterTypeOK, Secret, NoObject, ObjectVal, Content, ConfigMap,
     NoDeployment, Deployment, NoTemplate, Template, Watched
<1>3. QED
  BY <1>1, <1>2, NoLocalType DEF TypeOK, ClusterTypeOK

-----------------------------------------------------------------------------

\* The status of a CR that was just created is a status.
LEMMA NoStatusType == NoStatus \in Status
  BY DEF NoStatus, Status, Condition

\* A Deployment that does not exist is described like any other.
LEMMA NoDeploymentType == NoDeployment \in Deployment
  BY ClusterAssumption DEF NoDeployment, Deployment, NoTemplate, Template

\* Administrator, cert-manager, controllers and garbage collector keep the
\* types of the API objects.
LEMMA ClusterNextType == TypeOK /\ ClusterNext => ClusterTypeOK'
<1> SUFFICES ASSUME ClusterTypeOK, ClusterNext PROVE ClusterTypeOK'
  BY DEF TypeOK
<1> USE DEF ClusterTypeOK
<1>a. ASSUME NEW d \in Disturbance, Spend(d)
      PROVE  left' \in [Disturbance -> Nat]
  BY <1>a DEF Spend
<1>b. ASSUME NEW w \in Watched, Notify(w)
      PROVE  unseen' \in SUBSET Watched
  BY <1>b DEF Notify
<1>1. CASE EditCR
  <2>1. cr' \in CR
    BY <1>1 DEF EditCR, CR
  <2>2. left' \in [Disturbance -> Nat] /\ unseen' \in SUBSET Watched
    BY <1>a, <1>b, <1>1 DEF EditCR, Disturbance, Watched
  <2>3. QED
    BY <1>1, <2>1, <2>2 DEF EditCR
<1>2. CASE DeleteCR
  <2>1. cr' \in CR
    BY <1>2, NoStatusType DEF DeleteCR, CR
  <2>2. left' \in [Disturbance -> Nat] /\ unseen' \in SUBSET Watched
    BY <1>a, <1>b, <1>2 DEF DeleteCR, Disturbance, Watched
  <2>3. QED
    BY <1>2, <2>1, <2>2 DEF DeleteCR
<1>3. CASE CreateCR
  <2>0. cr.uid + 1 \in Nat /\ "Managed" \in ManagementState
    BY ClusterAssumption DEF CR
  <2>1. cr' \in CR
    BY <1>3, <2>0 DEF CreateCR, CR
  <2>2. left' \in [Disturbance -> Nat] /\ unseen' \in SUBSET Watched
    BY <1>a, <1>b, <1>3 DEF CreateCR, Disturbance, Watched
  <2>3. QED
    BY <1>3, <2>1, <2>2 DEF CreateCR
<1>4. ASSUME NEW o \in Object, TamperObject(o)
     PROVE  ClusterTypeOK'
  <2>1. objs' \in [Object -> ObjectVal]
    BY <1>4 DEF TamperObject, ObjectVal, Content
  <2>2. left' \in [Disturbance -> Nat] /\ unseen' \in SUBSET Watched
    BY <1>a, <1>b, <1>4 DEF TamperObject, Disturbance, Watched, NotifyObject
  <2>3. QED
    BY <1>4, <2>1, <2>2 DEF TamperObject
<1>5. ASSUME NEW o \in Object, DeleteObject(o)
     PROVE  ClusterTypeOK'
  <2>1. objs' \in [Object -> ObjectVal]
    BY <1>5 DEF DeleteObject, ObjectVal, Content, NoObject
  <2>2. left' \in [Disturbance -> Nat] /\ unseen' \in SUBSET Watched
    BY <1>a, <1>b, <1>5 DEF DeleteObject, Disturbance, Watched, NotifyObject
  <2>3. QED
    BY <1>5, <2>1, <2>2 DEF DeleteObject
<1>6. CASE DropConversion
  <2>1. objs' \in [Object -> ObjectVal]
    BY <1>6 DEF DropConversion, ObjectVal, Content, Object, CertManagerObject, MonitoringObject
  <2>2. left' \in [Disturbance -> Nat] /\ unseen' \in SUBSET Watched
    BY <1>a, <1>b, <1>6 DEF DropConversion, Disturbance, Watched
  <2>3. QED
    BY <1>6, <2>1, <2>2 DEF DropConversion
<1>7. CASE TamperConfigMap
  <2>0. configmap.ver + 1 \in Nat
    BY DEF ConfigMap
  <2>1. configmap' \in ConfigMap
    BY <1>7, <2>0 DEF TamperConfigMap, ConfigMap
  <2>2. left' \in [Disturbance -> Nat] /\ unseen' \in SUBSET Watched
    BY <1>a, <1>b, <1>7 DEF TamperConfigMap, Disturbance, Watched
  <2>3. QED
    BY <1>7, <2>1, <2>2 DEF TamperConfigMap
<1>8. CASE DeleteConfigMap
  <2>1. configmap' \in ConfigMap
    BY <1>8 DEF DeleteConfigMap, RemoveConfigMap, ConfigMap
  <2>2. left' \in [Disturbance -> Nat] /\ unseen' \in SUBSET Watched
    BY <1>a, <1>b, <1>8 DEF DeleteConfigMap, RemoveConfigMap, Disturbance, Watched
  <2>3. QED
    BY <1>8, <2>1, <2>2 DEF DeleteConfigMap, RemoveConfigMap
<1>9. CASE CollectConfigMap
  <2>1. configmap' \in ConfigMap
    BY <1>9 DEF CollectConfigMap, RemoveConfigMap, ConfigMap
  <2>2. left' \in [Disturbance -> Nat] /\ unseen' \in SUBSET Watched
    BY <1>a, <1>b, <1>9 DEF CollectConfigMap, RemoveConfigMap, Disturbance, Watched
  <2>3. QED
    BY <1>9, <2>1, <2>2 DEF CollectConfigMap, RemoveConfigMap
<1>10. CASE TamperDeployment
  <2>0. deployment.gen + 1 \in Nat
    BY DEF Deployment
  <2>1. deployment' \in Deployment
    BY <1>10, <2>0 DEF TamperDeployment, Deployment
  <2>2. left' \in [Disturbance -> Nat] /\ unseen' \in SUBSET Watched
    BY <1>a, <1>b, <1>10 DEF TamperDeployment, Disturbance, Watched
  <2>3. QED
    BY <1>10, <2>1, <2>2 DEF TamperDeployment
<1>11. CASE DeleteDeployment
  <2>1. deployment' \in Deployment
    BY <1>11, NoDeploymentType DEF DeleteDeployment, RemoveDeployment
  <2>2. left' \in [Disturbance -> Nat] /\ unseen' \in SUBSET Watched
    BY <1>a, <1>b, <1>11 DEF DeleteDeployment, RemoveDeployment, Disturbance, Watched
  <2>3. QED
    BY <1>11, <2>1, <2>2 DEF DeleteDeployment, RemoveDeployment
<1>12. CASE CollectDeployment
  <2>1. deployment' \in Deployment
    BY <1>12, NoDeploymentType DEF CollectDeployment, RemoveDeployment
  <2>2. left' \in [Disturbance -> Nat] /\ unseen' \in SUBSET Watched
    BY <1>a, <1>b, <1>12 DEF CollectDeployment, RemoveDeployment, Disturbance, Watched
  <2>3. QED
    BY <1>12, <2>1, <2>2 DEF CollectDeployment, RemoveDeployment
<1>13. CASE ToggleCertManager
  <2>1. objs' \in [Object -> ObjectVal]
    BY <1>13 DEF ToggleCertManager, ObjectVal, Content, NoObject
  <2>2. left' \in [Disturbance -> Nat] /\ unseen' \in SUBSET Watched
    BY <1>a, <1>b, <1>13 DEF ToggleCertManager, Disturbance, Watched
  <2>3. QED
    BY <1>13, <2>1, <2>2 DEF ToggleCertManager
<1>14. ASSUME NEW s \in SecretName, PrepareSecret(s)
      PROVE  ClusterTypeOK'
  <2>1. secret' \in [SecretName -> Secret]
    BY <1>14 DEF PrepareSecret, Secret
  <2>2. left' \in [Disturbance -> Nat] /\ unseen' \in SUBSET Watched
    BY <1>a, <1>b, <1>14 DEF PrepareSecret, Disturbance, Watched
  <2>3. QED
    BY <1>14, <2>1, <2>2 DEF PrepareSecret
<1>15. ASSUME NEW s \in SecretName, DeleteSecret(s)
      PROVE  ClusterTypeOK'
  <2>1. secret' \in [SecretName -> Secret]
    BY <1>15 DEF DeleteSecret, Secret
  <2>2. left' \in [Disturbance -> Nat] /\ unseen' \in SUBSET Watched
    BY <1>a, <1>b, <1>15 DEF DeleteSecret, Disturbance, Watched
  <2>3. QED
    BY <1>15, <2>1, <2>2 DEF DeleteSecret
<1>16. ASSUME NEW s \in SecretName, IssueSecret(s)
      PROVE  ClusterTypeOK'
  <2>1. secret' \in [SecretName -> Secret] /\ issued' \in [SecretName -> SUBSET Nat]
    BY <1>16 DEF IssueSecret, FillSecret, Secret
  <2>2. left' \in [Disturbance -> Nat] /\ unseen' \in SUBSET Watched
    BY <1>a, <1>b, <1>16 DEF IssueSecret, FillSecret, Disturbance, Watched
  <2>3. QED
    BY <1>16, <2>1, <2>2 DEF IssueSecret, FillSecret
<1>17. ASSUME NEW s \in SecretName, RotateSecret(s)
      PROVE  ClusterTypeOK'
  <2>1. secret' \in [SecretName -> Secret] /\ issued' \in [SecretName -> SUBSET Nat]
    BY <1>17 DEF RotateSecret, FillSecret, Secret
  <2>2. left' \in [Disturbance -> Nat] /\ unseen' \in SUBSET Watched
    BY <1>a, <1>b, <1>17 DEF RotateSecret, FillSecret, Disturbance, Watched
  <2>3. QED
    BY <1>17, <2>1, <2>2 DEF RotateSecret, FillSecret
<1>18. CASE PodsLost
  <2>1. deployment' \in Deployment
    BY <1>18, ClusterAssumption DEF PodsLost, Deployment
  <2>2. left' \in [Disturbance -> Nat] /\ unseen' \in SUBSET Watched
    BY <1>a, <1>b, <1>18 DEF PodsLost, Disturbance, Watched
  <2>3. QED
    BY <1>18, <2>1, <2>2 DEF PodsLost
<1>19. CASE PodsReady
  <2>1. deployment' \in Deployment
    BY <1>19, ClusterAssumption DEF PodsReady, Deployment
  <2>2. left' \in [Disturbance -> Nat] /\ unseen' \in SUBSET Watched
    BY <1>a, <1>b, <1>19 DEF PodsReady, Disturbance, Watched
  <2>3. QED
    BY <1>19, <2>1, <2>2 DEF PodsReady
<1>20. CASE CollectObjects
  <2>1. objs' \in [Object -> ObjectVal]
    BY <1>20 DEF CollectObjects, ObjectVal, Content, NoObject
  <2>2. left' \in [Disturbance -> Nat] /\ unseen' \in SUBSET Watched
    BY <1>a, <1>b, <1>20 DEF CollectObjects, Disturbance, Watched
  <2>3. QED
    BY <1>20, <2>1, <2>2 DEF CollectObjects
<1>21. QED
  BY <1>1, <1>2, <1>3, <1>4, <1>5, <1>6, <1>7, <1>8, <1>9, <1>10, <1>11, <1>12,
     <1>13, <1>14, <1>15, <1>16, <1>17, <1>18, <1>19, <1>20
  DEF ClusterNext, ClusterProgress

-----------------------------------------------------------------------------

\* The calls of sync(), spelled out.
LEMMA CallNames ==
    Call = {"state", "available", "discover", "owner", "webhook", "metrics",
            "configmap", "deployment", "finish"} \cup Object
  BY DEF Call, After, Object, CertManagerObject, MonitoringObject

\* A call of sync() is followed by another call or by the report.
LEMMA ContinueType ==
    ASSUME pc \in Call, pc' = After[pc]
    PROVE  pc' \in Call \cup {"report"}
  BY DEF Call, After

\* Each update function of a status returns a status.
LEMMA StatusTypes ==
    ASSUME TypeOK, NEW st \in Status
    PROVE  /\ SetAvailable(st) \in Status
           /\ SetMissingDependency(st) \in Status
           /\ SetFinished(st) \in Status
<1>1. loc.depGen \in Int /\ loc.depAvail \in Nat
  BY ClusterAssumption DEF TypeOK, Local
<1>3. SetAvailable(st) \in Status
  BY DEF SetAvailable, Status, AvailableCondition, Condition
<1>4. SetMissingDependency(st) \in Status
  BY DEF SetMissingDependency, Status, Condition
<1>5. SetFinished(st) \in Status
  BY <1>1 DEF SetFinished, Status, AvailableCondition, Condition
<1>6. QED
  BY <1>3, <1>4, <1>5

\* Storing a status keeps the types of the CR and of the pending events.
LEMMA WriteStatusType ==
    ASSUME cr \in CR, unseen \in SUBSET Watched, NEW st \in Status, WriteStatus(st)
    PROVE  cr' \in CR /\ unseen' \in SUBSET Watched
<1>1. cr' \in CR
  BY DEF WriteStatus, CR
<1>2. unseen' \in SUBSET Watched
  BY DEF WriteStatus, Watched
<1>3. QED
  BY <1>1, <1>2

\* v1helpers.UpdateStatus keeps them, whichever attempt stores.
LEMMA UpdateStatusType ==
    ASSUME cr \in CR, unseen \in SUBSET Watched, NEW new \in Status,
           NEW newLive \in Status,
           UpdateStatus(new, newLive) \/ UpdateStatusFails(new)
    PROVE  cr' \in CR /\ unseen' \in SUBSET Watched
  BY WriteStatusType DEF UpdateStatus, UpdateStatusFails

\* reportDegraded keeps them.
LEMMA WriteOutcomeType ==
    ASSUME cr \in CR, unseen \in SUBSET Watched, WriteOutcome
    PROVE  cr' \in CR /\ unseen' \in SUBSET Watched
<1>1. [cr.status EXCEPT !.tcd = IF err THEN "True" ELSE "False"] \in Status
  BY DEF CR, Status, Condition
<1>2. QED
  BY <1>1, WriteStatusType DEF WriteOutcome

\* Every call of sync() and its report keep all types.
LEMMA SyncType == TypeOK /\ Sync => TypeOK'
<1> SUFFICES ASSUME TypeOK, Sync PROVE TypeOK'
  OBVIOUS
<1> USE DEF TypeOK, ClusterTypeOK
<1>a. cr.status \in Status /\ crCache.status \in Status
  BY DEF CR
<1>b. ASSUME pc \in Call, Continue
      PROVE  pc' \in Call \cup {"idle", "report"} /\ err' \in BOOLEAN
  BY <1>b, ContinueType DEF Continue
<1>c. ASSUME Fail
      PROVE  pc' \in Call \cup {"idle", "report"} /\ err' \in BOOLEAN
  BY <1>c DEF Fail
<1>0. ASSUME NEW o \in Object, ManageUnknownKind(o)
      PROVE  TypeOK'
  BY <1>0, <1>c DEF ManageUnknownKind, clusterVars, cacheVars, queueVars
<1>1. CASE ReadState
  <2>1. pc' \in Call \cup {"idle", "report"} /\ err' \in BOOLEAN
    BY <1>1, <1>b, <1>c DEF ReadState
  <2>2. QED
    BY <1>1, <2>1 DEF ReadState, clusterVars, cacheVars, queueVars
<1>2. CASE UpdateAvailable
  <2>1. cr' \in CR /\ unseen' \in SUBSET Watched
    BY <1>2, <1>a, StatusTypes, UpdateStatusType DEF UpdateAvailable
  <2>2. pc' \in Call \cup {"idle", "report"} /\ err' \in BOOLEAN
    BY <1>2, <1>b, <1>c DEF UpdateAvailable
  <2>3. QED
    BY <1>2, <2>1, <2>2 DEF UpdateAvailable, cacheVars, queueVars
<1>3. CASE CheckCertManager
  <2>1. cr' \in CR /\ unseen' \in SUBSET Watched
    BY <1>3, <1>a, StatusTypes, UpdateStatusType DEF CheckCertManager
  <2>2. pc' \in Call \cup {"idle", "report"} /\ err' \in BOOLEAN
    BY <1>3, <1>b, <1>c DEF CheckCertManager
  <2>3. QED
    BY <1>3, <2>1, <2>2 DEF CheckCertManager, cacheVars, queueVars
<1>4. CASE ReadOperator
  <2>1. loc' \in Local
    BY <1>4 DEF ReadOperator, Local, CR, Status
  <2>2. pc' \in Call \cup {"idle", "report"} /\ err' \in BOOLEAN
    BY <1>4, <1>b, <1>c DEF ReadOperator
  <2>3. QED
    BY <1>4, <2>1, <2>2 DEF ReadOperator, clusterVars, cacheVars, queueVars
<1>5. ASSUME NEW o \in Object, Manage(o)
      PROVE  TypeOK'
  <2>1. objs' \in [Object -> ObjectVal]
    BY <1>5 DEF Manage, ObjectVal, Content, Local
  <2>2. unseen' \in SUBSET Watched
    BY <1>5 DEF Manage, Watched
  <2>3. pc' \in Call \cup {"idle", "report"} /\ err' \in BOOLEAN
    BY <1>5, <1>b, CallNames DEF Manage
  <2>4. QED
    BY <1>5, <2>1, <2>2, <2>3 DEF Manage, cacheVars, queueVars
<1>6. CASE ManageCRDPanics
  <2>1. cr' \in CR /\ unseen' \in SUBSET Watched
    <3>1. [cr.status EXCEPT !.tcd = "True"] \in Status
      BY <1>a DEF Status, Condition
    <3>2. QED
      BY <1>6, <3>1, WriteStatusType DEF ManageCRDPanics
  <2>2. QED
    BY <1>6, <2>1, NoLocalType DEF ManageCRDPanics, Restart, cacheVars
<1>7. ASSUME NEW s \in SecretName, CheckSecretReady(s)
      PROVE  TypeOK'
  <2>1. loc' \in Local
    <3>1. secretCache[s].ver \in Nat
      BY DEF Secret
    <3>2. [loc.secrets EXCEPT ![s] = secretCache[s].ver] \in [SecretName -> Nat]
      BY <3>1 DEF Local
    <3>3. QED
      BY <1>7, <3>2 DEF CheckSecretReady, Local
  <2>2. pc' \in Call \cup {"idle", "report"} /\ err' \in BOOLEAN
    BY <1>7, <1>b, <1>c, CallNames DEF CheckSecretReady, SecretName
  <2>3. QED
    BY <1>7, <2>1, <2>2 DEF CheckSecretReady, clusterVars, cacheVars, queueVars
<1>8. CASE ManageConfigMap
  <2>1. configmap' \in ConfigMap
    BY <1>8 DEF ManageConfigMap, ConfigMap, Local
  <2>2. loc' \in Local
    BY <1>8, <2>1 DEF ManageConfigMap, Local, ConfigMap
  <2>3. unseen' \in SUBSET Watched
    BY <1>8 DEF ManageConfigMap, Watched
  <2>4. pc' \in Call \cup {"idle", "report"} /\ err' \in BOOLEAN
    BY <1>8, <1>b, CallNames DEF ManageConfigMap
  <2>5. QED
    BY <1>8, <2>1, <2>2, <2>3, <2>4 DEF ManageConfigMap, cacheVars, queueVars
<1>9. CASE ManageDeployment
  <2>1. deployment' \in Deployment
    <3>1. Required \in Template
      BY DEF Required, Template, ZapLevel, Local
    <3>2. deployment.gen \in Nat /\ deployment.gen + 1 \in Nat
      BY DEF Deployment
    <3>3. QED
      BY <1>9, <3>1, <3>2 DEF ManageDeployment, Deployment, Local
  <2>2. loc' \in Local
    BY <1>9, <2>1 DEF ManageDeployment, Local, Deployment
  <2>3. unseen' \in SUBSET Watched
    BY <1>9 DEF ManageDeployment, Watched
  <2>4. pc' \in Call \cup {"idle", "report"} /\ err' \in BOOLEAN
    BY <1>9, <1>b, CallNames DEF ManageDeployment
  <2>5. QED
    BY <1>9, <2>1, <2>2, <2>3, <2>4 DEF ManageDeployment, cacheVars, queueVars
<1>10. CASE Finish
  <2>1. cr' \in CR /\ unseen' \in SUBSET Watched
    BY <1>10, <1>a, StatusTypes, UpdateStatusType DEF Finish
  <2>2. pc' \in Call \cup {"idle", "report"} /\ err' \in BOOLEAN
    BY <1>10, <1>b, <1>c DEF Finish
  <2>3. left' \in [Disturbance -> Nat]
    BY <1>10 DEF Finish, Spend, Disturbance
  <2>4. QED
    BY <1>10, <2>1, <2>2, <2>3 DEF Finish, cacheVars, queueVars
<1>11. CASE ReportDegraded
  <2>1. cr' \in CR /\ unseen' \in SUBSET Watched
    BY <1>11, WriteOutcomeType DEF ReportDegraded
  <2>2. QED
    BY <1>11, <2>1, NoLocalType DEF ReportDegraded, Done, cacheVars
<1>12. QED
  BY <1>0, <1>1, <1>2, <1>3, <1>4, <1>5, <1>6, <1>7, <1>8, <1>9, <1>10, <1>11 DEF Sync

\* Every step keeps all types.
LEMMA NextType == TypeOK /\ [Next]_vars => TypeOK'
<1> SUFFICES ASSUME TypeOK, [Next]_vars PROVE TypeOK'
  OBVIOUS
<1> USE DEF TypeOK, ClusterTypeOK
<1>1. ASSUME NEW w \in Watched, Deliver(w)
      PROVE  TypeOK'
  BY <1>1 DEF Deliver
<1>2. CASE Resync \/ Retry
  BY <1>2 DEF Resync, Retry, clusterVars, cacheVars
<1>3. CASE Get
  BY <1>3, CallNames DEF Get, clusterVars, cacheVars
<1>4. CASE Kill
  <2>1. left' \in [Disturbance -> Nat]
    BY <1>4 DEF Kill, Spend, Disturbance
  <2>2. QED
    BY <1>4, <2>1, NoLocalType DEF Kill, Restart, cacheVars
<1>5. CASE CallFails
  <2>1. left' \in [Disturbance -> Nat]
    BY <1>5 DEF CallFails, Spend, Disturbance
  <2>2. QED
    BY <1>5, <2>1 DEF CallFails, Fail, cacheVars, queueVars
<1>6. CASE ReportFails
  <2>1. left' \in [Disturbance -> Nat]
    BY <1>6 DEF ReportFails, Spend, Disturbance
  <2>2. cr' \in CR /\ unseen' \in SUBSET Watched
    BY <1>6, WriteOutcomeType DEF ReportFails
  <2>3. QED
    BY <1>6, <2>1, <2>2, NoLocalType DEF ReportFails, Done, cacheVars
<1>7. CASE Sync
  BY <1>7, SyncType
<1>8. CASE Environment
  BY <1>8, ClusterNextType DEF Environment, cacheVars, queueVars
<1>9. CASE UNCHANGED vars
  BY <1>9 DEF vars, clusterVars, cacheVars, queueVars
<1>10. QED
  BY <1>1, <1>2, <1>3, <1>4, <1>5, <1>6, <1>7, <1>8, <1>9 DEF Next, ControllerNext

\* The model is type correct: conditions are unset, True or False, the
\* recorded generation is an integer, pc names a call of sync().
THEOREM TypeCorrect == Spec => []TypeOK
  BY InitType, NextType, PTL DEF Spec

-----------------------------------------------------------------------------

\* Every step but a delivery leaves an object alone or announces its change.
Announced ==
    /\ unseen \subseteq unseen'
    /\ "cr" \notin unseen' => cr' = cr
    /\ "deployment" \notin unseen' => deployment' = deployment
    /\ "configmap" \notin unseen' => configmap' = configmap
    /\ "networkpolicy" \notin unseen' => objs'["networkpolicy"] = objs["networkpolicy"]
    /\ \A s \in SecretName : s \notin unseen' => secret'[s] = secret[s]

\* The cluster changes no watched object without an event.
LEMMA ClusterAnnounces == TypeOK /\ ClusterNext => Announced
<1> SUFFICES ASSUME TypeOK, ClusterNext PROVE Announced
  OBVIOUS
<1> USE DEF Announced, Notify
<1>1. CASE EditCR \/ DeleteCR \/ CreateCR
  BY <1>1 DEF EditCR, DeleteCR, CreateCR
<1>2. ASSUME NEW o \in Object, TamperObject(o) \/ DeleteObject(o)
      PROVE  Announced
  <2>1. o = "networkpolicy" => "networkpolicy" \in unseen'
    BY <1>2 DEF TamperObject, DeleteObject, NotifyObject, Watched
  <2>2. o # "networkpolicy" => objs'["networkpolicy"] = objs["networkpolicy"]
    BY <1>2 DEF TamperObject, DeleteObject, Object, CertManagerObject, MonitoringObject, TypeOK, ClusterTypeOK
  <2>3. unseen \subseteq unseen' /\ UNCHANGED <<cr, deployment, configmap, secret>>
    BY <1>2 DEF TamperObject, DeleteObject, NotifyObject
  <2>4. QED
    BY <2>1, <2>2, <2>3
<1>3. CASE DropConversion
  BY <1>3 DEF DropConversion, TypeOK, ClusterTypeOK
<1>4. CASE TamperConfigMap \/ DeleteConfigMap \/ CollectConfigMap
  BY <1>4 DEF TamperConfigMap, DeleteConfigMap, CollectConfigMap, RemoveConfigMap
<1>5. CASE TamperDeployment \/ DeleteDeployment \/ CollectDeployment
  BY <1>5 DEF TamperDeployment, DeleteDeployment, CollectDeployment, RemoveDeployment
<1>6. CASE ToggleCertManager
  BY <1>6 DEF ToggleCertManager, Object, CertManagerObject, MonitoringObject, TypeOK, ClusterTypeOK
<1>7. ASSUME NEW s \in SecretName, PrepareSecret(s) \/ DeleteSecret(s)
      PROVE  Announced
  BY <1>7 DEF PrepareSecret, DeleteSecret, TypeOK, ClusterTypeOK
<1>8. ASSUME NEW s \in SecretName, IssueSecret(s) \/ RotateSecret(s)
      PROVE  Announced
  BY <1>8 DEF IssueSecret, RotateSecret, FillSecret, TypeOK, ClusterTypeOK
<1>9. CASE PodsLost \/ PodsReady
  BY <1>9 DEF PodsLost, PodsReady
<1>10. CASE CollectObjects
  BY <1>10 DEF CollectObjects, Watched, Object, CertManagerObject, MonitoringObject, TypeOK, ClusterTypeOK
<1>11. QED
  BY <1>1, <1>2, <1>3, <1>4, <1>5, <1>6, <1>7, <1>8, <1>9, <1>10
  DEF ClusterNext, ClusterProgress

\* No write of a status goes without an event.
LEMMA UpdateAnnounces ==
    ASSUME NEW new, NEW newLive, TypeOK,
           UpdateStatus(new, newLive) \/ UpdateStatusFails(new) \/ WriteOutcome
    PROVE  unseen \subseteq unseen' /\ ("cr" \notin unseen' => cr' = cr)
  BY DEF UpdateStatus, UpdateStatusFails, WriteOutcome, WriteStatus, TypeOK,
     ClusterTypeOK, CR

\* sync() changes no watched object without an event.
LEMMA SyncAnnounces == TypeOK /\ Sync => Announced
<1> SUFFICES ASSUME TypeOK, Sync PROVE Announced
  OBVIOUS
<1> USE DEF Announced
<1>1. CASE ReadState \/ ReadOperator
  BY <1>1 DEF ReadState, ReadOperator, clusterVars
<1>0. ASSUME NEW o \in Object, ManageUnknownKind(o)
      PROVE  Announced
  BY <1>0 DEF ManageUnknownKind, clusterVars
<1>2. CASE UpdateAvailable
  BY <1>2, UpdateAnnounces DEF UpdateAvailable
<1>3. CASE CheckCertManager
  BY <1>3, UpdateAnnounces DEF CheckCertManager
<1>4. ASSUME NEW o \in Object, Manage(o)
      PROVE  Announced
  <2>1. objs' = [objs EXCEPT ![o] = Desired(loc.uid)]
    BY <1>4 DEF Manage, Desired
  <2>2. o = "networkpolicy" /\ "networkpolicy" \notin unseen' =>
            objs[o] = Desired(loc.uid)
    BY <1>4 DEF Manage, Desired, Watched
  <2>3. "networkpolicy" \in Object
    BY DEF Object, CertManagerObject, MonitoringObject
  <2>4. "networkpolicy" \notin unseen' => objs'["networkpolicy"] = objs["networkpolicy"]
    BY <2>1, <2>2, <2>3 DEF TypeOK, ClusterTypeOK
  <2>5. unseen \subseteq unseen' /\ UNCHANGED <<cr, deployment, configmap, secret>>
    BY <1>4 DEF Manage
  <2>6. QED
    BY <2>4, <2>5
<1>5. CASE ManageCRDPanics
  <2>1. unseen \subseteq unseen' /\ ("cr" \notin unseen' => cr' = cr)
    BY <1>5 DEF ManageCRDPanics, WriteStatus, TypeOK, ClusterTypeOK, CR
  <2>2. QED
    BY <1>5, <2>1 DEF ManageCRDPanics
<1>6. ASSUME NEW s \in SecretName, CheckSecretReady(s)
      PROVE  Announced
  BY <1>6 DEF CheckSecretReady, clusterVars
<1>7. CASE ManageConfigMap
  BY <1>7 DEF ManageConfigMap
<1>8. CASE ManageDeployment
  BY <1>8 DEF ManageDeployment
<1>9. CASE Finish
  BY <1>9, UpdateAnnounces DEF Finish
<1>10. CASE ReportDegraded
  BY <1>10, UpdateAnnounces DEF ReportDegraded
<1>11. QED
  BY <1>0, <1>1, <1>2, <1>3, <1>4, <1>5, <1>6, <1>7, <1>8, <1>9, <1>10 DEF Sync

-----------------------------------------------------------------------------
(* IInv is inductive.                                                      *)

\* A step that leaves a wake-up pending has only the caches to answer for.
LEMMA PendingInv ==
    ASSUME dirty' = TRUE, CachesFollow' PROVE IInv'
  BY DEF IInv, WorksOnlyWhenManaged, OwnerRead, SecretsRead, NetworkPolicyApplied,
     ConfigMapApplied, DeploymentApplied, SyncApplied, IdleApplied, Undisturbed

\* Caches that are left alone keep following what is announced.
LEMMA CachesFollowNext ==
    ASSUME CachesFollow, Announced, UNCHANGED cacheVars PROVE CachesFollow'
  BY DEF CachesFollow, Announced, cacheVars

\* A delivery makes the cache of its object follow again.
LEMMA DeliverInv ==
    ASSUME TypeOK, CachesFollow, NEW w \in Watched, Deliver(w) PROVE CachesFollow'
  BY DEF CachesFollow, Deliver, TypeOK, ClusterTypeOK, SecretName

\* Nothing moves but the cluster.
LEMMA ClusterInv ==
    ASSUME TypeOK, IInv, Announced, UNCHANGED <<cacheVars, queueVars, pc, loc, err>>
    PROVE  IInv'
<1> USE DEF cacheVars, queueVars
<1>1. CachesFollow'
  BY CachesFollowNext DEF IInv
<1>2. WorksOnlyWhenManaged' /\ OwnerRead' /\ SecretsRead'
  BY DEF IInv, WorksOnlyWhenManaged, OwnerRead, SecretsRead, Managed
<1>3. NetworkPolicyApplied'
  BY DEF IInv, NetworkPolicyApplied, Announced, Desired
<1>4. ConfigMapApplied'
  BY DEF IInv, ConfigMapApplied, ConfigMapCurrent, Announced
<1>5. DeploymentApplied'
  BY DEF IInv, DeploymentApplied, TemplateFor, Announced
<1>6. ASSUME Undisturbed'
      PROVE  Undisturbed /\ UNCHANGED <<cr, deployment, configmap, objs["networkpolicy"]>>
  BY <1>6 DEF Undisturbed, Announced, Managed
<1>7. (Undisturbed /\ Applied /\ FinishedStatus /\ Undisturbed') => (Applied' /\ FinishedStatus')
  BY <1>6 DEF Applied, FinishedStatus, TemplateFor, ConfigMapCurrent, Desired
<1>8. SyncApplied' /\ IdleApplied'
  BY <1>6, <1>7 DEF IInv, SyncApplied, IdleApplied
<1>9. QED
  BY <1>1, <1>2, <1>3, <1>4, <1>5, <1>8 DEF IInv

\* sync() gives up.
LEMMA FailInv ==
    ASSUME CachesFollow', pc' = "report", err' PROVE IInv'
  BY DEF IInv, WorksOnlyWhenManaged, OwnerRead, SecretsRead, NetworkPolicyApplied,
     ConfigMapApplied, DeploymentApplied, SyncApplied, IdleApplied, Call, After,
     Working, AfterOwner, AfterSecret, AfterMetrics, Object, CertManagerObject, MonitoringObject, SecretName

\* The first calls of sync() have nothing to answer for but the caches.
LEMMA EarlyCallInv ==
    ASSUME CachesFollow', WorksOnlyWhenManaged',
           pc' \in {"state", "available", "discover", "owner"}
    PROVE  IInv'
  BY DEF IInv, OwnerRead, SecretsRead, NetworkPolicyApplied, ConfigMapApplied,
     DeploymentApplied, SyncApplied, IdleApplied, AfterOwner, AfterSecret,
     AfterMetrics, Object, CertManagerObject, MonitoringObject, SecretName

\* Where the calls of the operand objects lead.
LEMMA AfterObject ==
    ASSUME NEW o \in Object
    PROVE  /\ After[o] \in Working
           /\ After[o] \in AfterOwner \ {"networkpolicy", "deployment", "finish"}
           /\ \A s \in SecretName : After[o] \in AfterSecret(s) => o \in AfterSecret(s)
           /\ o \in AfterOwner
           /\ o \in Working
  BY DEF Object, CertManagerObject, MonitoringObject, After, Working, Call, AfterOwner, AfterSecret, AfterMetrics, SecretName

\* Where the calls of the Secrets lead.
LEMMA AfterSecretRead ==
    ASSUME NEW s \in SecretName
    PROVE  /\ After[s] \in Working
           /\ After[s] \in AfterOwner \ {"networkpolicy", "deployment", "finish"}
           /\ \A t \in SecretName \ {s} : After[s] \in AfterSecret(t) => s \in AfterSecret(t)
           /\ s \in AfterOwner
           /\ s \in Working
  BY DEF Object, CertManagerObject, MonitoringObject, After, Working, Call, AfterOwner, AfterSecret, AfterMetrics, SecretName

\* Where the other calls lead, and which calls come after which reads.
LEMMA AfterOthers ==
    /\ After["state"] = "available"
    /\ After["available"] = "discover"
    /\ After["discover"] = "owner"
    /\ After["owner"] = "networkpolicy"
    /\ After["configmap"] = "deployment"
    /\ After["deployment"] = "finish"
    /\ After["finish"] = "report"
    /\ {"available", "discover", "owner", "networkpolicy", "configmap",
        "deployment", "finish"} \subseteq Working
    /\ {"configmap", "deployment", "finish"} \subseteq AfterOwner
    /\ \A s \in SecretName : {"configmap", "deployment", "finish"} \subseteq AfterSecret(s)
    /\ \A s \in SecretName : "networkpolicy" \notin AfterSecret(s)
    /\ {"report", "idle"} \cap (Working \cup AfterOwner) = {}
    /\ \A s \in SecretName : {"report", "idle"} \cap AfterSecret(s) = {}
  BY DEF Object, CertManagerObject, MonitoringObject, After, Working, Call, AfterOwner, AfterSecret, AfterMetrics, SecretName

\* A call in the middle of sync() has not to answer for the end of it.
LEMMA MiddleCallInv ==
    ASSUME pc' \in Working, pc' \notin {"deployment", "finish"}
    PROVE  ConfigMapApplied' /\ DeploymentApplied' /\ SyncApplied' /\ IdleApplied'
  BY AfterOthers DEF ConfigMapApplied, DeploymentApplied, SyncApplied, IdleApplied

\* The second read of the CR makes the owner and log level current.
LEMMA ReadOperatorInv ==
    ASSUME TypeOK, IInv, CachesFollow', ReadOperator PROVE IInv'
<1>1. CASE Fail
  BY <1>1, FailInv DEF Fail
<1>2. CASE ~Fail
  <2>1. /\ loc' = [loc EXCEPT !.uid = crCache.uid, !.log = crCache.log,
                              !.gen = crCache.status.gen]
        /\ pc' = "networkpolicy"
        /\ pc \in Working
        /\ UNCHANGED <<crCache, secretCache, depCache, dirty, delayed>>
    BY <1>2, AfterOthers DEF ReadOperator, Continue, Fail, cacheVars, queueVars
  <2>2. OwnerRead'
    BY <2>1 DEF OwnerRead, TypeOK, Local
  <2>3. WorksOnlyWhenManaged'
    BY <2>1 DEF IInv, WorksOnlyWhenManaged, Managed
  <2>4. SecretsRead' /\ NetworkPolicyApplied'
    BY <2>1, AfterOthers DEF SecretsRead, NetworkPolicyApplied
  <2>5. QED
    BY <2>1, <2>2, <2>3, <2>4, MiddleCallInv, AfterOthers DEF IInv
<1>3. QED
  BY <1>1, <1>2

\* An apply function keeps what was read, and makes the NetworkPolicy current.
LEMMA ManageInv ==
    ASSUME TypeOK, IInv, CachesFollow', Announced, NEW o \in Object, Manage(o)
    PROVE  IInv'
<1>1. /\ pc = o /\ pc' = After[o]
      /\ UNCHANGED <<crCache, secretCache, depCache, dirty, delayed, loc>>
      /\ objs' = [objs EXCEPT ![o] = Desired(loc.uid)]
  BY DEF Manage, Continue, cacheVars, queueVars, Desired
<1>2. OwnerRead' /\ WorksOnlyWhenManaged' /\ SecretsRead'
  BY <1>1, AfterObject DEF IInv, OwnerRead, WorksOnlyWhenManaged, SecretsRead, Managed
<1>3. NetworkPolicyApplied'
  <2>1. CASE o = "networkpolicy"
    BY <1>1, <2>1, AfterObject
    DEF IInv, OwnerRead, NetworkPolicyApplied, Desired, TypeOK, ClusterTypeOK
  <2>2. CASE o # "networkpolicy"
    BY <1>1, <2>2, AfterObject DEF IInv, NetworkPolicyApplied, Desired, Announced
  <2>3. QED
    BY <2>1, <2>2
<1>4. QED
  BY <1>1, <1>2, <1>3, AfterObject, MiddleCallInv DEF IInv

\* A check that passes makes the annotation of its Secret current.
LEMMA CheckSecretInv ==
    ASSUME TypeOK, IInv, CachesFollow', NEW s \in SecretName, CheckSecretReady(s)
    PROVE  IInv'
<1>1. CASE Fail
  BY <1>1, FailInv DEF Fail
<1>2. CASE ~Fail
  <2>1. /\ pc = s /\ pc' = After[s]
        /\ secretCache[s].state = "ready"
        /\ loc' = [loc EXCEPT !.secrets[s] = secretCache[s].ver]
        /\ UNCHANGED <<crCache, secretCache, depCache, dirty, delayed, unseen, objs>>
    BY <1>2 DEF CheckSecretReady, Continue, cacheVars, queueVars, clusterVars
  <2>2. /\ loc'.uid = loc.uid /\ loc'.log = loc.log
        /\ loc'.secrets = [loc.secrets EXCEPT ![s] = secretCache[s].ver]
    BY <2>1 DEF TypeOK, Local
  <2>3. OwnerRead' /\ WorksOnlyWhenManaged' /\ NetworkPolicyApplied'
    <3>1. pc \in AfterOwner \ {"networkpolicy"}
      BY <2>1, AfterSecretRead DEF SecretName
    <3>2. QED
      BY <2>1, <2>2, <3>1, AfterSecretRead
      DEF IInv, OwnerRead, WorksOnlyWhenManaged, NetworkPolicyApplied, Managed, Desired
  <2>4. SecretsRead'
    <3>1. loc.secrets \in [SecretName -> Nat]
      BY DEF TypeOK, Local
    <3>2. QED
      BY <2>1, <2>2, <3>1, AfterSecretRead DEF IInv, SecretsRead
  <2>5. QED
    BY <2>1, <2>3, <2>4, AfterSecretRead, MiddleCallInv DEF IInv
<1>3. QED
  BY <1>1, <1>2

\* manageConfigMap makes the ConfigMap and its annotation current.
LEMMA ManageConfigMapInv ==
    ASSUME TypeOK, IInv, CachesFollow', Announced, ManageConfigMap PROVE IInv'
<1>1. /\ pc = "configmap" /\ pc' = "deployment"
      /\ UNCHANGED <<crCache, secretCache, depCache, dirty, delayed, objs>>
      /\ loc' = [loc EXCEPT !.config = configmap'.ver]
  BY AfterOthers DEF ManageConfigMap, Continue, cacheVars, queueVars
<1>2. /\ loc'.uid = loc.uid /\ loc'.log = loc.log /\ loc'.secrets = loc.secrets
      /\ loc'.config = configmap'.ver
  BY <1>1 DEF TypeOK, Local
<1>3. OwnerRead' /\ WorksOnlyWhenManaged' /\ SecretsRead'
  BY <1>1, <1>2, AfterOthers DEF IInv, OwnerRead, WorksOnlyWhenManaged, SecretsRead, Managed
<1>4. NetworkPolicyApplied'
  BY <1>1, AfterOthers DEF IInv, NetworkPolicyApplied, Announced, Desired
<1>5. ConfigMapApplied'
  <2>1. ASSUME ~dirty', "configmap" \notin unseen'
        PROVE  ConfigMapCurrent' /\ loc'.config = configmap'.ver
    <3>1. loc.uid = crCache.uid
      BY <1>1, <2>1, AfterOthers DEF IInv, OwnerRead
    <3>2. configmap' = configmap /\ ConfigMapCurrent
      BY <1>1, <2>1, <3>1 DEF ManageConfigMap, ConfigMapCurrent
    <3>3. QED
      BY <1>1, <1>2, <3>2 DEF ConfigMapCurrent
  <2>2. QED
    BY <2>1 DEF ConfigMapApplied
<1>6. DeploymentApplied' /\ SyncApplied' /\ IdleApplied'
  BY <1>1 DEF DeploymentApplied, SyncApplied, IdleApplied
<1>7. QED
  BY <1>3, <1>4, <1>5, <1>6 DEF IInv

\* manageDeployment makes the Deployment current.
LEMMA ManageDeploymentInv ==
    ASSUME TypeOK, IInv, CachesFollow', Announced, ManageDeployment PROVE IInv'
<1>1. /\ pc = "deployment" /\ pc' = "finish"
      /\ UNCHANGED <<crCache, secretCache, depCache, dirty, delayed, objs, configmap>>
      /\ loc' = [loc EXCEPT !.depGen = deployment'.gen, !.depAvail = deployment'.avail]
      /\ unseen \subseteq unseen'
  BY AfterOthers DEF ManageDeployment, Continue, cacheVars, queueVars
<1>2. /\ loc'.uid = loc.uid /\ loc'.log = loc.log /\ loc'.secrets = loc.secrets
      /\ loc'.config = loc.config
      /\ loc'.depGen = deployment'.gen /\ loc'.depAvail = deployment'.avail
  BY <1>1 DEF TypeOK, Local
<1>3. OwnerRead' /\ WorksOnlyWhenManaged' /\ SecretsRead'
  BY <1>1, <1>2, AfterOthers DEF IInv, OwnerRead, WorksOnlyWhenManaged, SecretsRead, Managed
<1>4. NetworkPolicyApplied'
  BY <1>1, AfterOthers DEF IInv, NetworkPolicyApplied, Announced, Desired
<1>5. ConfigMapApplied'
  BY <1>1, <1>2 DEF IInv, ConfigMapApplied, ConfigMapCurrent
<1>6. DeploymentApplied'
  <2>1. ASSUME ~dirty', "deployment" \notin unseen', "configmap" \notin unseen'
        PROVE  TemplateFor(crCache.uid, crCache.log, loc.secrets)'
    <3>1. loc.uid = crCache.uid /\ loc.log = crCache.log
      BY <1>1, <2>1, AfterOthers DEF IInv, OwnerRead
    <3>2. loc.config = configmap.ver
      BY <1>1, <2>1 DEF IInv, ConfigMapApplied
    <3>3. deployment' = deployment
      BY <2>1 DEF Announced
    <3>4. /\ deployment'.exists /\ deployment'.owner = loc.uid
          /\ deployment'.template = Required
      BY <3>3 DEF ManageDeployment, UpToDate
    <3>5. QED
      BY <1>1, <1>2, <3>1, <3>2, <3>4 DEF TemplateFor, Required
  <2>2. QED
    BY <1>2, <2>1 DEF DeploymentApplied
<1>7. SyncApplied' /\ IdleApplied'
  BY <1>1 DEF SyncApplied, IdleApplied
<1>8. QED
  BY <1>3, <1>4, <1>5, <1>6, <1>7 DEF IInv

\* A status write of which no event is on its way changed nothing.
LEMMA QuietWrite ==
    ASSUME TypeOK, NEW st, WriteStatus(st), unseen' = {}
    PROVE  cr.status = st /\ cr' = cr /\ unseen = {}
<1>1. st = cr.status /\ unseen = {}
  BY DEF WriteStatus
<1>2. QED
  BY <1>1 DEF WriteStatus, TypeOK, ClusterTypeOK, CR

\* The final UpdateStatus: when nobody has to be told, the CR says it already.
LEMMA FinishInv ==
    ASSUME TypeOK, IInv, CachesFollow', Announced, Finish PROVE IInv'
<1>1. CASE Fail
  BY <1>1, FailInv DEF Fail
<1>2. CASE ~Fail
  <2>1. /\ pc = "finish" /\ pc' = "report"
        /\ UNCHANGED <<crCache, secretCache, depCache, dirty, delayed, objs,
                       configmap, deployment, loc, err>>
        /\ UpdateStatus(SetFinished(crCache.status), SetFinished(cr.status))
    BY <1>2, AfterOthers DEF Finish, Continue, cacheVars, queueVars
  <2>2. ASSUME Undisturbed' PROVE Applied' /\ FinishedStatus'
    <3>1. unseen = {} /\ cr' = cr /\ crCache = cr
      BY <2>2 DEF Undisturbed, Announced, IInv, CachesFollow
    <3>2. cr.status = SetFinished(cr.status)
      BY <2>1, <2>2, <3>1, QuietWrite DEF UpdateStatus, Undisturbed
    <3>3. /\ TemplateFor(crCache.uid, crCache.log, loc.secrets)
          /\ loc.depGen = deployment.gen /\ loc.depAvail = deployment.avail
      BY <2>1, <2>2, <3>1 DEF Undisturbed, IInv, DeploymentApplied
    <3>4. FinishedStatus
      <4>1. cr.status \in Status
        BY DEF TypeOK, ClusterTypeOK, CR
      <4>2. /\ SetFinished(cr.status).available = AvailableCondition(TRUE, loc.depAvail)
            /\ SetFinished(cr.status).degraded = "False"
            /\ SetFinished(cr.status).gen = loc.depGen
            /\ SetFinished(cr.status).ready = loc.depAvail
        BY <4>1 DEF SetFinished, Status
      <4>3. deployment.exists
        BY <3>3 DEF TemplateFor
      <4>4. QED
        BY <3>2, <3>3, <4>2, <4>3 DEF FinishedStatus, AvailableCondition
    <3>5. \A s \in SecretName : /\ secretCache[s].state = "ready"
                                /\ loc.secrets[s] = secretCache[s].ver
      BY <2>1, <2>2, AfterOthers DEF Undisturbed, IInv, SecretsRead
    <3>6. loc.secrets = [s \in SecretName |-> secretCache[s].ver]
      <4>1. loc.secrets \in [SecretName -> Nat]
        BY DEF TypeOK, Local
      <4>2. QED
        BY <3>5, <4>1
    <3>7. ConfigMapCurrent /\ objs["networkpolicy"] = Desired(crCache.uid)
      BY <2>1, <2>2, <3>1, AfterOthers
      DEF Undisturbed, IInv, ConfigMapApplied, NetworkPolicyApplied
    <3>8. Applied
      BY <3>3, <3>5, <3>6, <3>7 DEF Applied
    <3>9. QED
      BY <2>1, <3>1, <3>4, <3>8
      DEF Applied, FinishedStatus, TemplateFor, ConfigMapCurrent
  <2>3. SyncApplied'
    BY <2>2 DEF SyncApplied
  <2>4. /\ WorksOnlyWhenManaged' /\ OwnerRead' /\ SecretsRead' /\ NetworkPolicyApplied'
        /\ ConfigMapApplied' /\ DeploymentApplied' /\ IdleApplied'
    BY <2>1, AfterOthers DEF WorksOnlyWhenManaged, OwnerRead, SecretsRead,
       NetworkPolicyApplied, ConfigMapApplied, DeploymentApplied, IdleApplied
  <2>5. QED
    BY <2>3, <2>4 DEF IInv
<1>3. QED
  BY <1>1, <1>2

\* Between two syncs only the end of the last one matters.
LEMMA IdleInv ==
    ASSUME CachesFollow', IdleApplied', pc' = "idle" PROVE IInv'
  BY AfterOthers DEF IInv, WorksOnlyWhenManaged, OwnerRead, SecretsRead,
     NetworkPolicyApplied, ConfigMapApplied, DeploymentApplied, SyncApplied

\* reportDegraded hands over what sync() achieved.
LEMMA ReportInv ==
    ASSUME TypeOK, IInv, CachesFollow', Announced, ReportDegraded PROVE IInv'
<1>1. /\ pc = "report" /\ pc' = "idle"
      /\ UNCHANGED <<crCache, secretCache, depCache, dirty, objs, configmap, deployment>>
      /\ delayed' = (delayed \/ err)
      /\ WriteOutcome
  BY DEF ReportDegraded, Done, cacheVars
<1>2. ASSUME Undisturbed', ~delayed'
      PROVE  Applied' /\ FinishedStatus' /\ cr'.status.tcd = "False"
  <2>1. unseen = {} /\ cr' = cr /\ crCache = cr /\ ~err /\ cr.exists
    BY <1>1, <1>2 DEF Undisturbed, Announced, IInv, CachesFollow, Managed
  <2>2. Applied /\ FinishedStatus
    BY <1>1, <1>2, <2>1 DEF Undisturbed, IInv, SyncApplied
  <2>3. Applied' /\ FinishedStatus'
    BY <1>1, <2>1, <2>2 DEF Applied, FinishedStatus, TemplateFor, ConfigMapCurrent
  <2>4. cr.status = [cr.status EXCEPT !.tcd = "False"]
    BY <1>1, <1>2, <2>1, QuietWrite DEF WriteOutcome, Undisturbed
  <2>5. cr.status \in Status
    BY DEF TypeOK, ClusterTypeOK, CR
  <2>6. cr.status.tcd = "False"
    BY <2>4, <2>5 DEF Status
  <2>7. QED
    BY <2>1, <2>3, <2>6
<1>3. QED
  BY <1>1, <1>2, IdleInv DEF IdleApplied

\* sync() and its report preserve the invariant, call by call.
LEMMA SyncInv == TypeOK /\ IInv /\ Sync => IInv'
<1> SUFFICES ASSUME TypeOK, IInv, Sync PROVE IInv'
  OBVIOUS
<1>a. Announced
  BY SyncAnnounces
<1>b. UNCHANGED cacheVars
  BY DEF Sync, ReadState, UpdateAvailable, CheckCertManager, ReadOperator, Manage,
     ManageUnknownKind, ManageCRDPanics, Restart, CheckSecretReady, ManageConfigMap, ManageDeployment,
     Finish, ReportDegraded, Done
<1>c. CachesFollow'
  BY <1>a, <1>b, CachesFollowNext DEF IInv
<1>1. CASE ReadState
  <2>1. CASE Fail
    BY <1>c, <2>1, FailInv DEF Fail
  <2>2. CASE Managed(crCache) /\ Continue
    <3>1. pc' = "available" /\ crCache' = crCache
      BY <1>1, <1>b, <2>2, AfterOthers DEF ReadState, Continue, cacheVars
    <3>2. QED
      BY <1>c, <2>2, <3>1, EarlyCallInv DEF WorksOnlyWhenManaged, Managed
  <2>3. CASE ~Managed(crCache) /\ pc' = "report"
    <3>1. ~Managed(crCache)'
      BY <1>b, <2>3 DEF cacheVars, Managed
    <3>2. QED
      BY <1>c, <2>3, <3>1, AfterOthers DEF IInv, WorksOnlyWhenManaged, OwnerRead,
         SecretsRead, NetworkPolicyApplied, ConfigMapApplied, DeploymentApplied,
         SyncApplied, IdleApplied, Undisturbed, Managed
  <2>4. QED
    BY <1>1, <2>1, <2>2, <2>3 DEF ReadState, Managed
<1>2. CASE UpdateAvailable \/ CheckCertManager
  <2>1. CASE Fail
    BY <1>c, <2>1, FailInv DEF Fail
  <2>2. CASE Continue
    <3>1. /\ pc' \in {"discover", "owner"} /\ pc \in Working
          /\ UNCHANGED <<crCache, dirty>>
      BY <1>2, <2>2, AfterOthers
      DEF UpdateAvailable, CheckCertManager, Continue, cacheVars, queueVars
    <3>2. QED
      BY <1>c, <3>1, EarlyCallInv DEF IInv, WorksOnlyWhenManaged, Managed
  <2>3. QED
    BY <1>2, <2>1, <2>2 DEF UpdateAvailable, CheckCertManager
<1>3. CASE ReadOperator
  BY <1>3, <1>c, ReadOperatorInv
<1>0. ASSUME NEW o \in Object, ManageUnknownKind(o)
      PROVE  IInv'
  BY <1>0, <1>c, FailInv DEF ManageUnknownKind, Fail
<1>4. ASSUME NEW o \in Object, Manage(o)
      PROVE  IInv'
  BY <1>4, <1>a, <1>c, ManageInv
<1>5. CASE ManageCRDPanics
  BY <1>5, <1>c, PendingInv DEF ManageCRDPanics, Restart
<1>6. ASSUME NEW s \in SecretName, CheckSecretReady(s)
      PROVE  IInv'
  BY <1>6, <1>c, CheckSecretInv
<1>7. CASE ManageConfigMap
  BY <1>7, <1>a, <1>c, ManageConfigMapInv
<1>8. CASE ManageDeployment
  BY <1>8, <1>a, <1>c, ManageDeploymentInv
<1>9. CASE Finish
  BY <1>9, <1>a, <1>c, FinishInv
<1>10. CASE ReportDegraded
  BY <1>10, <1>a, <1>c, ReportInv
<1>11. QED
  BY <1>0, <1>1, <1>2, <1>3, <1>4, <1>5, <1>6, <1>7, <1>8, <1>9, <1>10 DEF Sync

\* The operator starts with a wake-up pending and caches in sync.
LEMMA InitInv == Init => IInv
<1> SUFFICES ASSUME Init PROVE IInv
  OBVIOUS
<1>1. CachesFollow
  BY DEF Init, CachesFollow
<1>2. QED
  BY <1>1 DEF Init, IInv, WorksOnlyWhenManaged, OwnerRead, SecretsRead,
     NetworkPolicyApplied, ConfigMapApplied, DeploymentApplied, SyncApplied,
     IdleApplied, Undisturbed

\* Every step of the controller, of the cluster and of the disturbances.
LEMMA NextInv == TypeOK /\ IInv /\ [Next]_vars => IInv'
<1> SUFFICES ASSUME TypeOK, IInv, [Next]_vars PROVE IInv'
  OBVIOUS
<1>1. ASSUME NEW w \in Watched, Deliver(w)
      PROVE  IInv'
  <2>1. CachesFollow'
    BY <1>1, DeliverInv DEF IInv
  <2>2. QED
    BY <1>1, <2>1, PendingInv DEF Deliver
<1>2. CASE Resync \/ Retry \/ Kill
  <2>1. Announced /\ UNCHANGED cacheVars
    BY <1>2 DEF Resync, Retry, Kill, Restart, Announced, clusterVars
  <2>2. QED
    BY <1>2, <2>1, CachesFollowNext, PendingInv DEF IInv, Resync, Retry, Kill, Restart
<1>3. CASE Get
  <2>1. Announced /\ UNCHANGED cacheVars
    BY <1>3 DEF Get, Announced, clusterVars
  <2>2. pc' = "state"
    BY <1>3 DEF Get
  <2>3. WorksOnlyWhenManaged'
    BY <2>2 DEF WorksOnlyWhenManaged, Working
  <2>4. QED
    BY <2>1, <2>2, <2>3, CachesFollowNext, EarlyCallInv DEF IInv
<1>4. CASE CallFails
  <2>1. Announced /\ UNCHANGED cacheVars
    BY <1>4 DEF CallFails, Announced
  <2>2. QED
    BY <1>4, <2>1, CachesFollowNext, FailInv DEF IInv, CallFails, Fail
<1>5. CASE ReportFails
  <2>1. Announced /\ UNCHANGED cacheVars
    BY <1>5, UpdateAnnounces DEF ReportFails, Done, Announced
  <2>2. pc' = "idle" /\ delayed'
    BY <1>5 DEF ReportFails, Done
  <2>3. QED
    BY <2>1, <2>2, CachesFollowNext, IdleInv DEF IInv, IdleApplied
<1>6. CASE Sync
  BY <1>6, SyncInv
<1>7. CASE Environment
  BY <1>7, ClusterAnnounces, ClusterInv DEF Environment
<1>8. CASE UNCHANGED vars
  <2>1. Announced /\ UNCHANGED <<cacheVars, queueVars, pc, loc, err>>
    BY <1>8 DEF vars, Announced, clusterVars
  <2>2. QED
    BY <2>1, ClusterInv
<1>9. QED
  BY <1>1, <1>2, <1>3, <1>4, <1>5, <1>6, <1>7, <1>8 DEF Next, ControllerNext

\* Between wake-ups, what a sync has read or applied is what the caches and the
\* cluster hold (IInv is inductive).
THEOREM Invariant == Spec => []IInv
  BY InitType, NextType, InitInv, NextInv, PTL DEF Spec

\* The invariant gives the two promises of an operator at rest.
LEMMA QuiescentImplied ==
    ASSUME TypeOK, IInv PROVE QuiescentReconciled /\ QuiescentStatusHonest
<1> SUFFICES ASSUME Quiescent, Managed(cr)
             PROVE  /\ \A s \in SecretName : secret[s].state = "ready"
                    /\ TemplateFor(cr.uid, cr.log, [s \in SecretName |-> secret[s].ver])
                    /\ configmap.exists /\ configmap.owner = cr.uid /\ ~configmap.drifted
                    /\ objs["networkpolicy"] = Desired(cr.uid)
                    /\ HonestStatus
  BY DEF QuiescentReconciled, QuiescentStatusHonest
<1>1. crCache = cr /\ \A s \in SecretName : secretCache[s] = secret[s]
  BY DEF Quiescent, IInv, CachesFollow
<1>2. Applied /\ FinishedStatus /\ cr.status.tcd = "False"
  BY <1>1 DEF Quiescent, IInv, IdleApplied, Undisturbed
<1>3. [s \in SecretName |-> secretCache[s].ver] = [s \in SecretName |-> secret[s].ver]
  BY <1>1
<1>4. HonestStatus
  <2>1. cr.status \in Status
    BY DEF TypeOK, ClusterTypeOK, CR
  <2>2. QED
    BY <1>2, <2>1 DEF FinishedStatus, HonestStatus, Status
<1>5. QED
  BY <1>1, <1>2, <1>3, <1>4 DEF Applied, ConfigMapCurrent

\* No wake-up is lost: an operator with nothing left to do has a Deployment
\* that names the Secrets, the ConfigMap, the log level and the CR of now.
THEOREM Reconciles == Spec => []QuiescentReconciled
<1>1. TypeOK /\ IInv => QuiescentReconciled
  BY QuiescentImplied
<1>2. QED
  BY <1>1, TypeCorrect, Invariant, PTL

\* An operator with nothing left to do has told the truth about the operand.
THEOREM ReportsHonestly == Spec => []QuiescentStatusHonest
<1>1. TypeOK /\ IInv => QuiescentStatusHonest
  BY QuiescentImplied
<1>2. QED
  BY <1>1, TypeCorrect, Invariant, PTL

\* sync() works past its management state check for a Managed CR only, or a
\* wake-up that will find out is queued.
THEOREM ManagedOnly == Spec => []WorksOnlyWhenManaged
<1>1. IInv => WorksOnlyWhenManaged
  BY DEF IInv
<1>2. QED
  BY <1>1, Invariant, PTL

-----------------------------------------------------------------------------
(* CertificatesWereIssued is inductive.                                    *)

\* Nobody but the reconciler creates a webhook configuration or a Deployment,
\* or changes the template of one, and a Secret is complete only once issued.
NothingApplied ==
    /\ \A s \in SecretName : issued[s] \subseteq issued'[s]
    /\ deployment'.exists =>
          deployment.exists /\ deployment'.template = deployment.template
    /\ \A o \in {"validatingwebhook", "mutatingwebhook"} :
          objs'[o].exists => objs[o].exists
    /\ \A s \in SecretName : secret'[s].state = "ready" =>
          secret'[s].ver \in issued'[s] \/ secret'[s] = secret[s]

\* The world outside the operator applies nothing.
LEMMA ClusterAppliesNothing == TypeOK /\ ClusterNext => NothingApplied
<1> SUFFICES ASSUME TypeOK, ClusterNext PROVE NothingApplied
  OBVIOUS
<1> USE DEF NothingApplied, TypeOK, ClusterTypeOK
<1>a. NoDeployment.exists = FALSE
  BY DEF NoDeployment
<1>b. {"validatingwebhook", "mutatingwebhook"} \subseteq Object
  BY DEF Object, CertManagerObject, MonitoringObject
<1>1. CASE EditCR \/ DeleteCR \/ CreateCR
  BY <1>1 DEF EditCR, DeleteCR, CreateCR
<1>2. ASSUME NEW o \in Object, TamperObject(o)
      PROVE  NothingApplied
  BY <1>2, <1>b DEF TamperObject, ObjectVal
<1>3. ASSUME NEW o \in Object, DeleteObject(o)
      PROVE  NothingApplied
  BY <1>3, <1>b DEF DeleteObject, NoObject
<1>4. CASE DropConversion
  BY <1>4, <1>b DEF DropConversion, Object, CertManagerObject, MonitoringObject
<1>5. CASE TamperConfigMap \/ DeleteConfigMap \/ CollectConfigMap
  BY <1>5 DEF TamperConfigMap, DeleteConfigMap, CollectConfigMap, RemoveConfigMap
<1>6. CASE TamperDeployment
  BY <1>6 DEF TamperDeployment, Deployment
<1>7. CASE DeleteDeployment \/ CollectDeployment
  BY <1>7, <1>a DEF DeleteDeployment, CollectDeployment, RemoveDeployment
<1>8. CASE ToggleCertManager
  BY <1>8, <1>b DEF ToggleCertManager, NoObject
<1>9. ASSUME NEW s \in SecretName, PrepareSecret(s) \/ DeleteSecret(s)
      PROVE  NothingApplied
  BY <1>9 DEF PrepareSecret, DeleteSecret, Secret
<1>10. ASSUME NEW s \in SecretName, FillSecret(s)
      PROVE  NothingApplied
  BY <1>10 DEF FillSecret, Secret
<1>11. CASE PodsLost \/ PodsReady
  BY <1>11 DEF PodsLost, PodsReady, Deployment
<1>12. CASE CollectObjects
  BY <1>12, <1>b DEF CollectObjects, NoObject
<1>13. QED
  BY <1>1, <1>2, <1>3, <1>4, <1>5, <1>6, <1>7, <1>8, <1>9, <1>10, <1>11, <1>12
  DEF ClusterNext, ClusterProgress, IssueSecret, RotateSecret

\* A step that applies nothing and does not pass a Secret's check.
LEMMA CertificatesKept ==
    ASSUME CertificatesWereIssued, NothingApplied,
           \A s \in SecretName :
              /\ secretCache'[s] = secretCache[s] \/ secretCache'[s] = secret[s]
              /\ pc' \in AfterSecret(s) =>
                    pc \in AfterSecret(s) /\ loc'.secrets[s] = loc.secrets[s]
    PROVE  CertificatesWereIssued'
<1>1. ASSUME NEW s \in SecretName
      PROVE  /\ secret'[s].state = "ready" => secret'[s].ver \in issued'[s]
             /\ secretCache'[s].state = "ready" => secretCache'[s].ver \in issued'[s]
             /\ pc' \in AfterSecret(s) => loc'.secrets[s] \in issued'[s]
             /\ issued[s] # {} => issued'[s] # {}
  BY <1>1 DEF CertificatesWereIssued, NothingApplied
<1>2. OperandNeedsCertificates'
  BY <1>1 DEF CertificatesWereIssued, NothingApplied, OperandNeedsCertificates
<1>3. QED
  BY <1>1, <1>2 DEF CertificatesWereIssued

\* Which calls come after a Secret's check.
LEMMA ReachedBySecret ==
    ASSUME NEW s \in SecretName
    PROVE  /\ AfterSecret(s) \cap {"idle", "report", "state", "available",
                                   "discover", "owner", "networkpolicy"} = {}
           /\ "validatingwebhook" \in AfterSecret(s)
           /\ "mutatingwebhook" \in AfterSecret(s)
           /\ \A c \in {"configmap", "deployment", "finish"} : c \in AfterSecret(s)
  BY DEF AfterSecret, AfterMetrics, SecretName

\* sync() applies the gated objects only past the checks.
LEMMA SyncCertificates ==
    ASSUME TypeOK, CertificatesWereIssued, Sync PROVE CertificatesWereIssued'
<1> USE DEF cacheVars, queueVars, clusterVars
<1>1. ASSUME ReadState \/ UpdateAvailable \/ CheckCertManager \/ ReadOperator
                \/ ManageCRDPanics \/ Finish \/ ReportDegraded
      PROVE  CertificatesWereIssued'
  <2>1. /\ UNCHANGED <<secret, objs, deployment, issued, secretCache>>
        /\ pc' \in {"idle", "report", "available", "discover", "owner", "networkpolicy"}
    BY <1>1, AfterOthers DEF ReadState, UpdateAvailable, CheckCertManager,
       ReadOperator, ManageCRDPanics, Restart, Finish, ReportDegraded, Done,
       Continue, Fail
  <2>2. NothingApplied
    BY <2>1 DEF NothingApplied
  <2>3. QED
    BY <2>1, <2>2, CertificatesKept, ReachedBySecret
<1>0. ASSUME NEW o \in Object, ManageUnknownKind(o)
      PROVE  CertificatesWereIssued'
  <2>1. NothingApplied /\ UNCHANGED secretCache /\ pc' = "report"
    BY <1>0 DEF ManageUnknownKind, NothingApplied, Fail
  <2>2. QED
    BY <2>1, CertificatesKept, ReachedBySecret
<1>2. ASSUME NEW o \in Object, Manage(o)
      PROVE  CertificatesWereIssued'
  <2>1. /\ UNCHANGED <<secret, deployment, issued, secretCache, loc>>
        /\ pc = o /\ pc' = After[o]
        /\ objs' = [objs EXCEPT ![o] = Desired(loc.uid)]
    BY <1>2 DEF Manage, Continue, Desired
  <2>2. ASSUME NEW s \in SecretName
        PROVE  /\ secret'[s].state = "ready" => secret'[s].ver \in issued'[s]
               /\ secretCache'[s].state = "ready" => secretCache'[s].ver \in issued'[s]
               /\ pc' \in AfterSecret(s) => loc'.secrets[s] \in issued'[s]
    BY <2>1, <2>2, AfterObject DEF CertificatesWereIssued
  <2>3. ASSUME NEW s \in SecretName,
               objs'["validatingwebhook"].exists \/ objs'["mutatingwebhook"].exists
        PROVE  issued[s] # {}
    <3>1. CASE o \in {"validatingwebhook", "mutatingwebhook"}
      BY <2>1, <2>3, <3>1, ReachedBySecret DEF CertificatesWereIssued
    <3>2. CASE o \notin {"validatingwebhook", "mutatingwebhook"}
      BY <2>1, <2>3, <3>2 DEF CertificatesWereIssued, OperandNeedsCertificates
    <3>3. QED
      BY <3>1, <3>2
  <2>4. OperandNeedsCertificates'
    BY <2>1, <2>3 DEF CertificatesWereIssued, OperandNeedsCertificates
  <2>5. QED
    BY <2>2, <2>4 DEF CertificatesWereIssued
<1>3. ASSUME NEW s \in SecretName, CheckSecretReady(s)
      PROVE  CertificatesWereIssued'
  <2>1. UNCHANGED <<secret, objs, deployment, issued, secretCache>> /\ pc = s
    BY <1>3 DEF CheckSecretReady
  <2>2. NothingApplied
    BY <2>1 DEF NothingApplied
  <2>3. CASE Fail
    BY <2>1, <2>2, <2>3, CertificatesKept, ReachedBySecret DEF Fail
  <2>4. CASE ~Fail
    <3>1. /\ secretCache[s].state = "ready" /\ pc' = After[s]
          /\ loc' = [loc EXCEPT !.secrets[s] = secretCache[s].ver]
      BY <1>3, <2>4 DEF CheckSecretReady, Continue
    <3>2. loc'.secrets = [loc.secrets EXCEPT ![s] = secretCache[s].ver]
      BY <3>1 DEF TypeOK, Local
    <3>3. loc.secrets \in [SecretName -> Nat]
      BY DEF TypeOK, Local
    <3>4. \A t \in SecretName : pc' \in AfterSecret(t) => loc'.secrets[t] \in issued[t]
      BY <2>1, <3>1, <3>2, <3>3, AfterSecretRead DEF CertificatesWereIssued
    <3>5. QED
      BY <2>1, <3>4 DEF CertificatesWereIssued, OperandNeedsCertificates
  <2>5. QED
    BY <2>3, <2>4
<1>4. CASE ManageConfigMap
  <2>1. /\ UNCHANGED <<secret, objs, deployment, issued, secretCache>>
        /\ pc = "configmap"
        /\ loc' = [loc EXCEPT !.config = configmap'.ver]
    BY <1>4 DEF ManageConfigMap
  <2>2. loc'.secrets = loc.secrets
    BY <2>1 DEF TypeOK, Local
  <2>3. NothingApplied
    BY <2>1 DEF NothingApplied
  <2>4. QED
    BY <2>1, <2>2, <2>3, CertificatesKept, ReachedBySecret
<1>5. CASE ManageDeployment
  <2>1. /\ UNCHANGED <<secret, objs, issued, secretCache>>
        /\ pc = "deployment"
        /\ loc' = [loc EXCEPT !.depGen = deployment'.gen, !.depAvail = deployment'.avail]
        /\ deployment'.template = Required
    BY <1>5 DEF ManageDeployment, UpToDate
  <2>2. loc'.secrets = loc.secrets
    BY <2>1 DEF TypeOK, Local
  <2>3. \A s \in SecretName : loc.secrets[s] \in issued[s]
    BY <2>1, ReachedBySecret DEF CertificatesWereIssued
  <2>4. deployment'.template.secrets = loc.secrets
    BY <2>1 DEF Required
  <2>5. OperandNeedsCertificates'
    BY <2>1, <2>3, <2>4 DEF CertificatesWereIssued, OperandNeedsCertificates
  <2>6. QED
    BY <2>1, <2>2, <2>3, <2>5 DEF CertificatesWereIssued
<1>6. QED
  BY <1>0, <1>1, <1>2, <1>3, <1>4, <1>5 DEF Sync

\* Every step keeps the certificates behind what was applied.
LEMMA NextCertificates ==
    TypeOK /\ CertificatesWereIssued /\ [Next]_vars => CertificatesWereIssued'
<1> SUFFICES ASSUME TypeOK, CertificatesWereIssued, [Next]_vars
             PROVE  CertificatesWereIssued'
  OBVIOUS
<1> USE DEF cacheVars, queueVars, clusterVars
<1>1. ASSUME NEW w \in Watched, Deliver(w)
      PROVE  CertificatesWereIssued'
  <2>1. NothingApplied /\ UNCHANGED <<pc, loc>>
    BY <1>1 DEF Deliver, NothingApplied
  <2>2. \A s \in SecretName :
           secretCache'[s] = secretCache[s] \/ secretCache'[s] = secret[s]
    BY <1>1 DEF Deliver, TypeOK
  <2>3. QED
    BY <2>1, <2>2, CertificatesKept
<1>2. CASE Resync \/ Retry \/ Get \/ Kill \/ CallFails \/ ReportFails
  <2>1. NothingApplied /\ UNCHANGED secretCache
    BY <1>2 DEF Resync, Retry, Get, Kill, Restart, CallFails, ReportFails, Done,
       NothingApplied
  <2>2. pc' \in {"idle", "report", "state"} \/ UNCHANGED <<pc, loc>>
    BY <1>2 DEF Resync, Retry, Get, Kill, Restart, CallFails, ReportFails, Done, Fail
  <2>3. QED
    BY <2>1, <2>2, CertificatesKept, ReachedBySecret
<1>3. CASE Sync
  BY <1>3, SyncCertificates
<1>4. CASE Environment
  BY <1>4, ClusterAppliesNothing, CertificatesKept DEF Environment
<1>5. CASE UNCHANGED vars
  <2>1. NothingApplied /\ UNCHANGED <<secretCache, pc, loc>>
    BY <1>5 DEF vars, NothingApplied
  <2>2. QED
    BY <2>1, CertificatesKept
<1>6. QED
  BY <1>1, <1>2, <1>3, <1>4, <1>5 DEF Next, ControllerNext

\* The webhook configurations and the Deployment are applied only with
\* certificates that checkSecretReady has seen complete.
THEOREM CertificatesFirst == Spec => []OperandNeedsCertificates
<1>1. Init => CertificatesWereIssued
  <2>1. Init => ~deployment.exists /\ \A o \in Object : ~objs[o].exists
    BY DEF Init, ClusterInit, NoDeployment, NoObject
  <2>2. Init => \A s \in SecretName : secret[s].state = "absent" /\ secretCache = secret
    BY DEF Init, ClusterInit
  <2>3. Init => pc = "idle"
    BY DEF Init
  <2>4. QED
    BY <2>1, <2>2, <2>3, ReachedBySecret
    DEF CertificatesWereIssued, OperandNeedsCertificates, Object, CertManagerObject, MonitoringObject
<1>2. CertificatesWereIssued => OperandNeedsCertificates
  BY DEF CertificatesWereIssued
<1>3. QED
  BY <1>1, <1>2, NextCertificates, TypeCorrect, PTL DEF Spec

-----------------------------------------------------------------------------
(* Idempotency.                                                            *)

\* Two states of the CR that differ in the report only agree in all the rest.
LEMMA SameFields ==
    ASSUME NEW c \in CR, NEW d \in CR
    PROVE  SameButReport(c, d) <=>
              /\ c.exists = d.exists /\ c.uid = d.uid /\ c.mgmt = d.mgmt /\ c.log = d.log
              /\ c.status.available = d.status.available
              /\ c.status.degraded = d.status.degraded
              /\ c.status.gen = d.status.gen /\ c.status.ready = d.status.ready
<1> DEFINE e == [c.status EXCEPT !.tcd = d.status.tcd]
<1>1. c.status \in Status /\ d.status \in Status
  BY DEF CR
<1>2. e = d.status <=> /\ c.status.available = d.status.available
                       /\ c.status.degraded = d.status.degraded
                       /\ c.status.gen = d.status.gen /\ c.status.ready = d.status.ready
  BY <1>1 DEF Status
<1>3. [c EXCEPT !.status.tcd = d.status.tcd] = [c EXCEPT !.status = e]
  BY DEF CR
<1>4. [c EXCEPT !.status = e] = d <=>
         /\ c.exists = d.exists /\ c.uid = d.uid /\ c.mgmt = d.mgmt /\ c.log = d.log
         /\ e = d.status
  BY DEF CR
<1>5. QED
  BY <1>2, <1>3, <1>4 DEF SameButReport

\* A step that at most writes the report leaves the work done.
LEMMA ReportKeeps ==
    ASSUME TypeOK, TypeOK', Settled,
           UNCHANGED <<certManager, secret, objs, configmap, deployment, secretCache, depCache>>,
           SameButReport(cr, cr'), SameButReport(crCache', cr'), unseen' \subseteq {"cr"},
           SyncInStep'
    PROVE  OnlyReports /\ Settled'
<1>0. cr \in CR /\ cr' \in CR /\ crCache \in CR /\ crCache' \in CR
  BY DEF TypeOK, ClusterTypeOK
<1>1. /\ cr'.exists = cr.exists /\ cr'.uid = cr.uid /\ cr'.mgmt = cr.mgmt /\ cr'.log = cr.log
      /\ cr'.status.available = cr.status.available /\ cr'.status.degraded = cr.status.degraded
      /\ cr'.status.gen = cr.status.gen /\ cr'.status.ready = cr.status.ready
  BY <1>0, SameFields
<1>2. /\ crCache.uid = cr.uid /\ crCache.log = cr.log
      /\ crCache'.uid = cr'.uid /\ crCache'.log = cr'.log
  BY <1>0, SameFields DEF Settled
<1>3. Managed(cr)' /\ certManager' /\ (secretCache = secret)' /\ (depCache = deployment)'
  BY <1>1 DEF Settled, Managed
<1>4. (\A o \in Object : objs[o] = Desired(cr.uid))'
  BY <1>1 DEF Settled, Desired
<1>5. Applied'
  BY <1>1, <1>2 DEF Settled, Applied, TemplateFor, ConfigMapCurrent, Desired
<1>6. FinishedStatus'
  BY <1>1 DEF Settled, FinishedStatus
<1>7. QED
  BY <1>3, <1>4, <1>5, <1>6 DEF Settled, OnlyReports

\* A step that writes nothing at all.
LEMMA SilentKeeps ==
    ASSUME TypeOK, TypeOK', Settled, SyncInStep', UNCHANGED cacheVars,
           UNCHANGED <<cr, certManager, secret, objs, configmap, deployment, unseen>>
    PROVE  OnlyReports /\ Settled'
<1>1. cr \in CR
  BY DEF TypeOK, ClusterTypeOK
<1>2. SameButReport(cr, cr') /\ SameButReport(crCache', cr') /\ unseen' \subseteq {"cr"}
  BY <1>1, SameFields DEF Settled, cacheVars, SameButReport
<1>3. QED
  BY <1>2, ReportKeeps DEF cacheVars

\* Outside of the calls that use what was read there is nothing to be in step.
LEMMA OutOfStep ==
    ASSUME pc' \in {"idle", "state", "available", "discover", "owner", "report"}
    PROVE  SyncInStep'
  BY DEF SyncInStep, AfterOwner, AfterSecret, AfterMetrics, Object, CertManagerObject,
     MonitoringObject, SecretName

\* A call that keeps what was read, and goes on where nothing more is needed.
LEMMA StaysInStep ==
    ASSUME Settled, UNCHANGED <<cr, secret, configmap, deployment, loc>>,
           pc' \in AfterOwner => pc \in AfterOwner,
           \A s \in SecretName : pc' \in AfterSecret(s) => pc \in AfterSecret(s),
           pc' \notin {"deployment", "finish"}
    PROVE  SyncInStep'
  BY DEF Settled, SyncInStep

\* An update of the status that would change nothing is not sent.
LEMMA NothingToUpdate ==
    ASSUME NEW new, NEW newLive, new = crCache.status, crCache.exists,
           UpdateStatus(new, newLive) \/ UpdateStatusFails(new)
    PROVE  UNCHANGED <<cr, unseen>> /\ UpdateStatus(new, newLive) /\ ~UpdateStatusFails(new)
  BY DEF UpdateStatus, UpdateStatusFails

\* What the settled cluster looks like to sync().
LEMMA SettledFacts ==
    ASSUME TypeOK, Settled
    PROVE  /\ crCache.exists /\ crCache.mgmt \in {"", "Managed"} /\ cr.exists
           /\ crCache.uid = cr.uid /\ crCache.log = cr.log
           /\ crCache.status.gen = deployment.gen
           /\ crCache.status.ready = deployment.avail
           /\ crCache.status.degraded = "False"
           /\ crCache.status.available = AvailableCondition(depCache.exists, depCache.avail)
           /\ deployment.exists
           /\ crCache.status \in Status
<1>1. cr \in CR /\ crCache \in CR
  BY DEF TypeOK, ClusterTypeOK
<1>2. SameButReport(crCache, cr)
  BY DEF Settled
<1>3. /\ crCache.exists = cr.exists /\ crCache.mgmt = cr.mgmt
      /\ crCache.uid = cr.uid /\ crCache.log = cr.log
      /\ crCache.status.available = cr.status.available
      /\ crCache.status.degraded = cr.status.degraded
      /\ crCache.status.gen = cr.status.gen /\ crCache.status.ready = cr.status.ready
  BY <1>1, <1>2, SameFields
<1>4. cr.exists /\ cr.mgmt \in {"", "Managed"} /\ deployment.exists /\ depCache = deployment
  BY DEF Settled, Managed, Applied, TemplateFor
<1>5. FinishedStatus
  BY DEF Settled
<1>6. crCache.status \in Status
  BY <1>1 DEF CR
<1>7. QED
  BY <1>3, <1>4, <1>5, <1>6 DEF FinishedStatus

\* reportDegraded changes its condition, if anything.
LEMMA OutcomeReports ==
    ASSUME TypeOK, Settled, WriteOutcome \/ UNCHANGED <<cr, unseen>>, UNCHANGED crCache,
           cr' \in CR
    PROVE  SameButReport(cr, cr') /\ SameButReport(crCache', cr') /\ unseen' \subseteq {"cr"}
<1>0. cr \in CR /\ crCache \in CR
  BY DEF TypeOK, ClusterTypeOK
<1>1. SameButReport(cr, cr')
  <2>1. CASE UNCHANGED cr
    BY <1>0, <2>1, SameFields
  <2>2. CASE WriteOutcome /\ ~UNCHANGED cr
    <3>1. PICK v : cr' = [cr EXCEPT !.status = [cr.status EXCEPT !.tcd = v]]
      BY <2>2 DEF WriteOutcome, WriteStatus
    <3>2. QED
      BY <1>0, <3>1, SameFields DEF CR, Status
  <2>3. QED
    BY <2>1, <2>2
<1>2. SameButReport(crCache', cr')
  BY <1>0, <1>1, SameFields DEF Settled
<1>3. unseen' \subseteq {"cr"}
  BY DEF Settled, WriteOutcome, WriteStatus
<1>4. QED
  BY <1>1, <1>2, <1>3

LEMMA ReportSettled ==
    ASSUME TypeOK, TypeOK', Settled, ReportDegraded \/ ReportFails
    PROVE  OnlyReports /\ Settled'
<1>1. /\ WriteOutcome \/ UNCHANGED <<cr, unseen>>
      /\ UNCHANGED <<certManager, secret, objs, configmap, deployment, cacheVars>>
      /\ pc' = "idle"
  BY DEF ReportDegraded, ReportFails, Done
<1>2. cr' \in CR
  BY DEF TypeOK, ClusterTypeOK
<1>3. QED
  BY <1>1, <1>2, OutcomeReports, OutOfStep, ReportKeeps DEF cacheVars

LEMMA StatusCallsSettled ==
    ASSUME TypeOK, TypeOK', Settled, UpdateAvailable \/ CheckCertManager \/ Finish
    PROVE  OnlyReports /\ Settled'
<1>0. crCache.status \in Status /\ crCache.exists
  BY SettledFacts
<1>1. CASE UpdateAvailable
  <2>1. SetAvailable(crCache.status) = crCache.status
    BY <1>0, SettledFacts DEF SetAvailable, Status
  <2>2. UNCHANGED <<cr, unseen>> /\ pc' = "discover"
    BY <1>0, <1>1, <2>1, NothingToUpdate, AfterOthers DEF UpdateAvailable, Continue
  <2>3. QED
    BY <1>1, <2>2, OutOfStep, SilentKeeps DEF UpdateAvailable
<1>2. CASE CheckCertManager
  <2>1. UNCHANGED <<cr, unseen>> /\ pc' = "owner"
    BY <1>2, AfterOthers DEF CheckCertManager, Continue, Settled
  <2>2. QED
    BY <1>2, <2>1, OutOfStep, SilentKeeps DEF CheckCertManager
<1>3. CASE Finish
  <2>1. loc.depGen = deployment.gen /\ loc.depAvail = deployment.avail
    BY <1>3 DEF Finish, Settled, SyncInStep
  <2>2. SetFinished(crCache.status) = crCache.status
    BY <1>0, <2>1, SettledFacts DEF SetFinished, Status, Settled
  <2>3. UNCHANGED <<cr, unseen>> /\ pc' = "report"
    BY <1>0, <1>3, <2>2, NothingToUpdate, AfterOthers DEF Finish, Continue, Fail
  <2>4. QED
    BY <1>3, <2>3, OutOfStep, SilentKeeps DEF Finish
<1>4. QED
  BY <1>1, <1>2, <1>3

LEMMA ReadsSettled ==
    ASSUME TypeOK, TypeOK', Settled,
           ReadState \/ ReadOperator \/ \E s \in SecretName : CheckSecretReady(s)
    PROVE  OnlyReports /\ Settled'
<1>1. CASE ReadState
  BY <1>1, AfterOthers, OutOfStep, SilentKeeps DEF ReadState, Continue, Fail, clusterVars
<1>2. CASE ReadOperator
  <2>1. /\ loc' = [loc EXCEPT !.uid = crCache.uid, !.log = crCache.log, !.gen = crCache.status.gen]
        /\ pc' = "networkpolicy"
    BY <1>2, SettledFacts, AfterOthers DEF ReadOperator, Continue
  <2>2. SyncInStep'
    <3>1. loc'.uid = cr.uid /\ loc'.log = cr.log /\ loc'.gen = deployment.gen
      BY <2>1, SettledFacts DEF TypeOK, Local
    <3>2. UNCHANGED <<cr, deployment>>
      BY <1>2 DEF ReadOperator, clusterVars
    <3>3. QED
      BY <2>1, <3>1, <3>2, AfterOthers DEF SyncInStep
  <2>3. QED
    BY <1>2, <2>2, SilentKeeps DEF ReadOperator, clusterVars
<1>3. ASSUME NEW s \in SecretName, CheckSecretReady(s)
      PROVE  OnlyReports /\ Settled'
  <2>1. secretCache[s].state = "ready" /\ secretCache[s].ver = secret[s].ver
    BY DEF Settled, Applied
  <2>2. /\ pc = s /\ pc' = After[s]
        /\ loc' = [loc EXCEPT !.secrets[s] = secretCache[s].ver]
        /\ UNCHANGED <<clusterVars, cacheVars>>
    BY <1>3, <2>1 DEF CheckSecretReady, Continue, Fail
  <2>3. /\ loc'.uid = loc.uid /\ loc'.log = loc.log /\ loc'.gen = loc.gen
        /\ loc'.secrets = [loc.secrets EXCEPT ![s] = secretCache[s].ver]
        /\ loc.secrets \in [SecretName -> Nat]
    BY <2>2 DEF TypeOK, Local
  <2>4. SyncInStep'
    BY <2>1, <2>2, <2>3, AfterSecretRead DEF SyncInStep, Settled, clusterVars
  <2>5. QED
    BY <2>2, <2>4, SilentKeeps DEF clusterVars
<1>4. QED
  BY <1>1, <1>2, <1>3

LEMMA AppliesSettled ==
    ASSUME TypeOK, TypeOK', Settled,
           \/ \E o \in Object : Manage(o) \/ ManageUnknownKind(o)
           \/ ManageCRDPanics \/ ManageConfigMap \/ ManageDeployment
    PROVE  OnlyReports /\ Settled'
<1>1. ASSUME NEW o \in Object, Manage(o)
      PROVE  OnlyReports /\ Settled'
  <2>1. loc.uid = cr.uid
    BY <1>1, AfterObject DEF Manage, Settled, SyncInStep
  <2>2. objs' = objs /\ unseen' = unseen
    BY <1>1, <2>1 DEF Manage, Settled, Desired, TypeOK, ClusterTypeOK
  <2>3. pc = o /\ pc' = After[o]
    BY <1>1 DEF Manage, Continue
  <2>4. SyncInStep'
    BY <1>1, <2>3, AfterObject, StaysInStep DEF Manage
  <2>5. QED
    BY <1>1, <2>2, <2>4, SilentKeeps DEF Manage
<1>2. CASE ManageCRDPanics \/ \E o \in Object : ManageUnknownKind(o)
  <2>1. certManager /\ objs["crd"].content = "desired"
    BY DEF Settled, Desired, Object
  <2>2. QED
    BY <1>2, <2>1 DEF ManageCRDPanics, ManageUnknownKind
<1>3. CASE ManageConfigMap
  <2>1. loc.uid = cr.uid /\ crCache.uid = cr.uid
    BY <1>3, AfterOthers, SettledFacts DEF ManageConfigMap, Settled, SyncInStep
  <2>2. configmap' = configmap /\ unseen' = unseen
    BY <1>3, <2>1 DEF ManageConfigMap, Settled, Applied, ConfigMapCurrent
  <2>3. pc' = "deployment" /\ loc' = [loc EXCEPT !.config = configmap.ver]
    BY <1>3, <2>2, AfterOthers DEF ManageConfigMap, Continue
  <2>4. /\ loc'.uid = loc.uid /\ loc'.log = loc.log /\ loc'.gen = loc.gen
        /\ loc'.secrets = loc.secrets /\ loc'.config = configmap.ver
    BY <2>3 DEF TypeOK, Local
  <2>5. SyncInStep'
    BY <1>3, <2>2, <2>3, <2>4, AfterOthers DEF ManageConfigMap, SyncInStep, Settled
  <2>6. QED
    BY <1>3, <2>2, <2>5, SilentKeeps DEF ManageConfigMap
<1>4. CASE ManageDeployment
  <2>1. /\ loc.uid = cr.uid /\ loc.log = cr.log /\ loc.gen = deployment.gen
        /\ loc.config = configmap.ver
        /\ \A s \in SecretName : loc.secrets[s] = secret[s].ver
    BY <1>4, AfterOthers DEF ManageDeployment, Settled, SyncInStep
  <2>2. loc.secrets = [s \in SecretName |-> secretCache[s].ver]
    BY <2>1 DEF TypeOK, Local, Settled
  <2>3. UpToDate(deployment, Required)
    BY <2>1, <2>2, SettledFacts DEF UpToDate, Required, Settled, Applied, TemplateFor
  <2>4. deployment' = deployment /\ unseen' = unseen
    BY <1>4, <2>3 DEF ManageDeployment
  <2>5. /\ pc' = "finish"
        /\ loc' = [loc EXCEPT !.depGen = deployment.gen, !.depAvail = deployment.avail]
    BY <1>4, <2>3, AfterOthers DEF ManageDeployment, Continue
  <2>6. /\ loc'.uid = loc.uid /\ loc'.log = loc.log /\ loc'.gen = loc.gen
        /\ loc'.secrets = loc.secrets /\ loc'.config = loc.config
        /\ loc'.depGen = deployment.gen /\ loc'.depAvail = deployment.avail
    BY <2>5 DEF TypeOK, Local
  <2>7. SyncInStep'
    BY <1>4, <2>1, <2>4, <2>5, <2>6 DEF ManageDeployment, SyncInStep
  <2>8. QED
    BY <1>4, <2>4, <2>7, SilentKeeps DEF ManageDeployment
<1>5. QED
  BY <1>1, <1>2, <1>3, <1>4

\* Nothing the operator does on its own undoes its work.
LEMMA ControllerKeepsSettled ==
    TypeOK /\ Settled /\ ControllerNext => OnlyReports /\ Settled'
<1> SUFFICES ASSUME TypeOK, Settled, ControllerNext PROVE OnlyReports /\ Settled'
  OBVIOUS
<1>0. TypeOK'
  BY NextType DEF Next
<1>1. ASSUME NEW w \in Watched, Deliver(w)
      PROVE  OnlyReports /\ Settled'
  <2>1. w = "cr"
    BY <1>1 DEF Deliver, Settled
  <2>2. /\ UNCHANGED <<cr, certManager, secret, objs, configmap, deployment, depCache, pc, loc>>
        /\ crCache' = cr /\ unseen' \subseteq unseen
    BY <1>1, <2>1 DEF Deliver
  <2>3. UNCHANGED secretCache
    BY <1>1, <2>1 DEF Deliver, SecretName
  <2>4. cr \in CR
    BY DEF TypeOK, ClusterTypeOK
  <2>5. SameButReport(cr, cr') /\ SameButReport(crCache', cr')
    BY <2>2, <2>4, SameFields
  <2>6. SyncInStep'
    BY <2>2 DEF Settled, SyncInStep
  <2>7. QED
    BY <1>0, <2>2, <2>3, <2>5, <2>6, ReportKeeps DEF Settled
<1>2. CASE Resync \/ Retry
  <2>1. SyncInStep'
    BY <1>2 DEF Resync, Retry, clusterVars, Settled, SyncInStep
  <2>2. QED
    BY <1>0, <1>2, <2>1, SilentKeeps DEF Resync, Retry, clusterVars
<1>3. CASE Get \/ Kill \/ CallFails
  <2>1. SyncInStep'
    BY <1>3, OutOfStep DEF Get, Kill, Restart, CallFails, Fail
  <2>2. QED
    BY <1>0, <1>3, <2>1, SilentKeeps DEF Get, Kill, Restart, CallFails, clusterVars
<1>4. CASE ReportDegraded \/ ReportFails
  BY <1>0, <1>4, ReportSettled
<1>5. CASE Sync /\ ~ReportDegraded
  BY <1>0, <1>5, StatusCallsSettled, ReadsSettled, AppliesSettled DEF Sync
<1>6. QED
  BY <1>1, <1>2, <1>3, <1>4, <1>5 DEF ControllerNext

\* Once its work is done the operator writes nothing but its report, whether it
\* is woken up, fails or is restarted, as ARCHITECTURE.md says of the applies.
THEOREM SyncIsIdempotent == Spec => Idempotent
<1>1. TypeOK /\ [Next]_vars => [Settled /\ ControllerNext => OnlyReports /\ Settled']_vars
  BY ControllerKeepsSettled
<1>2. QED
  BY <1>1, TypeCorrect, PTL DEF Spec, Idempotent

\* An operator at rest is settled as soon as the objects it does not watch are
\* as the manifests want them: these alone wait for the resync.
THEOREM RestIsSettled ==
    Spec => [](Quiescent /\ Managed(cr) /\ certManager
                  /\ (\A o \in Object : objs[o] = Desired(cr.uid)) => Settled)
<1>1. TypeOK /\ IInv => (Quiescent /\ Managed(cr) /\ certManager
                            /\ (\A o \in Object : objs[o] = Desired(cr.uid)) => Settled)
  <2> SUFFICES ASSUME TypeOK, IInv, Quiescent, Managed(cr), certManager,
                      \A o \in Object : objs[o] = Desired(cr.uid)
               PROVE  Settled
    OBVIOUS
  <2>1. /\ crCache = cr /\ depCache = deployment
        /\ \A s \in SecretName : secretCache[s] = secret[s]
        /\ unseen = {} /\ ~dirty /\ ~delayed /\ pc = "idle"
    BY DEF Quiescent, IInv, CachesFollow
  <2>2. secretCache = secret
    BY <2>1 DEF TypeOK, ClusterTypeOK
  <2>3. Applied /\ FinishedStatus
    BY <2>1 DEF IInv, IdleApplied, Undisturbed
  <2>4. SameButReport(crCache, cr)
    BY <2>1 DEF SameButReport, TypeOK, ClusterTypeOK, CR, Status
  <2>5. SyncInStep
    BY <2>1 DEF SyncInStep, AfterOwner, AfterSecret, AfterMetrics, Object,
       CertManagerObject, MonitoringObject, SecretName
  <2>6. QED
    BY <2>1, <2>2, <2>3, <2>4, <2>5 DEF Settled
<1>2. QED
  BY <1>1, TypeCorrect, Invariant, PTL

\* Once the operator's work is done, it stays done until somebody disturbs.
THEOREM WorkStaysDone ==
    Spec => [](Settled /\ [][ControllerNext]_vars => []Settled /\ [][OnlyReports]_vars)
<1>1. TypeOK /\ Settled /\ [ControllerNext]_vars => TypeOK' /\ Settled' /\ [OnlyReports]_vars
  <2> SUFFICES ASSUME TypeOK, Settled, [ControllerNext]_vars
               PROVE  TypeOK' /\ Settled' /\ [OnlyReports]_vars
    OBVIOUS
  <2>1. CASE ControllerNext
    BY <2>1, ControllerKeepsSettled, NextType DEF Next
  <2>2. CASE UNCHANGED vars
    <3>1. TypeOK'
      BY <2>2, NextType
    <3>2. Settled'
      BY <2>2 DEF vars, clusterVars, cacheVars, queueVars, Settled, SyncInStep, Managed, Desired,
         Applied, TemplateFor, ConfigMapCurrent, FinishedStatus, SameButReport
    <3>3. QED
      BY <2>2, <3>1, <3>2
  <2>3. QED
    BY <2>1, <2>2
<1>2. QED
  BY <1>1, TypeCorrect, PTL

-----------------------------------------------------------------------------
(* One sync is enough.                                                     *)

\* The calls of sync(), numbered in their order.
Place == [state |-> 1, available |-> 2, discover |-> 3, owner |-> 4, networkpolicy |-> 5,
          service |-> 6, issuer |-> 7, servingcert |-> 8, metricscert |-> 9, webhook |-> 10,
          metrics |-> 11, validatingwebhook |-> 12, mutatingwebhook |-> 13, crd |-> 14,
          role |-> 15, rolebinding |-> 16, servicemonitor |-> 17, configmap |-> 18,
          deployment |-> 19, finish |-> 20]

\* The sync that runs has made a call and gone on.
Past(c) == pc \in Call /\ Place[pc] > Place[c]

\* Without anybody's interference, what a sync has applied stays as it should be
\* until the sync ends, whether or not the operator would notice a change.
ObjectsApplied ==
    /\ Past("discover") => certManager
    /\ \A o \in Object : Past(o) => objs[o] = Desired(loc.uid)
    /\ pc = "report" /\ ~err /\ ~dirty /\ Managed(crCache) =>
          certManager /\ \A o \in Object : objs[o] = Desired(crCache.uid)

\* The sync of a Managed CR ends without an error, and no watched object has changed
\* since it began, not by the sync either.
SyncComplete == pc = "report" /\ ~err /\ ~dirty /\ unseen = {} /\ Managed(crCache)

LEMMA CallsInOrder ==
    /\ \A c \in Call \ {"finish"} : After[c] \in Call /\ Place[After[c]] = Place[c] + 1
    /\ \A c \in Call : Place[c] \in Nat
    /\ \A c, d \in Call : Place[c] = Place[d] => c = d
<1>1. \A c \in Call \ {"finish"} : After[c] \in Call /\ Place[After[c]] = Place[c] + 1
  BY DEF Call, After, Place
<1>2. \A c \in Call : Place[c] \in Nat
  BY DEF Call, After, Place
<1>3. \A c, d \in Call : Place[c] = Place[d] => c = d
  BY DEF Call, After, Place
<1>4. QED
  BY <1>1, <1>2, <1>3

\* Having gone on from a call, the sync is past it and what it was past before.
LEMMA PastNext ==
    ASSUME NEW c \in Call, pc \in Call \ {"finish"}, pc' = After[pc]
    PROVE  Past(c)' <=> Past(c) \/ pc = c
<1>1. pc' \in Call /\ Place[pc'] = Place[pc] + 1 /\ Place[c] \in Nat /\ Place[pc] \in Nat
  BY CallsInOrder
<1>2. Place[pc] = Place[c] => pc = c
  BY CallsInOrder
<1>3. QED
  BY <1>1, <1>2 DEF Past

\* The first calls have applied nothing; between two syncs nothing counts.
LEMMA PastNothing ==
    /\ \A c \in {"state", "available", "discover"} : pc' = c => ~Past("discover")'
    /\ \A c \in {"state", "available", "discover", "owner", "networkpolicy"}, o \in Object :
          pc' = c => ~Past(o)'
    /\ pc' \in {"idle", "report"} => \A c \in Call : ~Past(c)'
  BY DEF Past, Place, Call, After, Object, CertManagerObject, MonitoringObject

\* A sync that ends early, or another one that begins, has nothing to show.
LEMMA NothingToShow ==
    ASSUME pc' \in {"idle", "state", "available", "discover"} \/ (pc' = "report" /\ err')
    PROVE  ObjectsApplied'
  BY PastNothing, CallNames DEF ObjectsApplied

\* A call that goes on and applies none of the objects.
LEMMA GoesOn ==
    ASSUME ObjectsApplied, pc \in Call \ ({"state", "discover", "finish"} \cup Object),
           Continue, UNCHANGED <<certManager, objs>>, loc'.uid = loc.uid
    PROVE  ObjectsApplied'
<1>0. "report" \notin Call
  BY DEF Call, After
<1>1. "discover" \in Call /\ Object \subseteq Call /\ pc' \in Call /\ pc' # "report"
  BY <1>0, CallNames, CallsInOrder DEF Continue
<1>2. /\ Past("discover")' => Past("discover")
      /\ \A o \in Object : Past(o)' => Past(o)
  BY <1>1, PastNext DEF Continue
<1>3. QED
  BY <1>1, <1>2 DEF ObjectsApplied, Desired

LEMMA ManageApplies ==
    ASSUME TypeOK, ObjectsApplied, NEW p \in Object, Manage(p)
    PROVE  ObjectsApplied'
<1>1. /\ pc = p /\ pc' = After[pc]
      /\ objs' = [objs EXCEPT ![p] = Desired(loc.uid)]
      /\ UNCHANGED <<certManager, loc>>
  BY DEF Manage, Continue, Desired
<1>2. /\ "discover" \in Call /\ Object \subseteq Call /\ pc \in Call \ {"finish", "discover"}
      /\ pc' \in Call /\ pc' # "report"
  BY <1>1, CallNames, CallsInOrder DEF Object, CertManagerObject, MonitoringObject
<1>3. Past("discover")' => Past("discover")
  BY <1>1, <1>2, PastNext
<1>4. ASSUME NEW o \in Object, Past(o)'
      PROVE  objs'[o] = Desired(loc'.uid)
  <2>1. Past(o) \/ o = p
    BY <1>1, <1>2, <1>4, PastNext
  <2>2. QED
    BY <1>1, <2>1 DEF ObjectsApplied, TypeOK, ClusterTypeOK
<1>5. QED
  BY <1>1, <1>2, <1>3, <1>4 DEF ObjectsApplied

LEMMA FinishApplied ==
    ASSUME TypeOK, IInv, ObjectsApplied, Finish
    PROVE  ObjectsApplied'
<1>1. CASE Fail
  BY <1>1, NothingToShow DEF Fail
<1>2. CASE ~Fail
  <2>1. /\ pc = "finish" /\ pc' = "report" /\ UNCHANGED err
        /\ UNCHANGED <<certManager, objs, crCache, dirty>>
    BY <1>2, AfterOthers DEF Finish, Continue, cacheVars, queueVars
  <2>2. Past("discover") /\ \A o \in Object : Past(o)
    BY <2>1 DEF Past, Place, Call, After, Object, CertManagerObject, MonitoringObject
  <2>3. ~dirty => loc.uid = crCache.uid
    BY <2>1, AfterOthers DEF IInv, OwnerRead
  <2>4. QED
    BY <2>1, <2>2, <2>3, PastNothing, CallNames DEF ObjectsApplied, Desired
<1>3. QED
  BY <1>1, <1>2

\* sync() applies what it passes, unless it ends with an error.
LEMMA SyncApplies == TypeOK /\ IInv /\ ObjectsApplied /\ Sync => ObjectsApplied'
<1> SUFFICES ASSUME TypeOK, IInv, ObjectsApplied, Sync PROVE ObjectsApplied'
  OBVIOUS
<1>0. /\ {"state", "available", "discover", "owner", "configmap", "deployment"} \cup SecretName
             \subseteq Call \ ({"finish"} \cup Object)
      /\ {"state", "discover"} \cap SecretName = {}
  BY CallNames DEF SecretName, Object, CertManagerObject, MonitoringObject
<1>1. CASE ReadState
  <2>1. CASE pc' = "report" /\ ~err'
    <3>1. ~Managed(crCache)'
      BY <1>1, <2>1, AfterOthers DEF ReadState, Continue, Fail, cacheVars, Managed
    <3>2. QED
      BY <2>1, <3>1, PastNothing, CallNames DEF ObjectsApplied
  <2>2. CASE ~(pc' = "report" /\ ~err')
    BY <1>1, <2>2, NothingToShow, AfterOthers DEF ReadState, Continue, Fail, TypeOK
  <2>3. QED
    BY <2>1, <2>2
<1>2. CASE UpdateAvailable
  BY <1>2, NothingToShow, AfterOthers DEF UpdateAvailable, Continue, Fail
<1>3. CASE CheckCertManager
  <2>1. CASE Fail
    BY <2>1, NothingToShow DEF Fail
  <2>2. CASE ~Fail
    <3>1. pc' = "owner" /\ certManager'
      BY <1>3, <2>2, AfterOthers DEF CheckCertManager, Continue
    <3>2. QED
      BY <3>1, PastNothing DEF ObjectsApplied
  <2>3. QED
    BY <2>1, <2>2
<1>4. CASE ReadOperator
  <2>1. CASE Fail
    BY <2>1, NothingToShow DEF Fail
  <2>2. CASE ~Fail
    <3>1. pc = "owner" /\ pc' = "networkpolicy" /\ UNCHANGED certManager
      BY <1>4, <2>2, AfterOthers DEF ReadOperator, Continue, clusterVars
    <3>2. Past("discover")
      BY <3>1 DEF Past, Place, Call, After
    <3>3. QED
      BY <3>1, <3>2, PastNothing DEF ObjectsApplied
  <2>3. QED
    BY <2>1, <2>2
<1>5. ASSUME NEW o \in Object, Manage(o)
      PROVE  ObjectsApplied'
  BY <1>5, ManageApplies
<1>6. CASE ManageCRDPanics \/ \E o \in Object : ManageUnknownKind(o)
  BY <1>6, NothingToShow DEF ManageCRDPanics, ManageUnknownKind, Restart, Fail
<1>7. ASSUME NEW s \in SecretName, CheckSecretReady(s)
      PROVE  ObjectsApplied'
  <2>1. CASE Fail
    BY <2>1, NothingToShow DEF Fail
  <2>2. CASE ~Fail
    BY <1>0, <1>7, <2>2, GoesOn DEF CheckSecretReady, clusterVars, TypeOK, Local
  <2>3. QED
    BY <2>1, <2>2
<1>8. CASE ManageConfigMap \/ ManageDeployment
  BY <1>0, <1>8, GoesOn DEF ManageConfigMap, ManageDeployment, TypeOK, Local
<1>9. CASE Finish
  BY <1>9, FinishApplied
<1>10. CASE ReportDegraded
  BY <1>10, NothingToShow DEF ReportDegraded, Done
<1>11. QED
  BY <1>1, <1>2, <1>3, <1>4, <1>5, <1>6, <1>7, <1>8, <1>9, <1>10 DEF Sync

LEMMA ControllerApplies ==
    TypeOK /\ IInv /\ ObjectsApplied /\ [ControllerNext]_vars => ObjectsApplied'
<1> SUFFICES ASSUME TypeOK, IInv, ObjectsApplied, [ControllerNext]_vars PROVE ObjectsApplied'
  OBVIOUS
<1>1. CASE Resync \/ Retry \/ \E w \in Watched : Deliver(w)
  <2>1. UNCHANGED <<certManager, objs, pc, loc>> /\ dirty'
    BY <1>1 DEF Resync, Retry, Deliver, clusterVars
  <2>2. QED
    BY <2>1 DEF ObjectsApplied, Past, Desired
<1>2. CASE Get \/ Kill \/ CallFails \/ ReportFails
  BY <1>2, NothingToShow DEF Get, Kill, Restart, CallFails, ReportFails, Done, Fail
<1>3. CASE Sync
  BY <1>3, SyncApplies
<1>4. CASE UNCHANGED vars
  BY <1>4 DEF vars, clusterVars, cacheVars, queueVars, ObjectsApplied, Past, Desired, Managed
<1>5. QED
  BY <1>1, <1>2, <1>3, <1>4 DEF ControllerNext

\* A complete sync leaves its work done.
LEMMA CompleteMeansSettled == TypeOK /\ IInv /\ ObjectsApplied /\ SyncComplete => Settled
<1> SUFFICES ASSUME TypeOK, IInv, ObjectsApplied, SyncComplete PROVE Settled
  OBVIOUS
<1>1. crCache = cr /\ depCache = deployment /\ secretCache = secret
  BY DEF SyncComplete, IInv, CachesFollow, TypeOK, ClusterTypeOK
<1>2. Applied /\ FinishedStatus
  BY DEF SyncComplete, IInv, SyncApplied, Undisturbed
<1>3. Managed(cr) /\ certManager /\ \A o \in Object : objs[o] = Desired(cr.uid)
  BY <1>1 DEF SyncComplete, ObjectsApplied
<1>4. unseen \subseteq {"cr"} /\ SameButReport(crCache, cr)
  BY <1>1, SameFields DEF SyncComplete, TypeOK, ClusterTypeOK
<1>5. SyncInStep
  BY AfterOthers DEF SyncComplete, SyncInStep
<1>6. QED
  BY <1>1, <1>2, <1>3, <1>4, <1>5 DEF Settled

\* One sync is enough: begun at any time, from whatever state the cluster is in, and
\* not interfered with, it leaves all operand objects as desired, those included
\* that the operator does not watch, if it ends without an error and without an
\* event that will start the next one.
THEOREM OneSyncIsEnough ==
    Spec => [](pc = "idle" /\ [][ControllerNext]_vars => [](SyncComplete => Settled))
<1>1. pc = "idle" => ObjectsApplied
  BY CallNames DEF ObjectsApplied, Past, Object, CertManagerObject, MonitoringObject
<1>2. TypeOK /\ IInv /\ [ControllerNext]_vars => TypeOK' /\ IInv'
  BY NextType, NextInv DEF Next
<1>3. QED
  BY <1>1, <1>2, ControllerApplies, CompleteMeansSettled, TypeCorrect, Invariant, PTL

-----------------------------------------------------------------------------
(* Without cert-manager.                                                   *)

\* A sync gets no further than its check for cert-manager.
Barred == ~certManager /\ pc \in {"idle", "state", "available", "discover", "report"}

\* Calls that a barred sync does not come to.
LEMMA BarredSync ==
    ASSUME Barred, Sync
    PROVE  ReadState \/ UpdateAvailable \/ CheckCertManager \/ ReportDegraded
  BY DEF Barred, Sync, ReadOperator, Manage, ManageUnknownKind, ManageCRDPanics,
     CheckSecretReady, ManageConfigMap, ManageDeployment, Finish, Object, CertManagerObject,
     MonitoringObject, SecretName

\* Barred the operator writes nothing but the status.
LEMMA StaysBarred ==
    ASSUME Barred, ControllerNext
    PROVE  Barred' /\ UNCHANGED <<secret, objs, configmap, deployment>>
<1>1. CASE (\E w \in Watched : Deliver(w)) \/ Resync \/ Retry \/ Get
  BY <1>1 DEF Deliver, Resync, Retry, Get, clusterVars, Barred
<1>2. CASE Kill \/ CallFails \/ ReportFails \/ ReportDegraded
  BY <1>2 DEF Kill, Restart, CallFails, Fail, ReportFails, ReportDegraded, Done, Barred
<1>3. CASE ReadState
  <2>1. pc' \in {"available", "report"}
    BY <1>3, AfterOthers DEF ReadState, Continue, Fail
  <2>2. QED
    BY <1>3, <2>1 DEF ReadState, clusterVars, Barred
<1>4. CASE UpdateAvailable \/ CheckCertManager
  <2>1. UNCHANGED <<certManager, secret, objs, configmap, deployment>>
    BY <1>4 DEF UpdateAvailable, CheckCertManager
  <2>2. pc' \in {"discover", "report"}
    BY <1>4, AfterOthers DEF UpdateAvailable, CheckCertManager, Continue, Fail, Barred
  <2>3. QED
    BY <2>1, <2>2 DEF Barred
<1>5. QED
  BY <1>1, <1>2, <1>3, <1>4, BarredSync DEF ControllerNext

\* What becomes of the condition Degraded while a sync is barred.
LEMMA BarredStatus ==
    ASSUME TypeOK, Barred, ControllerNext
    PROVE  /\ crCache' \in {crCache, cr}
           /\ cr'.status.degraded \in {cr.status.degraded, crCache.status.degraded, "True"}
           /\ cr'.exists = cr.exists /\ cr'.mgmt = cr.mgmt
           /\ crCache' = crCache \/ UNCHANGED cr
<1>0. cr \in CR /\ crCache \in CR /\ cr.status \in Status /\ crCache.status \in Status
  BY DEF TypeOK, ClusterTypeOK, CR
<1>1. CASE (\E w \in Watched : Deliver(w)) \/ Resync \/ Retry \/ Get \/ Kill \/ CallFails
           \/ ReadState
  BY <1>1 DEF Deliver, Resync, Retry, Get, Kill, Restart, CallFails, ReadState, clusterVars,
     cacheVars
<1>2. CASE ReportDegraded \/ ReportFails
  <2>1. UNCHANGED crCache /\ (WriteOutcome \/ UNCHANGED cr)
    BY <1>2 DEF ReportDegraded, ReportFails, Done, cacheVars
  <2>2. CASE ~UNCHANGED cr
    <3>1. PICK v : cr' = [cr EXCEPT !.status = [cr.status EXCEPT !.tcd = v]]
      BY <2>1, <2>2 DEF WriteOutcome, WriteStatus
    <3>2. cr'.status.degraded = cr.status.degraded
      BY <1>0, <3>1 DEF CR, Status
    <3>3. QED
      BY <1>0, <2>1, <3>1, <3>2 DEF CR
  <2>3. QED
    BY <2>1, <2>2
<1>3. CASE UpdateAvailable
  <2>1. \A st \in Status : SetAvailable(st).degraded = st.degraded
    BY DEF SetAvailable, Status
  <2>2. /\ UNCHANGED crCache
        /\ \/ UNCHANGED cr
           \/ cr' = [cr EXCEPT !.status = SetAvailable(crCache.status)]
           \/ cr' = [cr EXCEPT !.status = SetAvailable(cr.status)]
    BY <1>3 DEF UpdateAvailable, UpdateStatus, UpdateStatusFails, WriteStatus, cacheVars
  <2>3. QED
    BY <1>0, <2>1, <2>2 DEF CR
<1>4. CASE CheckCertManager
  <2>1. \A st \in Status : SetMissingDependency(st).degraded = "True"
    BY DEF SetMissingDependency, Status
  <2>2. /\ UNCHANGED crCache
        /\ \/ UNCHANGED cr
           \/ cr' = [cr EXCEPT !.status = SetMissingDependency(crCache.status)]
           \/ cr' = [cr EXCEPT !.status = SetMissingDependency(cr.status)]
    BY <1>4 DEF CheckCertManager, UpdateStatus, UpdateStatusFails, WriteStatus, cacheVars
  <2>3. QED
    BY <1>0, <2>1, <2>2 DEF CR
<1>5. QED
  BY <1>1, <1>2, <1>3, <1>4, BarredSync DEF ControllerNext

\* Reported once, the missing cert-manager stays reported, be it through syncs that
\* fail at other calls, restarts or stale caches; and no operand is written.
THEOREM MissingIsNotForgotten == Spec => MissingStaysReported
<1>1. TypeOK /\ [Next]_vars =>
        [MissingReported /\ ControllerNext =>
            MissingReported' /\ UNCHANGED <<secret, objs, configmap, deployment>>]_vars
  BY StaysBarred, BarredStatus DEF MissingReported, Barred
<1>2. QED
  BY <1>1, TypeCorrect, PTL DEF Spec, MissingStaysReported

\* The report of a missing cert-manager is in time: stale as the cache may be, it does
\* not know of a report that the CR does not hold, and a sync that ends has made it.
ReportInTime ==
    /\ Barred /\ Managed(cr) /\ Managed(crCache)
    /\ crCache.status.degraded = "True" => cr.status.degraded = "True"
    /\ pc = "report" => cr.status.degraded = "True"

LEMMA ReportComesInTime ==
    TypeOK /\ ReportInTime /\ [ControllerNext /\ ~CallFails]_vars => ReportInTime'
<1> SUFFICES ASSUME TypeOK, ReportInTime, [ControllerNext /\ ~CallFails]_vars
             PROVE  ReportInTime'
  OBVIOUS
<1>1. CASE UNCHANGED vars
  BY <1>1 DEF vars, clusterVars, cacheVars, queueVars, ReportInTime, Barred, Managed
<1>2. CASE ControllerNext /\ ~CallFails
  <2>1. Barred' /\ Managed(cr)' /\ Managed(crCache)'
    BY <1>2, StaysBarred, BarredStatus DEF ReportInTime, Managed
  <2>2. crCache'.status.degraded = "True" => cr'.status.degraded = "True"
    BY <1>2, BarredStatus DEF ReportInTime
  <2>3. ASSUME pc' = "report"
        PROVE  cr'.status.degraded = "True"
    <3>1. CASE CheckCertManager
      <4>1. /\ cr \in CR /\ cr.status \in Status /\ crCache.status \in Status
            /\ crCache.exists /\ cr.exists
        BY DEF TypeOK, ClusterTypeOK, CR, ReportInTime, Managed
      <4>2. SetMissingDependency(crCache.status) = crCache.status => cr.status.degraded = "True"
        BY <4>1 DEF SetMissingDependency, Status, ReportInTime
      <4>3. \A st \in Status : SetMissingDependency(st).degraded = "True"
        BY DEF SetMissingDependency, Status
      <4>4. \/ UNCHANGED cr /\ SetMissingDependency(crCache.status) = crCache.status
            \/ cr' = [cr EXCEPT !.status = SetMissingDependency(crCache.status)]
            \/ cr' = [cr EXCEPT !.status = SetMissingDependency(cr.status)]
        BY <3>1, <4>1 DEF CheckCertManager, UpdateStatus, UpdateStatusFails, WriteStatus,
           ReportInTime, Barred
      <4>5. QED
        BY <4>1, <4>2, <4>3, <4>4 DEF CR
    <3>2. CASE pc = "report"
      <4>1. UNCHANGED cr
        BY <1>2, <2>3, <3>2, BarredSync DEF ControllerNext, Deliver, Resync, Retry, Get, Kill,
           Restart, ReportFails, Done, ReadState, UpdateAvailable, CheckCertManager,
           ReportDegraded, clusterVars, ReportInTime
      <4>2. QED
        BY <3>2, <4>1 DEF ReportInTime
    <3>3. CASE pc # "report" /\ ~CheckCertManager
      <4>1. ReadState \/ UpdateAvailable
        BY <1>2, <2>3, <3>3, BarredSync DEF ControllerNext, Deliver, Resync, Retry, Get, Kill,
           Restart, ReportFails, Done, ReportDegraded, ReportInTime
      <4>2. CASE ReadState
        BY <2>3, <4>2, AfterOthers DEF ReadState, Continue, ReportInTime, Managed
      <4>3. CASE UpdateAvailable
        BY <2>3, <4>3, AfterOthers DEF UpdateAvailable, Continue, UpdateStatusFails,
           ReportInTime, Managed
      <4>4. QED
        BY <4>1, <4>2, <4>3
    <3>4. QED
      BY <3>1, <3>2, <3>3
  <2>4. QED
    BY <2>1, <2>2, <2>3 DEF ReportInTime
<1>3. QED
  BY <1>1, <1>2

\* Without cert-manager one sync is enough, too: however stale the status it starts
\* from has become through its own writes, it ends with Degraded in the CR.
THEOREM OneSyncReportsMissing ==
    Spec => [](pc = "idle" /\ Managed(cr) /\ crCache = cr /\ ~certManager
                 /\ [][ControllerNext /\ ~CallFails]_vars
                    => [](pc = "report" => cr.status.degraded = "True"))
<1>1. pc = "idle" /\ Managed(cr) /\ crCache = cr /\ ~certManager => ReportInTime
  BY DEF ReportInTime, Barred
<1>2. TypeOK /\ [ControllerNext /\ ~CallFails]_vars => TypeOK'
  BY NextType DEF Next
<1>3. ReportInTime => (pc = "report" => cr.status.degraded = "True")
  BY DEF ReportInTime
<1>4. QED
  BY <1>1, <1>2, <1>3, ReportComesInTime, TypeCorrect, PTL

-----------------------------------------------------------------------------
(* The queue.                                                              *)

\* The steps of a sync, seen from the queue: the worker stays busy with its key,
\* or is done with it.
LEMMA QueueSees ==
    ASSUME TypeOK, [Next]_vars
    PROVE  \/ Kill \/ ManageCRDPanics
           \/ dirty' /\ UNCHANGED pc
           \/ Get
           \/ UNCHANGED dirty /\ (pc = "idle" <=> pc' = "idle")
           \/ UNCHANGED dirty /\ pc # "idle" /\ pc' = "idle"
<1>0. /\ \A c \in Call : After[c] # "idle"
      /\ "idle" \notin Call
  BY DEF Call, After
<1>1. ASSUME pc \in Call, Continue \/ Fail \/ pc' = "report"
      PROVE  pc # "idle" /\ pc' # "idle"
  BY <1>0, <1>1 DEF Continue, Fail
<1>2. CASE (\E w \in Watched : Deliver(w)) \/ Resync \/ Retry
  BY <1>2 DEF Deliver, Resync, Retry
<1>3. CASE Get \/ Kill \/ ManageCRDPanics
  BY <1>3
<1>4. CASE ReportFails \/ ReportDegraded
  BY <1>4 DEF ReportFails, ReportDegraded, Done
<1>5. CASE CallFails
  BY <1>1, <1>5 DEF CallFails, queueVars, Working
<1>6. CASE Sync /\ ~ManageCRDPanics /\ ~ReportDegraded
  <2>1. UNCHANGED dirty
    BY <1>6 DEF Sync, ReadState, UpdateAvailable, CheckCertManager, ReadOperator, Manage,
       ManageUnknownKind, CheckSecretReady, ManageConfigMap, ManageDeployment, Finish, queueVars
  <2>2. pc \in Call /\ (Continue \/ Fail \/ pc' = "report")
    BY <1>6, CallNames DEF Sync, ReadState, UpdateAvailable, CheckCertManager, ReadOperator,
       Manage, ManageUnknownKind, CheckSecretReady, ManageConfigMap, ManageDeployment,
       Finish, Object, SecretName
  <2>3. QED
    BY <1>1, <2>1, <2>2
<1>7. CASE Environment \/ UNCHANGED vars
  BY <1>7 DEF Environment, vars, queueVars
<1>8. QED
  BY <1>2, <1>3, <1>4, <1>5, <1>6, <1>7 DEF Next, ControllerNext

\* The reconciler's queue is the promised one: as the work queue implements
\* CoalescingQueue, what is proved here of the reconciler holds on top of it.
THEOREM QueueIsPromised == Spec => QueueKeepsPromise
<1>1. ASSUME TypeOK, [Next]_vars
      PROVE  [Queue!Next \/ Kill \/ ManageCRDPanics]_(Queue!promiseVars)
  <2>1. CASE dirty' /\ UNCHANGED pc
    <3>1. Pending' = Pending \cup {"key"} /\ Running' = Running
      BY <2>1 DEF Pending, Running
    <3>2. Queue!Add("key")
      BY <3>1 DEF Queue!Add
    <3>3. QED
      BY <3>2 DEF Queue!Next
  <2>2. CASE Get
    <3>1. /\ Pending = {"key"} /\ Pending' = {}
          /\ Running = [w \in {"worker"} |-> "none"]
          /\ Running' = [w \in {"worker"} |-> "key"]
      BY <2>2 DEF Get, Pending, Running
    <3>2. Queue!Start("worker", "key")
      BY <3>1 DEF Queue!Start
    <3>3. QED
      BY <3>2 DEF Queue!Next
  <2>3. CASE UNCHANGED dirty /\ (pc = "idle" <=> pc' = "idle")
    <3>1. UNCHANGED <<Pending, Running>>
      BY <2>3 DEF Pending, Running
    <3>2. QED
      BY <3>1 DEF Queue!promiseVars
  <2>4. CASE UNCHANGED dirty /\ pc # "idle" /\ pc' = "idle"
    <3>1. /\ Pending' = Pending
          /\ Running = [w \in {"worker"} |-> "key"]
          /\ Running' = [w \in {"worker"} |-> "none"]
      BY <2>4 DEF Pending, Running
    <3>2. Queue!Finish("worker")
      BY <3>1 DEF Queue!Finish
    <3>3. QED
      BY <3>2 DEF Queue!Next
  <2>5. QED
    BY <1>1, <2>1, <2>2, <2>3, <2>4, QueueSees
<1>2. QED
  BY <1>1, TypeCorrect, PTL DEF Spec, QueueKeepsPromise

=============================================================================
