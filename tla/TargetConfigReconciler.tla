----------------------- MODULE TargetConfigReconciler -----------------------
(***************************************************************************)
(* The TargetConfigController: the work queue with its single key, the     *)
(* informers' caches, and sync(), one action per call that reads a cache   *)
(* or talks to the API server, so that every event and every change in the *)
(* cluster may fall between two of them.                                   *)
(***************************************************************************)
EXTENDS Cluster

VARIABLES
    crCache,      \* jobSetOperatorsLister
    secretCache,  \* secretsLister
    depCache,     \* deploymentsLister
    dirty,        \* the key waits in the queue (or will, once Done)
    delayed,      \* AddRateLimited has the key on a timer
    pc,           \* the next call of sync(), "idle" between two syncs
    loc,          \* the variables of sync() that later calls use
    err           \* sync() returned an error

cacheVars == <<crCache, secretCache, depCache>>
queueVars == <<dirty, delayed>>
vars == <<clusterVars, cacheVars, queueVars, pc, loc, err>>

\* uid, log and gen come from the cached CR, secrets and config go into the
\* pod template's annotations, depGen and depAvail from the applied Deployment.
Local   == [uid : Nat, log : LogLevel, gen : Int, secrets : [SecretName -> Nat],
            config : Nat, depGen : Nat, depAvail : 0..Replicas]
NoLocal == [uid |-> 0, log |-> CHOOSE l \in LogLevel : TRUE, gen |-> -1,
            secrets |-> [s \in SecretName |-> 0], config |-> 0,
            depGen |-> 0, depAvail |-> 0]

\* The calls of sync() in the order of the code; "report" follows sync().
After == [state |-> "available", available |-> "discover",
          discover |-> "owner", owner |-> "networkpolicy",
          networkpolicy |-> "service", service |-> "issuer",
          issuer |-> "servingcert", servingcert |-> "metricscert",
          metricscert |-> "webhook", webhook |-> "metrics",
          metrics |-> "validatingwebhook",
          validatingwebhook |-> "mutatingwebhook", mutatingwebhook |-> "crd",
          crd |-> "role", role |-> "rolebinding",
          rolebinding |-> "servicemonitor", servicemonitor |-> "configmap",
          configmap |-> "deployment", deployment |-> "finish",
          finish |-> "report"]

Call == DOMAIN After

\* The calls that only a Managed CR lets sync() reach.
Working == Call \ {"state"}

\* Every variable holds what the code lets it hold; in particular a condition
\* is unset, True or False, and pc names a call of sync().
TypeOK ==
    /\ ClusterTypeOK
    /\ crCache \in CR
    /\ secretCache \in [SecretName -> Secret]
    /\ depCache \in Deployment
    /\ dirty \in BOOLEAN
    /\ delayed \in BOOLEAN
    /\ pc \in Call \cup {"idle", "report"}
    /\ loc \in Local
    /\ err \in BOOLEAN

\* The operator starts next to an existing CR, its caches in sync.
Init ==
    /\ ClusterInit
    /\ crCache = cr
    /\ secretCache = secret
    /\ depCache = deployment
    /\ dirty = TRUE
    /\ delayed = FALSE
    /\ pc = "idle"
    /\ loc = NoLocal
    /\ err = FALSE

-----------------------------------------------------------------------------
(* Informers and work queue.                                               *)

\* Faulty variant of Deliver: the Secrets' informer is read but not registered,
\* its events do not add the key.
DeliverSilently(w) ==
    /\ w \in unseen
    /\ unseen' = unseen \ {w}
    /\ crCache' = IF w = "cr" THEN cr ELSE crCache
    /\ depCache' = IF w = "deployment" THEN deployment ELSE depCache
    /\ secretCache' = IF w \in SecretName
                      THEN [secretCache EXCEPT ![w] = secret[w]]
                      ELSE secretCache
    /\ dirty' = (dirty \/ w \notin SecretName)
    /\ UNCHANGED <<cr, certManager, secret, objs, configmap, deployment,
                   issued, left, delayed, pc, loc, err>>

\* An informer stores the newest state of an object and its handler adds the
\* key; events that pile up are delivered as one.
Deliver(w) ==
    /\ w \in unseen
    /\ unseen' = unseen \ {w}
    /\ crCache' = IF w = "cr" THEN cr ELSE crCache
    /\ depCache' = IF w = "deployment" THEN deployment ELSE depCache
    /\ secretCache' = IF w \in SecretName
                      THEN [secretCache EXCEPT ![w] = secret[w]]
                      ELSE secretCache
    /\ dirty' = TRUE
    /\ UNCHANGED <<cr, certManager, secret, objs, configmap, deployment,
                   issued, left, delayed, pc, loc, err>>

\* runPeriodicalResync adds the key every five minutes.
Resync ==
    /\ ~dirty
    /\ dirty' = TRUE
    /\ UNCHANGED <<clusterVars, cacheVars, delayed, pc, loc, err>>

\* The timer of AddRateLimited expires.
Retry ==
    /\ delayed
    /\ delayed' = FALSE
    /\ dirty' = TRUE
    /\ UNCHANGED <<clusterVars, cacheVars, pc, loc, err>>

\* The only worker takes the key; sync() starts.
Get ==
    /\ pc = "idle"
    /\ dirty
    /\ dirty' = FALSE
    /\ pc' = "state"
    /\ err' = FALSE
    /\ UNCHANGED <<clusterVars, cacheVars, delayed, loc>>

\* The operator process ends and a new one starts. Its caches may be filled
\* from a server that is behind, its resync adds the key at once.
Restart ==
    /\ pc' = "idle"
    /\ dirty' = TRUE
    /\ delayed' = FALSE
    /\ loc' = NoLocal
    /\ err' = FALSE
    /\ UNCHANGED cacheVars

Kill ==
    /\ Restart
    /\ Spend("restart")
    /\ UNCHANGED <<cr, certManager, secret, objs, configmap, deployment,
                   unseen, issued>>

-----------------------------------------------------------------------------
(* sync(), call by call.                                                   *)

\* sync() goes on with the next call, or returns an error from this one.
Continue == pc' = After[pc] /\ UNCHANGED err
Fail     == pc' = "report" /\ err' = TRUE

\* The API server refuses a call, or answered the one before and the answer is
\* lost.
CallFails ==
    /\ pc \in Working
    /\ Fail
    /\ Spend("fault")
    /\ UNCHANGED <<cr, certManager, secret, objs, configmap, deployment, unseen,
                   issued, cacheVars, queueVars, loc>>

\* Faulty variant of ReadState: only Unmanaged is honoured, Removed is not.
ReadStateOfRemoved ==
    /\ pc = "state"
    /\ \/ ~crCache.exists /\ Fail
       \/ crCache.exists /\ crCache.mgmt # "Unmanaged" /\ Continue
       \/ crCache.exists /\ crCache.mgmt = "Unmanaged" /\ pc' = "report" /\ UNCHANGED err
    /\ UNCHANGED <<clusterVars, cacheVars, queueVars, loc>>

\* GetOperatorState from the cache, and the management state check.
ReadState ==
    /\ pc = "state"
    /\ \/ ~crCache.exists /\ Fail
       \/ crCache.exists /\ crCache.mgmt \in {"", "Managed"} /\ Continue
       \/ /\ crCache.exists /\ crCache.mgmt \notin {"", "Managed"}
          /\ pc' = "report" /\ UNCHANGED err
    /\ UNCHANGED <<clusterVars, cacheVars, queueVars, loc>>

\* The API server stores a status; a write that changes nothing is no event.
WriteStatus(s) ==
    /\ cr' = [cr EXCEPT !.status = s]
    /\ unseen' = IF s = cr.status THEN unseen ELSE unseen \cup {"cr"}

\* v1helpers.UpdateStatus: the update functions applied to the cached status
\* give new. Nothing is written when new is what the cache holds. Otherwise the
\* first attempt stores new whatever the server holds, and an attempt after a
\* conflict stores newLive, the update applied to the status just read.
UpdateStatus(new, newLive) ==
    /\ crCache.exists
    /\ \/ new = crCache.status /\ UNCHANGED <<cr, unseen>>
       \/ /\ new # crCache.status /\ cr.exists
          /\ WriteStatus(new) \/ WriteStatus(newLive)

\* There is no CR in the cache, or none left in the API server to write to.
UpdateStatusFails(new) ==
    /\ ~crCache.exists \/ (new # crCache.status /\ ~cr.exists)
    /\ UNCHANGED <<cr, unseen>>

\* Faulty variant of AvailableCondition: the status of a Deployment that is not
\* available stays unset.
AvailableWithoutFalse(exists, avail) ==
    IF exists /\ avail = Replicas THEN "True" ELSE ""

\* constructAvailableCondition
AvailableCondition(exists, avail) ==
    IF exists /\ avail = Replicas THEN "True" ELSE "False"

\* Faulty variant of SetAvailable: the conditions are replaced, not merged.
SetAvailableOnly(st) ==
    [NoStatus EXCEPT !.available = AvailableCondition(depCache.exists, depCache.avail)]

SetAvailable(st) ==
    [st EXCEPT !.available = AvailableCondition(depCache.exists, depCache.avail)]

UpdateAvailable ==
    /\ pc = "available"
    /\ LET new == SetAvailable(crCache.status) IN
          \/ UpdateStatus(new, SetAvailable(cr.status)) /\ Continue
          \/ UpdateStatusFails(new) /\ Fail
    /\ UNCHANGED <<certManager, secret, objs, configmap, deployment, issued,
                   left, cacheVars, queueVars, loc>>

\* Faulty variant of SetMissingDependency: it sets Available.
SetMissingDependencyAvailable(st) == [st EXCEPT !.available = "False"]

SetMissingDependency(st) == [st EXCEPT !.degraded = "True"]

\* isResourceRegistered; without cert-manager sync() returns an error whether
\* or not it could set the Degraded condition.
CheckCertManager ==
    /\ pc = "discover"
    /\ \/ certManager /\ Continue /\ UNCHANGED <<cr, unseen>>
       \/ /\ ~certManager
          /\ LET new == SetMissingDependency(crCache.status) IN
                \/ UpdateStatus(new, SetMissingDependency(cr.status))
                \/ UpdateStatusFails(new)
          /\ Fail
    /\ UNCHANGED <<certManager, secret, objs, configmap, deployment, issued,
                   left, cacheVars, queueVars, loc>>

\* The second read of the cached CR: owner reference, log level and the
\* Deployment generation recorded in its status.
ReadOperator ==
    /\ pc = "owner"
    /\ \/ /\ crCache.exists
          /\ loc' = [loc EXCEPT !.uid = crCache.uid, !.log = crCache.log,
                                !.gen = crCache.status.gen]
          /\ Continue
       \/ ~crCache.exists /\ Fail /\ UNCHANGED loc
    /\ UNCHANGED <<clusterVars, cacheVars, queueVars>>

\* The apply functions of the operand objects: create, or update what differs.
Manage(o) ==
    /\ pc = o
    /\ o \in CertManagerObject => certManager
    /\ objs[o].content # "noconversion"
    /\ LET want == [exists |-> TRUE, owner |-> loc.uid, content |-> "desired"] IN
          /\ objs' = [objs EXCEPT ![o] = want]
          /\ unseen' = IF o \in Watched /\ objs[o] # want
                       THEN unseen \cup {o} ELSE unseen
    /\ Continue
    /\ UNCHANGED <<cr, certManager, secret, configmap, deployment, issued, left,
                   cacheVars, queueVars, loc>>

\* cert-manager's kinds are gone since sync() looked for them.
ManageUnknownKind(o) ==
    /\ pc = o
    /\ o \in CertManagerObject
    /\ ~certManager
    /\ Fail
    /\ UNCHANGED <<clusterVars, cacheVars, queueVars, loc>>

\* manageCRD dereferences the current CRD's conversion webhook: without one it
\* panics, degradedPanicHandler reports and the process ends.
ManageCRDPanics ==
    /\ pc = "crd"
    /\ objs["crd"].content = "noconversion"
    /\ IF cr.exists THEN WriteStatus([cr.status EXCEPT !.tcd = "True"])
                    ELSE UNCHANGED <<cr, unseen>>
    /\ Restart
    /\ UNCHANGED <<certManager, secret, objs, configmap, deployment, issued, left>>

\* Faulty variant of CheckSecretReady: a Secret that exists is good enough.
CheckSecretPresent(s) ==
    /\ pc = s
    /\ \/ /\ secretCache[s].state # "absent"
          /\ loc' = [loc EXCEPT !.secrets[s] = secretCache[s].ver]
          /\ Continue
       \/ secretCache[s].state = "absent" /\ Fail /\ UNCHANGED loc
    /\ UNCHANGED <<clusterVars, cacheVars, queueVars>>

\* checkSecretReady, and the annotation made from the Secret's version.
CheckSecretReady(s) ==
    /\ pc = s
    /\ \/ /\ secretCache[s].state = "ready"
          /\ loc' = [loc EXCEPT !.secrets[s] = secretCache[s].ver]
          /\ Continue
       \/ secretCache[s].state # "ready" /\ Fail /\ UNCHANGED loc
    /\ UNCHANGED <<clusterVars, cacheVars, queueVars>>

ManageConfigMap ==
    /\ pc = "configmap"
    /\ LET current == /\ configmap.exists
                      /\ configmap.owner = loc.uid
                      /\ ~configmap.drifted
       IN  /\ configmap' = IF current THEN configmap
                           ELSE [exists |-> TRUE, owner |-> loc.uid,
                                 drifted |-> FALSE, ver |-> configmap.ver + 1]
           /\ unseen' = IF current THEN unseen ELSE unseen \cup {"configmap"}
    /\ loc' = [loc EXCEPT !.config = configmap'.ver]
    /\ Continue
    /\ UNCHANGED <<cr, certManager, secret, objs, deployment, issued, left,
                   cacheVars, queueVars>>

ZapLevel(l) == IF l \in {"Debug", "Trace", "TraceAll"} THEN "debug" ELSE "info"

Required == [secrets |-> loc.secrets, config |-> loc.config,
             log |-> ZapLevel(loc.log)]

\* Faulty variant of UpToDate: without the spec hash only the generation tells.
UpToDateByGeneration(d, required) ==
    /\ d.exists
    /\ d.owner = loc.uid
    /\ d.gen = loc.gen

\* ApplyDeployment skips the write when the metadata, the spec hash in it
\* included, is right and the generation is the one recorded.
UpToDate(d, required) ==
    /\ d.exists
    /\ d.owner = loc.uid
    /\ d.template = required
    /\ d.gen = loc.gen

ManageDeployment ==
    /\ pc = "deployment"
    /\ LET changed == deployment.drifted \/ deployment.template # Required
           applied == IF UpToDate(deployment, Required) THEN deployment
                      ELSE [exists |-> TRUE, owner |-> loc.uid,
                            template |-> Required, drifted |-> FALSE,
                            gen |-> IF ~deployment.exists \/ changed
                                    THEN deployment.gen + 1 ELSE deployment.gen,
                            avail |-> deployment.avail]
       IN  /\ deployment' = applied
           /\ unseen' = IF applied = deployment THEN unseen
                        ELSE unseen \cup {"deployment"}
           /\ loc' = [loc EXCEPT !.depGen = applied.gen, !.depAvail = applied.avail]
    /\ Continue
    /\ UNCHANGED <<cr, certManager, secret, objs, configmap, issued, left,
                   cacheVars, queueVars>>

SetFinished(st) ==
    [st EXCEPT !.gen = loc.depGen, !.ready = loc.depAvail,
               !.available = AvailableCondition(TRUE, loc.depAvail),
               !.degraded = "False"]

\* The UpdateStatus that ends a complete sync; its answer may be lost.
Finish ==
    /\ pc = "finish"
    /\ LET new == SetFinished(crCache.status) IN
          \/ UpdateStatus(new, SetFinished(cr.status)) /\ Continue /\ UNCHANGED left
          \/ UpdateStatus(new, SetFinished(cr.status)) /\ Fail /\ Spend("fault")
          \/ UpdateStatusFails(new) /\ Fail /\ UNCHANGED left
    /\ UNCHANGED <<certManager, secret, objs, configmap, deployment, issued,
                   cacheVars, queueVars, loc>>

\* The worker is done with the key; after an error it comes back on a timer.
Done(failed) ==
    /\ pc' = "idle"
    /\ loc' = NoLocal
    /\ err' = failed
    /\ delayed' = (delayed \/ failed)
    /\ UNCHANGED <<dirty, cacheVars>>

\* Faulty variant of WriteOutcome: a success is not worth a report.
WriteErrorOnly ==
    IF cr.exists /\ err
    THEN WriteStatus([cr.status EXCEPT !.tcd = "True"])
    ELSE UNCHANGED <<cr, unseen>>

\* reportDegraded sets one condition by server-side apply; a missing CR is fine.
WriteOutcome ==
    IF cr.exists
    THEN WriteStatus([cr.status EXCEPT !.tcd = IF err THEN "True" ELSE "False"])
    ELSE UNCHANGED <<cr, unseen>>

ReportDegraded ==
    /\ pc = "report"
    /\ WriteOutcome
    /\ Done(err)
    /\ UNCHANGED <<certManager, secret, objs, configmap, deployment, issued, left>>

\* A report that fails, stored or not, is retried with the sync.
ReportFails ==
    /\ pc = "report"
    /\ WriteOutcome \/ UNCHANGED <<cr, unseen>>
    /\ Done(TRUE)
    /\ Spend("fault")
    /\ UNCHANGED <<certManager, secret, objs, configmap, deployment, issued>>

-----------------------------------------------------------------------------

Sync ==
    \/ ReadState
    \/ UpdateAvailable
    \/ CheckCertManager
    \/ ReadOperator
    \/ \E o \in Object : Manage(o) \/ ManageUnknownKind(o)
    \/ ManageCRDPanics
    \/ \E s \in SecretName : CheckSecretReady(s)
    \/ ManageConfigMap
    \/ ManageDeployment
    \/ Finish
    \/ ReportDegraded

ControllerNext ==
    \/ \E w \in Watched : Deliver(w)
    \/ Resync
    \/ Retry
    \/ Get
    \/ Kill
    \/ CallFails
    \/ ReportFails
    \/ Sync

Environment == ClusterNext /\ UNCHANGED <<cacheVars, queueVars, pc, loc, err>>

Next == ControllerNext \/ Environment

\* The worker runs, events arrive, timers expire, and the cluster's own
\* controllers work; nobody has to disturb, and no call has to fail.
Fairness ==
    /\ WF_vars(Get)
    /\ WF_vars(Sync)
    /\ \A w \in Watched : WF_vars(Deliver(w))
    /\ WF_vars(Retry)
    /\ WF_vars(Resync)
    /\ WF_vars(ClusterProgress /\ UNCHANGED <<cacheVars, queueVars, pc, loc, err>>)

Spec == Init /\ [][Next]_vars
FairSpec == Spec /\ Fairness

-----------------------------------------------------------------------------
(* Properties.                                                             *)

Managed(c) == c.exists /\ c.mgmt \in {"", "Managed"}

\* Nothing is left to do: no sync runs, waits or is due, no event is on its way.
Quiescent == pc = "idle" /\ ~dirty /\ ~delayed /\ unseen = {}

Desired(owner) == [exists |-> TRUE, owner |-> owner, content |-> "desired"]

TemplateFor(uid, log, secrets) ==
    /\ deployment.exists
    /\ deployment.owner = uid
    /\ deployment.template = [secrets |-> secrets, config |-> configmap.ver,
                              log |-> ZapLevel(log)]

\* No wake-up is lost: when the operator of a Managed CR has nothing left to
\* do, the Deployment's template names the Secrets, the ConfigMap and the log
\* level of now, its owner is the CR of now, and the watched objects are as the
\* manifests want them. (Queue, informers and sync() together.)
QuiescentReconciled ==
    Quiescent /\ Managed(cr) =>
        /\ \A s \in SecretName : secret[s].state = "ready"
        /\ TemplateFor(cr.uid, cr.log, [s \in SecretName |-> secret[s].ver])
        /\ configmap.exists /\ configmap.owner = cr.uid /\ ~configmap.drifted
        /\ objs["networkpolicy"] = Desired(cr.uid)

\* What the CR's status says of the operand is true when the operator has
\* nothing left to do, whatever stale copies were written on the way.
HonestStatus ==
    cr.status = [available |-> AvailableCondition(deployment.exists, deployment.avail),
                 degraded |-> "False", tcd |-> "False",
                 gen |-> deployment.gen, ready |-> deployment.avail]

QuiescentStatusHonest == Quiescent /\ Managed(cr) => HonestStatus

\* The webhook configurations and the Deployment are only ever applied with
\* certificates that were complete: checkSecretReady gates all of them.
OperandNeedsCertificates ==
    /\ deployment.exists =>
          \A s \in SecretName : deployment.template.secrets[s] \in issued[s]
    /\ objs["validatingwebhook"].exists \/ objs["mutatingwebhook"].exists =>
          \A s \in SecretName : issued[s] # {}

\* A sync works on the operand of a CR that is Managed, or a wake-up that will
\* find out is already queued: the management state is read once per sync.
WorksOnlyWhenManaged == pc \in Working /\ ~dirty => Managed(crCache)

Reconciled ==
    /\ \A o \in Object : objs[o] = Desired(cr.uid)
    /\ TemplateFor(cr.uid, cr.log, [s \in SecretName |-> secret[s].ver])
    /\ ~deployment.drifted
    /\ HonestStatus

\* Once the disturbances end with a Managed CR and cert-manager in place, every
\* operand object is and stays as desired and the status says so.
Converges == <>[](Managed(cr) /\ certManager) => <>[]Reconciled

\* Once the CR stays Unmanaged or Removed the reconciler stops touching the
\* operand for good.
StopsWhenUnmanaged ==
    <>[](cr.exists /\ ~Managed(cr)) => <>[](pc \notin Working)

\* Without cert-manager the status ends up, and stays, Degraded.
MissingDependencyReported ==
    <>[](Managed(cr) /\ ~certManager) => <>[](cr.status.degraded = "True")

\* The operator does not wake itself up for ever: once the disturbances end, its
\* resyncs and retries find nothing to write, whether they succeed or not.
Settles == <>[][UNCHANGED <<cr, objs, configmap, deployment>>]_vars

(* What the documentation says and the code does not do.                   *)

\* ARCHITECTURE.md, Idempotency: reconciliation "automatically corrects drift".
DeploymentDriftCorrected == Quiescent /\ Managed(cr) => ~deployment.drifted

\* The same, for the JobSet CRD's conversion strategy.
ConversionDriftCorrected ==
    <>[](Managed(cr) /\ certManager) => <>[](objs["crd"].content = "desired")

-----------------------------------------------------------------------------
(* The inductive invariant behind QuiescentReconciled, QuiescentStatusHonest *)
(* and WorksOnlyWhenManaged: as long as no wake-up is pending, what a sync   *)
(* has read or applied so far is still what the caches and the cluster hold. *)

AfterMetrics == {"validatingwebhook", "mutatingwebhook", "crd", "role",
                 "rolebinding", "servicemonitor", "configmap", "deployment",
                 "finish"}
AfterSecret(s) == IF s = "webhook" THEN AfterMetrics \cup {"metrics"} ELSE AfterMetrics
AfterOwner == Object \cup SecretName \cup {"configmap", "deployment", "finish"}

\* A cache differs from the cluster only while an event is on its way.
CachesFollow ==
    /\ "cr" \notin unseen => crCache = cr
    /\ "deployment" \notin unseen => depCache = deployment
    /\ \A s \in SecretName : s \notin unseen => secretCache[s] = secret[s]

OwnerRead == ~dirty /\ pc \in AfterOwner =>
    loc.uid = crCache.uid /\ loc.log = crCache.log

SecretsRead == \A s \in SecretName : ~dirty /\ pc \in AfterSecret(s) =>
    /\ secretCache[s].state = "ready"
    /\ loc.secrets[s] = secretCache[s].ver

NetworkPolicyApplied ==
    ~dirty /\ "networkpolicy" \notin unseen /\ pc \in AfterOwner \ {"networkpolicy"} =>
        objs["networkpolicy"] = Desired(crCache.uid)

ConfigMapCurrent == /\ configmap.exists
                    /\ configmap.owner = crCache.uid
                    /\ ~configmap.drifted

ConfigMapApplied ==
    ~dirty /\ "configmap" \notin unseen /\ pc \in {"deployment", "finish"} =>
        ConfigMapCurrent /\ loc.config = configmap.ver

DeploymentApplied ==
    ~dirty /\ "deployment" \notin unseen /\ "configmap" \notin unseen /\ pc = "finish" =>
        /\ TemplateFor(crCache.uid, crCache.log, loc.secrets)
        /\ loc.depGen = deployment.gen
        /\ loc.depAvail = deployment.avail

\* What a complete sync leaves behind, in terms of the caches it read.
Applied == /\ \A s \in SecretName : secretCache[s].state = "ready"
           /\ TemplateFor(crCache.uid, crCache.log,
                          [s \in SecretName |-> secretCache[s].ver])
           /\ ConfigMapCurrent
           /\ objs["networkpolicy"] = Desired(crCache.uid)

FinishedStatus ==
    /\ cr.status.available = AvailableCondition(deployment.exists, deployment.avail)
    /\ cr.status.degraded = "False"
    /\ cr.status.gen = deployment.gen
    /\ cr.status.ready = deployment.avail

Undisturbed == ~dirty /\ unseen = {} /\ Managed(crCache)

SyncApplied == Undisturbed /\ pc = "report" /\ ~err => Applied /\ FinishedStatus
IdleApplied == Undisturbed /\ pc = "idle" /\ ~delayed =>
    Applied /\ FinishedStatus /\ cr.status.tcd = "False"

IInv ==
    /\ CachesFollow
    /\ WorksOnlyWhenManaged
    /\ OwnerRead
    /\ SecretsRead
    /\ NetworkPolicyApplied
    /\ ConfigMapApplied
    /\ DeploymentApplied
    /\ SyncApplied
    /\ IdleApplied

\* The inductive invariant behind OperandNeedsCertificates: what a Secret, the
\* cache of it and a sync past its check call complete was complete once.
CertificatesWereIssued ==
    /\ \A s \in SecretName :
          /\ secret[s].state = "ready" => secret[s].ver \in issued[s]
          /\ secretCache[s].state = "ready" => secretCache[s].ver \in issued[s]
          /\ pc \in AfterSecret(s) => loc.secrets[s] \in issued[s]
    /\ OperandNeedsCertificates

-----------------------------------------------------------------------------
(* Idempotency.                                                            *)

\* Two states of the CR differ in nothing but reportDegraded's condition.
SameButReport(c, d) == [c EXCEPT !.status.tcd = d.status.tcd] = d

\* What a sync has read or applied so far is what there is.
SyncInStep ==
    /\ pc \in AfterOwner =>
          loc.uid = cr.uid /\ loc.log = cr.log /\ loc.gen = deployment.gen
    /\ \A s \in SecretName : pc \in AfterSecret(s) => loc.secrets[s] = secret[s].ver
    /\ pc \in {"deployment", "finish"} => loc.config = configmap.ver
    /\ pc = "finish" => loc.depGen = deployment.gen /\ loc.depAvail = deployment.avail

\* The operator's work is done, be it idle or in the middle of another sync, the
\* last one having succeeded or not.
Settled ==
    /\ Managed(cr) /\ certManager
    /\ unseen \subseteq {"cr"} /\ SameButReport(crCache, cr)
    /\ secretCache = secret /\ depCache = deployment
    /\ \A o \in Object : objs[o] = Desired(cr.uid)
    /\ Applied
    /\ FinishedStatus
    /\ SyncInStep

OnlyReports ==
    /\ UNCHANGED <<certManager, secret, objs, configmap, deployment>>
    /\ SameButReport(cr, cr')

\* What the operator does on its own once its work is done, be it a resync, a
\* retry, a call that fails or a restart at any time, writes no operand object
\* and nothing into the status but the report, and the work stays done.
Idempotent == [][Settled /\ ControllerNext => OnlyReports /\ Settled']_vars

\* The missing cert-manager is reported, as the cache knows too, and no sync is past
\* its check for it.
MissingReported ==
    /\ ~certManager
    /\ cr.status.degraded = "True" /\ crCache.status.degraded = "True"
    /\ pc \in {"idle", "state", "available", "discover", "report"}

\* What the operator does on its own leaves that report alone, and the operand.
MissingStaysReported ==
    [][MissingReported /\ ControllerNext =>
          MissingReported' /\ UNCHANGED <<secret, objs, configmap, deployment>>]_vars
-----------------------------------------------------------------------------
(* The queue: one key, one worker, which is busy from Get to Done.          *)

Pending == IF dirty THEN {"key"} ELSE {}
Running == [w \in {"worker"} |-> IF pc = "idle" THEN "none" ELSE "key"]

Queue == INSTANCE CoalescingQueue
         WITH Key <- {"key"}, Worker <- {"worker"}, NoKey <- "none",
              pending <- Pending, running <- Running, closed <- FALSE

\* What this module takes for its queue is what WorkQueue is shown to implement;
\* only the end of the process takes a key out of a worker's hands.
QueueKeepsPromise == [][Queue!Next \/ Kill \/ ManageCRDPanics]_(Queue!promiseVars)
=============================================================================
