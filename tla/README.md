# jobset-operator: specifications, model checking and proofs

The jobset-operator installs and looks after the JobSet controller of an OpenShift cluster. An
administrator creates one `JobSetOperator` CR named `cluster`; the operator then applies the operand
(webhook configurations, CRD, RBAC, ConfigMap, Deployment, ...), with certificates it asks
cert-manager for, and reports in the CR's status. This directory holds TLA+ modules about how it does
that, TLC configurations that check them on small instances, and TLAPS proofs of the main results for
every instance. Paths below are relative to the repository; `LG` stands for
`vendor/github.com/openshift/library-go/pkg`.

    tlc -workers 2 -config ReconcilerSafety.cfg MCTargetConfigReconciler
    tlc -workers 2 -config WorkQueue.cfg MCWorkQueue
    tlapm TargetConfigReconcilerProofs.tla

A configuration named `Reconciler*` or `*Drift` belongs to `MCTargetConfigReconciler`, `StatusProtocol` and
`WritesAssumeVersion` to `MCOperatorStatus`, every other one to the `MC` module of its name.

## 1. Inventory

| Part | State | Operations | Hard behaviour | What makes it correct |
|---|---|---|---|---|
| TargetConfigController ("the reconciler"), `pkg/operator/target_config_reconciler.go` | listers of the CR, Secrets and Deployments; local variables of one `sync()` | `sync()`: about twenty calls in a fixed order, each able to fail | every event and every change in the cluster may fall between two calls; the CR is read twice; the Secrets come from a cache; an error leaves the rest undone | the operand follows CR, Secrets and ConfigMap; nothing is applied without certificates; hands off when not Managed; convergence |
| Controller runtime, `LG/controller/factory` | timers, one goroutine per worker | event handlers, periodic resync, `processNextWorkItem`, `reportDegraded`, panic handler, `Run` | lost wake-ups, retries racing events, panics that end the process | no wake-up is lost, an error is retried and in the end withdrawn |
| Work queue, `vendor/k8s.io/client-go/util/workqueue` | the queue, the dirty and the processing set, a condition variable, delayed keys | `Add`, `Get`, `Done`, `AddAfter`, `ShutDown` | a key added while it is processed; a signal that wakes the wrong sleeper; shutdown among sleepers | a key added is processed afterwards, by one worker at a time; `Run` returns |
| Operator client, `pkg/operator/operatorclient/interfaces.go`, and `LG/operator/v1helpers` | none of its own; CR cache and API server | `UpdateStatus` (lister, then live after a conflict), `UpdateOperatorStatus` (GET and PUT of a whole status), `ApplyOperatorStatus` (extract, compare, server-side apply) | a status computed from a stale cache is stored over a newer one; managers that apply next to each other | stale writes are repaired; the status at rest is true; an apply changes its own condition only |
| Apply configurations, `pkg/generated/applyconfiguration`, `LG/operator/v1helpers/canonicalize.go` | - | constructors, setters, extraction, transition times | an apply wakes the controller that made it | an unchanged condition is not written again |
| Apply functions, `LG/operator/resource/resourceapply`, `pkg/operator/resource.go` | `resourceCache` | get, compare, create or update | cert-manager writes into the same objects; a cached decision; a generation recorded for another object | idempotent; corrects drift; does not fight cert-manager |
| Static resource controller, `LG/operator/staticresourcecontroller`, wired in `pkg/operator/starter.go` | own queue | applies ServiceAccount, RBAC and metrics Service with owner references; writes its own conditions | one of several manifests fails; the owner's UID comes from a lagging cache; a deleted CR and the garbage collector | reports truly, converges, lets go of a deleted CR's objects |
| Log level controller, `LG/operator/loglevel` | the process's verbosity | `sync()`: read `spec.operatorLogLevel`, set it | the CR changes between read and write; a start with an odd `-v` | the verbosity follows the spec |
| Shared informer factory, `pkg/generated/informers/externalversions` | informers, which of them were started, a wait group | `InformerFor`, `Start`, `WaitForCacheSync`, `Shutdown` | Shutdown waits outside of the lock while others start informers | one goroutine per informer, none outlives Shutdown, waiting calls return |
| Start-up, `pkg/operator/starter.go`, `pkg/cmd`, `cmd` | - | builds clients, informers and three controllers, starts them with one worker each | the order of construction and start; the first reads happen before caches are filled | nobody takes an empty cache for a missing CR; all controllers come to work |
| API types `pkg/apis`; clientset, listers, deep copies, fakes in `pkg/generated`; `test/` | - | - | - | (see 7) |

The parts interact through the API server (the CR's status is written by all controllers and watched
by all), through informer caches that trail it, and through the work queue. Outside the operator act
the administrator, cert-manager (it issues Secrets and injects CA bundles), the Deployment controller and the
garbage collector. The hazards this
gives rise to are listed with their lines under `hazards` in `PROJECT.json`.

## 2. Modules

| Module | What it is | Checked by | Proved in |
|---|---|---|---|
| `Cluster` | The API objects as far as the operator tells them apart, pending watch events, and one action per thing somebody else can do to them | with the next | with the next |
| `TargetConfigReconciler` | Informer caches, work queue and `sync()`, composed with `Cluster`; properties; inductive invariants | `MCTargetConfigReconciler` | `TargetConfigReconcilerProofs` |
| `OperatorStatus` | The writes of the CR's status by all controllers, call by call: what `TargetConfigReconciler` takes as one step each | `MCOperatorStatus` | `OperatorStatusProofs` |
| `StatusApply` | `ApplyOperatorStatus` in detail: extraction, ownership, transition times | `MCStatusApply` | `StatusApplyProofs` |
| `CoalescingQueue` | Abstract: what a controller relies on in its queue | refined by the next | |
| `WorkQueue` | The queue's data structures, its workers on a condition variable, and `Run()` | `MCWorkQueue` | `WorkQueueProofs` |
| `InformerFactory` | The generated informer factory, called by several goroutines | `MCInformerFactory` | `InformerFactoryProofs` |
| `LogLevel` | The log level controller | with the next | with the next |
| `Startup` | `RunOperator`, composed with `InformerFactory` and `LogLevel` | `MCStartup` | `StartupProofs` |
| `AtomicApply` | Abstract: an apply of a webhook configuration or the CRD as one step | refined by the next | |
| `ResourceApply` | The applies of webhook configurations and CRD, call by call, with the resource cache, next to cert-manager | `MCResourceApply` | `ResourceApplyProofs` |
| `StaticResources` | The static resource controller over a list of manifests | `MCStaticResources` | `StaticResourcesProofs` |

How they relate: `TargetConfigReconciler` takes three things for one step or one flag that other modules open
up. Its `dirty`/`pc` is `pending`/`running` of `CoalescingQueue`, which `WorkQueue` implements (`KeepsPromise`); that the
reconciler's steps are steps of that queue is proved, too (`QueueKeepsPromise`), so the two fit together. Its
`UpdateStatus` is one step, `OperatorStatus` has the calls. Its `Manage(o)` is one step, `ResourceApply` has the
GETs and writes of the two kinds of objects somebody else writes to as well, and is shown to implement `AtomicApply`, in
which an apply is one step (`AppliesAtomically`). `ApplyOperatorStatus` is two steps in
`OperatorStatus`, `StatusApply` says what is in them. In `Startup`, every step of the process is a step of
`InformerFactory` or leaves the factory alone (`UsesFactory`, proved), so what is proved of the factory holds in the process.

A definition whose comment begins with "Faulty variant of" is a plausible bug in the code it stands next to. No
specification uses it; `PROJECT.json` (`mutants`) says which property finds it.

### Cluster

`cr` is the CR (UID, `managementState`, `logLevel`, status), `secret` the two certificate Secrets
(`absent`, `empty`: created but without certificate and key, `ready`; `ver` is the resourceVersion),
`objs` the eleven operand objects that `sync()` applies before the ConfigMap, `configmap` and
`deployment` the last two, which need more detail. A Deployment has the template its spec hash was
computed from (`Template`: Secret versions, ConfigMap version, log level), `drifted` when its spec was
edited behind the operator's back, and the generation the API server counts. The status keeps the
conditions Available, Degraded and TargetConfigControllerDegraded (`tcd`), the Deployment generation
recorded in `status.generations`, and `readyReplicas`. `unseen` is the set of watched objects whose
change has not been delivered to the operator. `issued` is a history variable.

Edits are edits the object's apply function compares; `DropConversion` is the edit of the CRD the
code cannot stand. A CR is created Managed. `CollectObjects` and its siblings are passes of the garbage collector.

### TargetConfigReconciler

| Model | Code |
|---|---|
| `crCache`, `secretCache`, `depCache` | the listers, filled by the informers |
| `Deliver(w)` | informer event: cache updated, key added. Events of one object that pile up are delivered as one |
| `dirty`, `delayed`, `pc` | the key waits; is on the rate limiter's timer; is being processed |
| `Get`, `Done` | `processNextWorkItem`: one worker, so a key added during a sync waits for its end |
| `Resync`, `Retry` | periodic resync, expiry of the retry delay |
| `After` | the order of calls in `sync()` |
| `ReadState` ... `Finish` | the calls; each takes place at one instant between those of others |
| `CallFails` | any call after the management check fails, with or without having taken effect |
| `UpdateStatus` | `v1helpers.UpdateStatus` with `UpdateOperatorStatus` (below) |
| `Manage(o)` | the `manage*` functions and the apply functions they end in |
| `ManageUnknownKind(o)` | the same when cert-manager was removed since discovery |
| `ManageCRDPanics` | nil dereference in `manageCRD`, panic handler, end of the process |
| `UpToDate`, `ManageDeployment` | `manageDeployment` and `ApplyDeploymentWithForce` |
| `ReportDegraded`, `ReportFails` | `reportDegraded` after the sync |
| `Kill` | the process ends anywhere; a new one starts |

`UpdateStatus` is one step, and still covers what the code can do: the first attempt computes the new
status from the lister; if it differs from the lister's, `UpdateOperatorStatus` fetches the CR anew and
stores the computed status under the fetched resourceVersion, so it is stored *whatever the server
holds* (`WriteStatus(new)`). (Between reading the lister and the PUT other steps may take place in the code;
`OperatorStatus` is about that window.) After a conflict the lister is read again (the same step, later), or, when
it has not moved, the live status is taken (`WriteStatus(newLive)`). `Settles` and
`QuiescentStatusHonest` show that the stale overwrite is always repaired.

A restarted operator keeps the caches of the old one in the model: they may be behind, as those of a new process
may be that is served from a lagging watch cache. It starts with the key queued, as the
resync does.

What is abstracted: names, texts, reasons, transition times; images and manifests; `customCRDfixes`;
the server version (its failure is a failed call of `discover`); back-off times; CA bundles and the resource cache
(they are in `ResourceApply`). `Manage(o)` corrects an edit the object's apply function compares; the state of an object does
not tell edits apart that it does not. `Force` in `managementState` is not Managed here: `sync()` asks
for `Managed` (`target_config_reconciler.go:106`), the static resource controller for anything but Unmanaged. `spec.replicas` of the Deployment is the constant `Replicas` (edits of it are
`drifted`, as any edit of the spec).

### OperatorStatus

| Model | Code |
|---|---|
| `want` | the condition each controller computes from what it sees of the cluster: the reconciler Available, an applier its Degraded |
| `server`, `lister`, `inflight` | the CR in the API server (resourceVersion, one condition per owner), in the informer's cache, and the versions in between, oldest first |
| `due`, `Deliver` | one key per controller; every controller watches the CR, so every version wakes all of them |
| `task[w]`, `GetApplied`, `ApplyOperatorStatus` | a call of `ApplyOperatorStatus`: live GET, then a forced server-side apply of one condition |
| `StartApplier`, `ApplierApplies` | `StaticResourceController.Sync` as far as the status goes; an error in the condition brings the key back |
| `pc`, `op` | the reconciler's sync, reduced to two calls of `UpdateStatus` and the report |
| `ReadLister`, `ReadLive`, `Compute` | an attempt of `UpdateStatus`; `op.base` is the version it started from, whose `rv` is `previousResourceVersion` |
| `GetOriginal`, `PutStatus` | `UpdateOperatorStatus`: a GET *not older than* the given version, then a PUT of the whole computed status under the version that came back |
| `MayRetry` | `retry.DefaultBackoff`, four attempts |
| `StartReport`, `Report`, `EndSync` | `reportDegraded`, and the end of the sync |
| `ApplyFails`, `SyncFails`, `ReportFails` | a call fails, with or without having taken effect |

The CR exists and is Managed throughout. The call of `UpdateStatus` that reports the missing cert-manager
has the protocol of the others and is not told apart. A controller's delayed retry waits in `due`.
Whether an apply of equal fields is skipped depends on transition times and ownership, which are not
modelled: both happen. Changes of ownership alone, which a server-side apply may also store, are like `EditSpec`.

### StatusApply

| Model | Code |
|---|---|
| `cond`, `own` | the conditions in the CR, which the API server merges by type, and which managers have an entry for the status in `managedFields` |
| `Configuration`, `JobSetOperator` | an apply configuration by the conditions in its status; kind, version and name are the same in all and left out |
| `ExtractInto` | `managedfields.ExtractInto` with the generated schema: the schema (`internal.go`) knows no list as a map, so a manager that owns one condition extracts all |
| `Desired`, `SetLastTransitionTime` | the configuration of one condition; the old transition time stays when the status does |
| `Get`, `ApplyStatus` | the GET with what is computed from it, and the forced apply |
| `PutStatus` | `UpdateOperatorStatus` of the reconciler, with a status read earlier |

The early return of `ApplyOperatorStatus` compares a configuration without transition times to an extracted one
with them, so after a first apply it is not taken; the repeated apply is then a no-op in the API server. Times
are compared for equality only, hence a clock that wraps around.

### CoalescingQueue and WorkQueue

| Model | Code |
|---|---|
| `queue`, `dirty`, `processing` | the fields of `workqueue.Typed`; `item[w]` is the member of `processing` worker `w` put there |
| `Enqueue`, `Get`, `GetNothing`, `Done`, `ShutDown` | the methods, one action per section under the queue's lock; `GetNothing` ends in `cond.Wait()` |
| `Signal` | `cond.Signal()`: wakes *some* sleeper, which has to take the lock again |
| `Sync(w, failed)`, `TimerFires` | `processNextWorkItem` and `AddRateLimited` of a failed key; the loop behind `AddAfter` |
| `Loop` | `runWorker`: looks at the queue's context between two keys |
| `Stop`, `ShutDown`, `CancelQueue`, `Return` | the end of `baseController.Run` |

`Promise == INSTANCE CoalescingQueue WITH pending <- dirty, running <- item, closed <- shuttingDown` is
the refinement mapping.

### InformerFactory

| Model | Code |
|---|---|
| `informers`, `startedInformers`, `shuttingDown`, `wg` | the fields of `sharedInformerFactory`; `wg` holds the goroutines that have not ended |
| `InformerFor`, `StartWithContext` | one action each, they hold the lock throughout |
| `WaitForCacheSync`, `CacheSynced` | the informers are picked under the lock, the wait happens outside of it, and each is asked again afterwards |
| `Shutdown`, `Drain`, `Down` | the flag under the lock, `wg.Wait()` outside of it; the goroutine that ends last wakes the waiting calls (`End`) |
| `List`, `End`, `Cancel` | an informer's first List; its end with its context |

### LogLevel and Startup

`main` follows `RunOperator` through `After`, in the order of its statements; `todo` are the informers the
current constructor still asks the factory for; `handlers[c]` those controller `c` has event handlers at and
waits for; `ctl[c]` is where its `Run` is. The factory's actions are conjoined with those of the process. The
generated factory of the CR and library-go's factories of built-in kinds are taken as one: they are started one
right after the other. `CRSeen` is the operator client's read: the lister once the informer has synced, a GET
before. `SyncTimesOut` is the ten minutes after which a controller ends the process. `ReadLevel` and `SetLevel` are the two halves of the log
level controller's sync, between which the CR may change; `CurrentLogLevel` finds the level a verbosity counts
as, as the code does, by asking klog for each. This is one life of the process: a restart is a new behaviour, and `Init`
leaves CR and flag open.

### ResourceApply

| Model | Code |
|---|---|
| `same[o]` | which remembered resourceVersions (of the last GET, of the last write's response, in the resource cache) are the object's current one; versions are only compared for equality |
| `cache`, `SafeToSkipApply`, `CacheVersion` | `resourceCache`; the hash of what is required depends on the owner only |
| `CreateWebhook` ... `CacheWebhook` | the apply functions of `admissionregistration.go`: the CA bundle of the object that was read is copied into the update |
| `ReadCRD` | `manageCRD`'s own GET, for the CA bundle |
| `CreateCRD` ... `WriteCRD` | `ApplyCustomResourceDefinitionV1`, with a GET of its own and the version of this one |
| `Conflict` | the API server refuses an update of an object that has changed |
| `InjectCA`, `Meddle` | cert-manager's CA injector; an administrator |
| `Phase` | what the sync applies next; it moves on when an apply has had its effect. With the two local variables the sync goes by it is the refinement mapping to `AtomicApply` |

What `AtomicApply` promises: an apply has its effect at one instant between its first call and its return, the effect
is the required object with the CA bundle the object has *at that instant* (the CRD: the bundle `manageCRD` has read, or none),
and an apply that fails has either this effect or none.

### StaticResources

| Model | Code |
|---|---|
| `Kind`, `ClusterScoped`, `Binding` | the manifests in the order of `starter.go`, by what apply does with their kind, the cluster-scoped ones told apart; the ServiceAccount counts as a role |
| `Works`, `Sync` | management state and its check: the controller also works for Removed, since nothing calls `SetOperatorNotRemovable` |
| `Asset` | the asset function of `starter.go`: the CR's UID out of the cache, for each manifest anew and whatever its kind |
| `Applied`, `Refused` | the object an apply function leaves for an owner; the one it cannot change, hence the error |
| `ApplyFile`, `Advance`, `Failed` | `ApplyDirectly`: errors are collected, later manifests applied all the same |
| `obj[f].spec` | `drifted`: an edit apply compares; `ports`: of a Service, which it does not; `roleRef`: of a binding that was created with another role, which the API server does not let anybody change |
| `ReportDegraded` | `ApplyOperatorStatus` of the condition |
| `Collect`, `Tamper` | garbage collector; administrator |
| `kept` | a history variable: the manifests passed whose object nobody has changed since |

## 3. What is checked

| Run | Question | Instance |
|---|---|---|
| `ReconcilerSafety.cfg` | Is the operand as desired and the status true whenever the operator rests? Are certificates waited for? Is a CR that is not Managed left alone? | every pair in `SafetyBudgets`, from a reconciled cluster |
| `ReconcilerLiveness.cfg` | Does an installation complete, or report the missing cert-manager for good? Does the operator converge after disturbances, stop when not Managed, and stop writing? | an empty cluster with and without cert-manager, undisturbed; `LivenessBudgets` from a reconciled one |
| `StatusProtocol.cfg` | Do the status writers repair what they overwrite? | `StatusBudgets`, from a settled status; from a new CR undisturbed |
| `StatusApply.cfg` | Does an apply change its own condition only, and no condition that has not changed? | two managers, four acts of others |
| `WorkQueue.cfg` | Is every key processed after it was added, do failed ones come back, does `Run` return? Does the queue implement `CoalescingQueue`? | three keys, three workers |
| `InformerFactory.cfg` | Does nothing outlive a Shutdown, and does every blocking call return? | two types, two contexts, two callers |
| `Startup.cfg` | Do all controllers come to work without being misled, and does the verbosity follow the CR? | two kinds of manifests, one more kind, two levels, two flags |
| `ResourceApply.cfg` | Is only skipped what is applied? Do operator and cert-manager come to an end? | two UIDs, three CA bundles, three disturbances |
| `StaticResources.cfg` | Is success reported truly, does one bad object stop no other, do the objects come to be right, and go with the CR, where documents and code agree? | a ClusterRoleBinding, a role, a Service; two UIDs, three disturbances |
| `WritesAssumeVersion.cfg` | Does a status write assume the version it was computed from? (No.) | a change, two edits of the CR |
| `DeploymentDrift.cfg` | Is an edited Deployment always corrected? (No.) | an edit of the CR, a deletion, an edit |
| `ConversionDrift.cfg` | Is an edited CRD always corrected? (No.) | one edit of the conversion strategy |

The type invariants of the modules are proved (`TypeCorrect` of each, section 5); a run checks the one of
`TargetConfigReconciler`. The bound on the attempts of `UpdateStatus` is part of `OperatorStatus!TypeOK`, so it is proved and in no run. The other properties, in the words of their comments:

- Reconciler: `QuiescentReconciled` (no wake-up is lost), `QuiescentStatusHonest` (the status at rest is true),
  `OperandNeedsCertificates`, `WorksOnlyWhenManaged`, `Converges`, `StopsWhenUnmanaged`,
  `MissingDependencyReported`, `Settles` (the operator does not wake itself up for ever), `Idempotent` (once
  its work is done it writes nothing but its report, whether woken up, failing or restarted; the work being done is
  `Settled`: the operand is as desired, and whatever a sync in progress goes by is up to date).
- Status protocol: `LossesAreNoticed` (a condition that was overwritten has a wake-up on its way to its owner),
  `OwnersDecide` (a condition changes by its owner's apply, or by `UpdateOperatorStatus` storing what an older version
  held: a PUT of the current version loses nothing), `StatusSettles` (in the end the status is what all controllers want).
- Status applies: `OnlyOwn`, `WritesEnd`, `UnchangedIsKept` (what is as its manager wants it is not written again
  with another time, whoever applies what).
- Work queue: `QueueHoldsDirty` (the comment on the fields), `NobodyOversleeps` (while a worker sleeps every queued
  key has another on its way to it), `KeepsPromise` (the refinement, its fairness included),
  `FailuresAreRetried`, `StopIsHeard` (a shutdown leaves no worker asleep and none goes to sleep after it; when `Run` is back no
  key is processed), `StopsWhenTold`.
- Informer factory: `NobodyBlocksForNothing` (who is blocked in a call has a goroutine to wait for, as
  long as no context is cancelled or, in `Shutdown`, always), `NothingOutlivesShutdown`, `FailureHasCause`, `ShutdownReturns`, `WaitReturns`.
- Start-up: `CachesAreBeingFilled` (an informer a controller waits for is being run), `NeverMisled`, `WatchesWhenPresent`, `ComesToWork`, `LevelAtRest`, `VerbosityFollows`.
- Applies: `SkippedIsApplied`, `WebhookCAKept`, `AppliesAtomically` (the refinement), `Settles` (both objects right with the bundle issued last, and
  then no more writes).
- Static resources: `SuccessIsTrue`, `Converges` (for a Managed or Force CR every object that can be repaired comes to be as required, and
  the condition true; those that ARCHITECTURE.md gives an owner are owned by this CR), `LetsGo` (those objects go for good with the CR; the controller
  stops when it is Unmanaged). What the code does with a Removed CR, and with the owner of cluster-scoped objects, is
  left to findings 4 and 5: neither property demands it, nor forbids it.

### Bounds

In the reconciler's and the status protocol's modules the only bound is the budget: how often each kind of disturbance happens in a behaviour.
Counters (UID, versions, generation) grow only with disturbances, so they need no bound of their own.
Two disturbances let the second hit the reaction to the first, at every point of it; the pairs are
those that meet in the same data (two edits, two rotations, a rotation and a restart, a deleted CR and
the garbage collector, ...). The proofs of section 5 need no budget. Issuing of Secrets, readiness of
pods, re-creation of a deleted CR, resyncs and retries are not bounded. Garbage collection is, because a stale cached CR makes the operator
re-create what the collector removes, for as long as the event is not delivered. `LogLevel` has two values that map to
different arguments, `ManagementState` one that is Managed and one that is not; `Replicas` is 1 as in the
manifest.

`StatusProtocol` has one applier, as the operator has; three attempts in place of four, since two conflicts
take `UpdateStatus` through its choice between lister and live GET and the third makes it give up; and up to
two changes met by two other disturbances. A GET answered from an old watch cache counts as a disturbance (`stale`),
conflicts with the other writers are free. Undisturbed systems come to rest there, which is why deadlock is not checked
(the periodic resync is budgeted, unlike in the reconciler's runs, where it always is enabled).

`WorkQueue` and `InformerFactory` are finite without bounds. Three workers and three keys are the least in which a
signal can go to a sleeper while another worker is on its way and keys queue up; two contexts let a
Start with a fresh one meet a Shutdown, two callers let two Shutdowns meet. In `Startup` everything is finite,
too; the flag 0 is no level, 5 lies between two and above both levels of the CR, one of which is the
tolerated empty one. `ResourceApply`, `StaticResources` and `StatusApply` count disturbances (`MaxTrouble`),
creations of the CR (`MaxUid`) and rotations (`MaxCA`): three disturbances are one to have
something mended, one in the middle of that, and one more failure or restart; `StatusApply` needs a fourth for its old read. cert-manager's injections, garbage collection,
deletion of the CR, and conflicts are not counted. In `StaticResources` and `StatusApply` deadlock is not checked: without
a CR and with all disturbances used up nothing more happens there.

### Fairness

Disturbances, failures and restarts are never required.

- Reconciler: the worker (`Get`, `Sync`) runs, since `runWorker` loops over one goroutine that nothing else blocks;
  informers deliver; timers of the rate limiter and of the resync expire; cert-manager issues and pods become
  ready. Fairness on `Sync` is weak: the worker is never disabled for ever within a sync.
- `OperatorStatus`: the informer, the reconciler's worker and each applier's worker are weakly fair; resyncs are
  not needed. `StatusApply`: managers apply again and again, and the clock goes on, which is the bad case for
  `WritesEnd`.
- `WorkQueue`: every goroutine runs (weak), timers fire, a sync returns. Nobody has to add a key or to stop.
  That the promise's *strong* fairness follows is part of `KeepsPromise`.
- `InformerFactory`: goroutines run and the API server answers a List in the end. Nobody has to cancel a context,
  which is why `WaitReturns` and `ShutdownReturns` speak of cancelled contexts.
- `Startup`: `RunOperator` and the controllers' goroutines run, Lists are answered, the watch delivers.
- `ResourceApply`: syncs go on and come to an end (weak). Strong fairness for cert-manager's write *between
  two syncs*: they are five minutes apart (`ResyncEvery`), so its writes cannot fall into a sync for ever. Without
  this, the CRD's bundle could be written back by `manageCRD` each time.
- `StaticResources`: the controller runs at least once a minute (`ResyncEvery`), the watch delivers, garbage is
  collected.

## 4. Findings

1. **An edited Deployment can be accepted for good** (`DeploymentDriftCorrected`). `ApplyDeployment`
   recognises an edit by the generation only. A Deployment that was deleted and re-created starts at 1
   again; edited once it has the generation that is still recorded for its predecessor when the CR in the
   cache is stale or the status write failed. ARCHITECTURE.md:554: "Automatically corrects drift".
2. **A CRD without conversion webhook stops the operator** (`ConversionDriftCorrected`).
   `target_config_reconciler.go:392` checks the required CRD for nil, then dereferences the current one.
3. **A status write ignores the version it is given** (`WritesAssumeVersion`). `UpdateOperatorStatus`
   (`pkg/operator/operatorclient/interfaces.go:75`) uses it as the lower bound of another GET and stores a whole status
   computed from older data. `LG/operator/v1helpers/interfaces.go:25`: "assuming the given resource version". It
    is repaired in the end (`StatusSettles`).
4. **A Removed CR is still worked on, by the static resource controller.** `StaticResourceController.Sync`
   (`LG/operator/staticresourcecontroller/static_resource_controller.go:292`) returns early for Removed only if
   `management.IsOperatorNotRemovable()`, and nothing in this operator calls `SetOperatorNotRemovable`: ServiceAccount, RBAC and
   metrics Service are applied, and corrected, as for a Managed CR. `test/e2e/operator.go:89`: "should not reconcile when
   managementState is Removed" (the test looks at objects of the reconciler, which does stop); ARCHITECTURE.md:112-113:
   "ManagementState check ... If not "Managed", skip reconciliation". By the same word of ARCHITECTURE.md `Force`, which the reconciler leaves alone, should
   stop this controller, which works for it as `IsOperatorManaged` says. In the model `Works` has it as the code does, and
   the theorem `OneSyncIsEnough` of `StaticResourcesProofs` holds of a Removed CR too.
5. **ClusterRoles and ClusterRoleBindings are owned by the CR and go with it.** The asset function (`pkg/operator/starter.go:95-102`)
   appends the owner reference to every manifest, and since the CR is cluster-scoped the garbage collector follows it.
   ARCHITECTURE.md:387: "ClusterRoles and ClusterRoleBindings don't have owner references (cluster-scoped
   resources can't be owned by namespaced resources). These are managed directly by the operator." The
   theorem `EverythingOwned` says it of every object for any list of manifests.

The first three have a run that ends in a counterexample. Of the last two the theorems say what the code does. `Converges` and
`LetsGo` of `StaticResources` keep to what documents and code agree on: they do not ask that a Removed CR is worked on, that a
cluster-scoped object has an owner, or that it goes with the CR.

Also seen while modelling; the modules do what the code does, and no run is about it:

- After a second conflict `UpdateStatus` can go back to the lister known to be stale, against
  `LG/operator/v1helpers/helpers.go:187,194`.
- Degraded is set for the missing cert-manager only, against ARCHITECTURE.md:800; other errors go to
  `TargetConfigControllerDegraded`. Nothing sets Progressing (ARCHITECTURE.md:803).
- When the CR is absent at start, the informers of the static kinds are not added
  (`static_resource_controller.go:195,226`), and the controller depends on its one-minute resync for the life of the
  process. `WatchesWhenPresent` states the condition under which they are.
- Edited ports of a Service stay (`LG/operator/resource/resourceapply/core.go:164`), and a binding created with another
  role is never repaired, only reported (`rbac.go:64,107`). `StaticResources!Converges` excepts both.
- A manager that extracts its configuration gets everybody's conditions, the generated schema
  (`pkg/generated/applyconfiguration/internal/internal.go:40`) having atomic lists; the extract-modify-apply
  workflow its comment proposes would take the other conditions over. `ApplyOperatorStatus` does not use it (`OnlyOwn`).
- Without a CR the log level stays what it was (`LG/operator/loglevel/logging_controller.go`), the comment at lines 25-26 speaks of Normal
  as default.

## 5. What is proved

`TargetConfigReconcilerProofs`, for all `LogLevel`, `ManagementState`, `Replicas` and `Budgets` that
satisfy `ClusterAssumption` (there is a log level, Managed is a state, there is a replica), and any
number of disturbances:

| Theorem | Statement |
|---|---|
| `TypeCorrect` | `Spec => []TypeOK` |
| `Invariant` | `Spec => []IInv` |
| `Reconciles` | `Spec => []QuiescentReconciled` |
| `ReportsHonestly` | `Spec => []QuiescentStatusHonest` |
| `ManagedOnly` | `Spec => []WorksOnlyWhenManaged` |
| `CertificatesFirst` | `Spec => []OperandNeedsCertificates` |
| `SyncIsIdempotent` | `Spec => Idempotent` |
| `RestIsSettled` | at rest, with the unwatched objects as desired, the work is done (`Settled`) |
| `WorkStaysDone` | from `Settled` on, the controller alone stays there and writes only its report |
| `OneSyncIsEnough` | begun from whatever cluster, a sync that nobody interferes with and that ends with no error and no event waiting ends `Settled` |
| `MissingIsNotForgotten` | `Spec => MissingStaysReported` |
| `OneSyncReportsMissing` | without cert-manager, one sync ends with Degraded in the CR |
| `QueueIsPromised` | `Spec => QueueKeepsPromise` |

`QuiescentReconciled` speaks of rest only and is not inductive: it needs to know what the sync that came to
rest had read. `IInv` says, for every call of `sync()`, that *unless a wake-up is
pending* (`dirty`, or an event in `unseen`) what has been read so far is still what the caches hold, and what
has been applied so far is still what the cluster holds. Its parts follow the sync:
`CachesFollow`, `WorksOnlyWhenManaged`, `OwnerRead`, `SecretsRead`, `NetworkPolicyApplied`,
`ConfigMapApplied`, `DeploymentApplied`, `SyncApplied`, `IdleApplied`. The proof rests on one frame lemma:
every step but a delivery leaves a watched object alone or puts it into `unseen` (`Announced`,
proved for the cluster by `ClusterAnnounces` and for `sync()` by `SyncAnnounces`). A disturbance then
preserves every part (`ClusterInv`), a delivery sets `dirty` (`PendingInv`), a failing call ends in the
report (`FailInv`), and each call of `sync()` has a lemma of its own; `FinishInv` is the heart: a final
`UpdateStatus` of which no event is on its way changed nothing, so the CR held the finished status
already. `OperandNeedsCertificates` has an invariant of its own, `CertificatesWereIssued`.

The theorems from `SyncIsIdempotent` on are the parts of the liveness properties that need no fairness.

- `Settled` says that the operand is as desired *and* that the sync in progress cannot undo it: the caches, and the local variables the rest of
  the sync goes by, are up to date (`SyncInStep`). The first half alone is not preserved, as a sync that started from an older CR
  would apply that one. Each call of `sync()`, a failing call and a restart preserve `Settled` and write nothing
  but the report. Where `IInv` speaks of states "unless a wake-up is pending", `RestIsSettled` draws from it that an operator at rest lacks nothing for
  `Settled` but the objects it does not watch, which the resync looks after.
- `OneSyncIsEnough` follows one sync through its calls: an invariant of the sync (`ObjectsApplied`, indexed by the call it is at) says
  that the objects whose call has passed are as desired. The theorem's premise is `[][ControllerNext]_vars`, no steps
  of others; its conclusion is about the end of a sync that did not fail, which would have returned early, and that leaves no event waiting
  (`SyncComplete`): a sync that wrote to a watched object is followed by another one.
- `MissingReported` is preserved because a sync without cert-manager passes no further than its check (`Barred`), and whatever status it
  computes, from lister or live CR, has Degraded in it. For `OneSyncReportsMissing` the cache may lag behind the operator's own
  writes; `ReportInTime` says that it never knows of a report that the CR does not hold, so the comparison in `UpdateStatus` does not skip the write.
- `QueueIsPromised` maps `dirty` and `pc` to `CoalescingQueue`; the two steps that end the process, `Kill` and `ManageCRDPanics`, take the
  queue with them and are excepted by name.

`OperatorStatusProofs`, for all sets `Applier`, `MaxAttempts` and `Budgets` that satisfy
`StatusAssumption`, with inputs that start anywhere and a status that starts as anything:

| Theorem | Statement |
|---|---|
| `TypeCorrect` | `Spec => []TypeOK` |
| `Invariant` | `Spec => []IInv` |
| `NothingStaysLost` | `Spec => []LossesAreNoticed` |
| `CopiesAreVersions` | `Spec => []CopiesTrue` |
| `ConditionsHaveOwners` | `Spec => OwnersDecide` |

`LossesAreNoticed` speaks of controllers that sleep; `IInv` adds what their running calls have seen: the
value they write is the one they want, an apply that was found unnecessary still is
(`ApplierCurrent`, `ReportCurrent`), a call of `UpdateStatus` that returned left its condition in the CR
(`ReconcilerCurrent`), each unless the controller is due or a version is in flight; and the last version in flight
is the server's (`InformerFollows`). Every step but a delivery is `Quiet`: it announces a new version
or leaves the CR alone (`NextQuiet`); `ApplierFrame` and `SyncFrame` say what the steps of others do to
a controller, and `ReturnCurrent` is the heart: every way in which `UpdateStatus` returns.

For `ConditionsHaveOwners` it is not enough to look at the PUT: that a status computed from the current
version agrees with that version outside the reconciler's own conditions needs `CopiesTrue`: lister, events in flight and the base of a call are no newer
than the server's version, and a copy with the server's resourceVersion is the server's CR. Together with
`NothingStaysLost` it says of the whole-status PUT what can be lost and that it comes back.

The components' proofs. "Assumption" is the named ASSUME the theorems need, `Spec` or `FactorySpec` is the
specification the runs check.

| Module | Theorems | Assumption |
|---|---|---|
| `WorkQueueProofs` | `TypeCorrect`, `QueueIsExact` (`QueueHoldsDirty`), `KeysAreNotShared`, `EnoughAreAwake` (`NobodyOversleeps`), `StopReachesAll` (`StopIsHeard`), `ImplementsPromise` (`Spec => Promise!Safety`) | `WorkQueueAssumption`: `NoKey` is no key, the workers are finitely many |
| `InformerFactoryProofs` | `TypeCorrect`, `ShutdownIsFinal` (`NothingOutlivesShutdown`), `ErrorHasCause` (`FailureHasCause`), `BlockedForAReason` (`NobodyBlocksForNothing`) | none |
| `StartupProofs` | `TypeCorrect`, `NobodyIsMisled` (`NeverMisled`), `AllKindsAreWatched` (`WatchesWhenPresent`), `RestsAtLevel` (`LevelAtRest`), `NobodyWaitsInVain` (`CachesAreBeingFilled`), `FactoryIsUsed` (`UsesFactory`) | `StartupAssumption`, `LogLevelAssumption`: what the types are of, there is one context, flags are numbers, `NoCR` is no level |
| `ResourceApplyProofs` | `TypeCorrect`, `SkipIsSafe` (`SkippedIsApplied`), `CAIsKept` (`WebhookCAKept`), `AppliesAreAtomic` (`AppliesAtomically`), `PeaceLasts` (`NobodyFights`) | `ResourceApplyAssumption`: the bounds are numbers |
| `StaticResourcesProofs` | `TypeCorrect`, `SuccessMeansApplied` (`SuccessIsTrue`), `WritesOnce` (`WorkIsDoneOnce`), `OneSyncIsEnough`, `GoneForGood` (`NothingComesBack`), `EverythingOwned` (`EverythingIsOwned`) | `StaticResourcesAssumption`: a list of manifests, not empty |
| `StatusApplyProofs` | `TypeCorrect`, `WritesOwnOnly` (`OnlyOwn`), `NothingIsRewritten` (`UnchangedIsKept`) | `StatusApplyAssumption`: Available is no manager's condition, the clock has two instants |

Their inductive invariants, and why the property alone is not one:

- Work queue: `QueueHoldsDirty` needs to know that no two workers have one key (`OneWorkerPerKey`), else a
  `Done` would queue a key that is still processed; the two hold together. `ImplementsPromise` maps `Get` to `Start`, `Done` to `Finish`, every add to `Add` or a stutter, and
  uses both. `NobodyOversleeps` is inductive with the types; `SignalSends` is the heart: a signal makes one worker more be on its
  way whenever there is a sleeper left. `StopInv` ties the flag `shuttingDown` to where `Run` is, and says that the broadcast left
  nobody asleep; a worker that comes later finds the flag.
- Informer factory: a caller that is back from `wg.Wait()` saw no goroutine, and `Start` cannot add one,
  because the flag was set before the wait (`ShutdownInv`); each goroutine runs a started informer, one each
  (`OneGoroutinePerInformer`). `Draining`, a caller in `wg.Wait()` has a goroutine to wait for, holds because the one that ends last wakes all
  callers in the same step; `StartedRun`, what was started runs until a cancellation.
- Start-up: `Constructed` says that the reconciler and the log level controller wait for the CR's informer
  before they work, and that none works while `RunOperator` still builds; `Readable`, that a CR which was there from the start is
  found by the lister as well as by a GET; `Watches`, what has been added so far; `LevelRead`, that
  what is set or about to be set is what the cached CR asks for, unless an event waits. `SetFollows` is about the
  levels themselves. `NobodyWaitsInVain` needs `StartedRun` of the process: the factory is started after the last constructor, nothing is asked of it
  afterwards, and nobody shuts it down.
- Applies: what is cached satisfies what was required of it as long as its version is the current one, and so does
  what a write returned; what the last GET returned is still the object as long as its version is
  (`GotTrue`), and of a deleted object nothing is left, no CA bundle either (`AbsentTrue`): with these an update or creation that the API server accepts is
  the one step of `AtomicApply`, and a call that changes nothing is a stutter. `PeaceLasts`: once both objects are as required with the
  last bundle, neither operator nor cert-manager writes, which needs of a running sync that the bundle it read is that one (`Peaceful`).
- Static resources: `SuccessSoFar` is `SuccessIsTrue` at every point of a sync, `UidsGiven` says that an owner in
  hand is a UID some CR has had. `DoneSoFar` follows one sync over the manifests: those passed are right or refused, and an error is kept exactly
  if one was refused. `Settled` and `Forgotten` carry, besides the objects, what cache and running sync would still apply. `EverythingIsOwned` needs `UidsGiven`: an apply
  leaves the owner that was there, or one in hand.
- Status: `AppliesOwn`, a manager at its apply holds a configuration of its one condition. `SettledFor(m)` adds to a condition that is as
  wanted what the call of `m` in progress has read of it, else the call could store something else.

Only model-checked are the liveness properties, since fairness and ENABLED are beyond the prover, and the
findings 1 to 3, which are counterexamples. Of a liveness property the part that needs no fairness is proved where there is one:

| Liveness, checked by TLC | Proved of it |
|---|---|
| `Converges`, `Settles` (reconciler) | `OneSyncIsEnough`, `WorkStaysDone`, `SyncIsIdempotent`; the wake-ups by `Reconciles` |
| `MissingDependencyReported` | `OneSyncReportsMissing`, `MissingIsNotForgotten` |
| `StopsWhenUnmanaged` | `ManagedOnly` |
| `StatusSettles` | `NothingStaysLost`, `ConditionsHaveOwners` |
| `WritesEnd` | `NothingIsRewritten` |
| `KeepsPromise` | its safety part, `ImplementsPromise` |
| `FailuresAreRetried` | - |
| `StopsWhenTold` | `StopReachesAll` |
| `ShutdownReturns`, `WaitReturns` | `BlockedForAReason` |
| `ComesToWork` | `NobodyWaitsInVain` |
| `VerbosityFollows` | `RestsAtLevel` |
| `Settles` (`ResourceApply`) | `PeaceLasts`, `AppliesAreAtomic` |
| `Converges`, `LetsGo` (`StaticResources`) | `OneSyncIsEnough`, `WritesOnce`; `GoneForGood` |

## 6. Plan

Done: all modules of section 2 with their runs and proofs. What would add most from here:

1. `OperatorStatus` against an abstract specification in which each status write takes place at one instant, as
   `TargetConfigReconciler` has it, as a refinement checked by TLC and proved.
2. The Deployment's apply in the detail of `ResourceApply` (generation, `status.generations`), against one step, as
   `AtomicApply` has it for the webhook configurations and the CRD.
3. Rate limits and back-off in `WorkQueue`, with several failures of one key.

## 7. Not modelled, and why

- Clientset, fake clientset, listers, deep copies, registration and the other generated code: they
  pass calls on and keep no state; their effects (GETs, writes, cached reads) are actions of the modules. Generated setters and
  getters of apply configurations that nobody calls.
- `UpdateOperatorSpec`, `ApplyOperatorSpec`, `PatchOperatorStatus` of the operator client: no controller of this operator calls them.
- `ShutDownWithDrain`, metrics and the rate limiter's arithmetic in the work queue; options, resync periods
  and transforms of the informer factory: not used here, or no decision depends on them.
- Names, texts and images: DNS names in certificates, image substitution, `customCRDfixes`, arguments of the
  operand's container other than the log level.
- Deletion with `cascade=orphan`: owner references are followed by the garbage collector in all modules.
- Several lives of the process in `Startup` and `LogLevel`: nothing is kept from one to the next; restarts in
  the middle of work are in the other modules. Leader election is library-go's and outside of this code.
- The e2e tests and the test extension binary: no part of the operator.
