------------------------------- MODULE Startup -------------------------------
(***************************************************************************)
(* One life of the operator's process: RunOperator builds the clients, the *)
(* operator client and the three controllers, starts the informers and the *)
(* controllers, and returns when its context ends.  The informers it asks  *)
(* for are those of an InformerFactory; the generated factory of the CR    *)
(* and library-go's factories of the built-in kinds are taken as one, they *)
(* are started one right after the other.  Of what the controllers do with *)
(* the CR, their reads are modelled, and the whole sync of LogLevel.       *)
(***************************************************************************)
EXTENDS InformerFactory, LogLevel

CONSTANTS
    JobSetOperators,  \* the type of the CR
    StaticKind,       \* types of the static resource controller's manifests
    TargetKind,       \* types the reconciler watches, besides the CR
    Context           \* RunOperator's context

ASSUME StartupAssumption ==
    /\ Type = {JobSetOperators} \cup StaticKind \cup TargetKind
    /\ JobSetOperators \notin StaticKind \cup TargetKind
    /\ StaticKind # {}
    /\ Ctx = {Context}

Controller == {"LogLevel", "StaticResources", "TargetConfig"}

VARIABLES
    cr,        \* the CR's operatorLogLevel; NoCR if there is no CR
    crCached,  \* the same, in its informer's cache
    main,      \* where RunOperator is
    todo,      \* the informers the current constructor still asks for
    handlers,  \* the informers each controller has handlers at, and waits for
    ctl,       \* where each controller's goroutine is
    present,   \* history: the CR has existed since the process began
    failed,    \* history: a GET of AddKubeInformers failed
    misled     \* history: a controller found no CR although present

runVars  == <<main, todo, handlers>>
histVars == <<failed, misled>>
vars == <<factoryVars, cr, crCached, runVars, ctl, present, histVars, logVars>>

\* Faulty variant of After: the informers are started before the reconciler is
\* built.
AfterStartsEarly ==
    [clients |-> "operator", operator |-> "static", static |-> "start",
     start |-> "reconciler", reconciler |-> "loglevel", loglevel |-> "spawn",
     spawn |-> "wait"]

\* The order of RunOperator.
After ==
    [clients |-> "operator", operator |-> "static", static |-> "reconciler",
     reconciler |-> "loglevel", loglevel |-> "start", start |-> "spawn",
     spawn |-> "wait"]

Up == main \notin {"exited", "returned"}

Init ==
    /\ FactoryInit
    /\ LogInit
    /\ cr \in OperatorLogLevel \cup {NoCR}
    /\ crCached = NoCR
    /\ main = "clients"
    /\ todo = {}
    /\ handlers = [c \in Controller |-> {}]
    /\ ctl = [c \in Controller |-> "new"]
    /\ present = (cr # NoCR)
    /\ failed = FALSE
    /\ misled = FALSE

-----------------------------------------------------------------------------
(* RunOperator.                                                            *)

\* A client that cannot be built makes RunOperator return the error.
NewClients ==
    /\ main = "clients"
    /\ main' \in {After["clients"], "exited"}
    /\ UNCHANGED <<factoryVars, cr, crCached, todo, handlers, ctl, present, histVars, logVars>>

\* The JobSetOperatorClient, and NewStaticResourceController up to its
\* AddKubeInformers.
NewOperatorClient ==
    /\ main = "operator"
    /\ main' = After["operator"]
    /\ InformerFor(JobSetOperators)
    /\ handlers' = [handlers EXCEPT !["StaticResources"] = {JobSetOperators}]
    /\ todo' = StaticKind
    /\ UNCHANGED <<cr, crCached, ctl, present, histVars, logVars>>

\* GetOperatorState and GetObjectMeta: the lister once the informer has synced,
\* a GET before.
CRSeen == IF JobSetOperators \in synced THEN crCached ELSE cr

\* Faulty variant of CRFound: the lister is asked whether it has synced or not.
CRFoundByLister == crCached # NoCR

CRFound == CRSeen # NoCR

\* AddKubeInformers reads each manifest through RunOperator's asset function,
\* which needs the CR's metadata. It logs an error and goes on to the next.
AddKubeInformer(k) ==
    /\ main = "static"
    /\ k \in todo
    /\ \E fails \in IF JobSetOperators \in synced THEN {FALSE} ELSE BOOLEAN :
          /\ failed' = (failed \/ fails)
          /\ IF CRFound /\ ~fails
             THEN /\ InformerFor(k)
                  /\ handlers' = [handlers EXCEPT !["StaticResources"] = @ \cup {k}]
             ELSE UNCHANGED <<factoryVars, handlers>>
    /\ todo' = IF todo = {k} THEN {JobSetOperators} \cup TargetKind ELSE todo \ {k}
    /\ main' = IF todo = {k} THEN After["static"] ELSE main
    /\ UNCHANGED <<cr, crCached, ctl, present, misled, logVars>>

NewTargetConfigReconciler(k) ==
    /\ main = "reconciler"
    /\ k \in todo
    /\ InformerFor(k)
    /\ handlers' = [handlers EXCEPT !["TargetConfig"] = @ \cup {k}]
    /\ todo' = todo \ {k}
    /\ main' = IF todo = {k} THEN After["reconciler"] ELSE main
    /\ UNCHANGED <<cr, crCached, ctl, present, histVars, logVars>>

NewLoggingController ==
    /\ main = "loglevel"
    /\ main' = After["loglevel"]
    /\ handlers' = [handlers EXCEPT !["LogLevel"] = {JobSetOperators}]
    /\ UNCHANGED <<factoryVars, cr, crCached, todo, ctl, present, histVars, logVars>>

StartInformers ==
    /\ main = "start"
    /\ main' = After["start"]
    /\ StartWithContext(Context)
    /\ UNCHANGED <<cr, crCached, todo, handlers, ctl, present, histVars, logVars>>

RunControllers ==
    /\ main = "spawn"
    /\ main' = After["spawn"]
    /\ ctl' = [c \in Controller |-> "waiting"]
    /\ UNCHANGED <<factoryVars, cr, crCached, todo, handlers, present, histVars, logVars>>

\* RunOperator waits for nobody, and its return ends the process.
Return ==
    /\ main = "wait"
    /\ Context \in cancelled
    /\ main' = "returned"
    /\ UNCHANGED <<factoryVars, cr, crCached, todo, handlers, ctl, present, histVars, logVars>>

-----------------------------------------------------------------------------
(* A controller.                                                           *)

\* Faulty variant of CachesSynced: the workers start without waiting.
WorkAtOnce(c) ==
    /\ Up
    /\ ctl[c] = "waiting"
    /\ ctl' = [ctl EXCEPT ![c] = "working"]
    /\ UNCHANGED <<factoryVars, cr, crCached, runVars, present, histVars, logVars>>

CachesSynced(c) ==
    /\ Up
    /\ ctl[c] = "waiting"
    /\ handlers[c] \subseteq synced
    /\ ctl' = [ctl EXCEPT ![c] = "working"]
    /\ UNCHANGED <<factoryVars, cr, crCached, runVars, present, histVars, logVars>>

\* Ten minutes are over: klog.Exit, unless the controller was told to stop.
SyncTimesOut(c) ==
    /\ Up
    /\ ctl[c] = "waiting"
    /\ ~(handlers[c] \subseteq synced)
    /\ Context \notin cancelled
    /\ main' = "exited"
    /\ UNCHANGED <<factoryVars, cr, crCached, todo, handlers, ctl, present, histVars, logVars>>

\* Every sync begins with GetOperatorState; the reconciler asks the lister for
\* the CR afterwards.
Read(c) ==
    /\ Up
    /\ ctl[c] = "working"
    /\ LET found == CRFound /\ (c = "TargetConfig" => crCached # NoCR)
       IN misled' = (misled \/ (present /\ ~found))
    /\ UNCHANGED <<factoryVars, cr, crCached, runVars, ctl, present, failed, logVars>>

\* The log level controller's sync in two steps.
ReadLevel ==
    /\ Up
    /\ ctl["LogLevel"] = "working"
    /\ ReadLogLevel(CRSeen)
    /\ misled' = (misled \/ (present /\ ~CRFound))
    /\ UNCHANGED <<factoryVars, cr, crCached, runVars, ctl, present, failed>>

SetLevel ==
    /\ Up
    /\ SetLogLevel
    /\ UNCHANGED <<factoryVars, cr, crCached, runVars, ctl, present, histVars>>

\* A worker that is told to stop finishes its sync.
Leave(c) ==
    /\ Up
    /\ ctl[c] \in {"waiting", "working"}
    /\ Context \in cancelled
    /\ c = "LogLevel" => desired = NoCR
    /\ ctl' = [ctl EXCEPT ![c] = "left"]
    /\ UNCHANGED <<factoryVars, cr, crCached, runVars, present, histVars, logVars>>

-----------------------------------------------------------------------------
(* The informers' goroutines, and the world outside.                       *)

ListObjects(t) ==
    /\ Up
    /\ List(t)
    /\ IF t = JobSetOperators /\ t \notin synced /\ cr # NoCR
       THEN crCached' = cr /\ Enqueue
       ELSE UNCHANGED <<crCached, logVars>>
    /\ UNCHANGED <<cr, runVars, ctl, present, histVars>>

\* Faulty variant of WatchCR: an event that comes while the controller is at
\* work is dropped.
WatchCRAtRest ==
    /\ Up
    /\ JobSetOperators \in synced
    /\ \E g \in wg : g[1] = JobSetOperators
    /\ crCached # cr
    /\ crCached' = cr
    /\ IF desired = NoCR THEN Enqueue ELSE UNCHANGED logVars
    /\ UNCHANGED <<factoryVars, cr, runVars, ctl, present, histVars>>

WatchCR ==
    /\ Up
    /\ JobSetOperators \in synced
    /\ \E g \in wg : g[1] = JobSetOperators
    /\ crCached # cr
    /\ crCached' = cr
    /\ Enqueue
    /\ UNCHANGED <<factoryVars, cr, runVars, ctl, present, histVars>>

EndInformer(g) ==
    /\ Up
    /\ End(g)
    /\ UNCHANGED <<cr, crCached, runVars, ctl, present, histVars, logVars>>

\* The leader lease is lost, or the process is asked to terminate.
Stop ==
    /\ Up
    /\ Cancel(Context)
    /\ UNCHANGED <<cr, crCached, runVars, ctl, present, histVars, logVars>>

\* The CR is created, edited or deleted.
ChangeCR ==
    /\ cr' \in (OperatorLogLevel \cup {NoCR}) \ {cr}
    /\ present' = (present /\ cr' # NoCR)
    /\ UNCHANGED <<factoryVars, crCached, runVars, ctl, histVars, logVars>>

RunOperator ==
    \/ NewClients \/ NewOperatorClient \/ NewLoggingController
    \/ \E k \in StaticKind : AddKubeInformer(k)
    \/ \E k \in Type : NewTargetConfigReconciler(k)
    \/ StartInformers \/ RunControllers

Next ==
    \/ RunOperator
    \/ Return
    \/ \E c \in Controller : CachesSynced(c) \/ SyncTimesOut(c) \/ Leave(c)
    \/ \E c \in Controller \ {"LogLevel"} : Read(c)
    \/ ReadLevel \/ SetLevel
    \/ \E t \in Type : ListObjects(t)
    \/ \E g \in wg : EndInformer(g)
    \/ WatchCR
    \/ Stop
    \/ ChangeCR

\* Goroutines run, the API server answers a List in the end and its watch
\* delivers.
Fairness ==
    /\ WF_vars(RunOperator)
    /\ \A t \in Type : WF_vars(ListObjects(t))
    /\ \A c \in Controller : WF_vars(CachesSynced(c))
    /\ WF_vars(WatchCR) /\ WF_vars(ReadLevel \/ SetLevel)

Spec == Init /\ [][Next]_vars /\ Fairness

-----------------------------------------------------------------------------
(* Properties.                                                             *)

TypeOK ==
    /\ FactoryTypeOK
    /\ LogTypeOK
    /\ {cr, crCached} \subseteq OperatorLogLevel \cup {NoCR}
    /\ {present, failed, misled} \subseteq BOOLEAN
    /\ main \in DOMAIN After \cup {"wait", "exited", "returned"}
    /\ todo \in SUBSET Type
    /\ handlers \in [Controller -> SUBSET informers]
    /\ ctl \in [Controller -> {"new", "waiting", "working", "left"}]

\* No controller takes a cache that is not filled yet for a missing CR, neither
\* through the operator client nor through the lister.
NeverMisled == ~misled

\* When the CR exists from the start and no GET fails, the static resource
\* controller watches every kind it applies.
WatchesWhenPresent ==
    ctl["StaticResources"] = "working" /\ present /\ ~failed
        => StaticKind \subseteq handlers["StaticResources"]

\* A controller never waits for a cache that nobody fills: until the context
\* ends, each informer it waits for is run by a goroutine.
CachesAreBeingFilled ==
    \A c \in Controller : ctl[c] = "waiting" /\ Context \notin cancelled =>
        \A t \in handlers[c] \ synced : <<t, Context>> \in wg

\* RunOperator uses the informers as their factory lets it.
UsesFactory == FactoryInit /\ [][FactoryNext]_factoryVars

\* Every informer a controller waits for was started: the operator comes to
\* work, unless it is stopped or the caches take too long.
ComesToWork ==
    <>(cancelled # {} \/ ~Up \/ \A c \in Controller : ctl[c] = "working")

\* A log level controller with nothing to do logs at the level of the CR in the
\* cache, also when the CR was edited between its read and its write.
LevelAtRest ==
    ctl["LogLevel"] = "working" /\ ~due /\ desired = NoCR /\ crCached # NoCR
        => Follows(crCached)

\* When the CR stays and the operator is left to run, its verbosity comes to be
\* what the CR asks for, whatever flag it was started with.
VerbosityFollows ==
    \A l \in OperatorLogLevel :
        <>[](cr = l /\ Up /\ cancelled = {}) => <>[](Follows(l))
=============================================================================
