---------------------------- MODULE StartupProofs ----------------------------
(***************************************************************************)
(* Whatever the kinds of manifests and of watched objects, and whenever    *)
(* the CR comes and goes, no controller is misled by a cache that is not   *)
(* filled yet, and the log level controller rests at the CR's level.       *)
(***************************************************************************)
EXTENDS Startup, TLAPS

\* A goroutine runs an informer that was started.
Goroutines == \A g \in wg : g[1] \in startedInformers

\* The CR that has been there from the start is found, by a GET and in the cache.
Readable ==
    present => /\ cr # NoCR
               /\ JobSetOperators \in synced => crCached # NoCR

\* A controller that waits for its caches waits for that of the CR, too.
Constructed ==
    /\ main = "reconciler" => JobSetOperators \in todo \cup handlers["TargetConfig"]
    /\ main \in {"loglevel", "start", "spawn", "wait"} =>
           JobSetOperators \in handlers["TargetConfig"]
    /\ main \in {"start", "spawn", "wait"} => JobSetOperators \in handlers["LogLevel"]
    /\ \A c \in Controller : ctl[c] # "new" =>
           /\ main \in {"wait", "exited", "returned"}
           /\ c # "StaticResources" => JobSetOperators \in handlers[c]
    /\ \A c \in Controller : ctl[c] = "working" => handlers[c] \subseteq synced

\* The static resource controller has got handlers at the kinds it is done with.
Watches ==
    present /\ ~failed =>
        /\ main = "static" => StaticKind \ todo \subseteq handlers["StaticResources"]
        /\ \/ main \in {"reconciler", "loglevel", "start", "spawn", "wait"}
           \/ ctl["StaticResources"] # "new"
           => StaticKind \subseteq handlers["StaticResources"]

\* Unless the CR's event still waits, what is or will be set is what it asks for.
LevelRead ==
    ~due /\ crCached # NoCR =>
        IF desired = NoCR THEN Follows(crCached) ELSE desired = DesiredLogLevel(crCached)

IInv == TypeOK /\ Goroutines /\ NeverMisled /\ Readable /\ Constructed /\ Watches /\ LevelRead

-----------------------------------------------------------------------------
(* Operators.                                                              *)

LEMMA AfterIs ==
    /\ DOMAIN After = {"clients", "operator", "static", "reconciler", "loglevel", "start",
                       "spawn"}
    /\ After["clients"] = "operator" /\ After["operator"] = "static"
    /\ After["static"] = "reconciler" /\ After["reconciler"] = "loglevel"
    /\ After["loglevel"] = "start" /\ After["start"] = "spawn" /\ After["spawn"] = "wait"
  BY DEF After

LEMMA Types ==
    /\ JobSetOperators \in Type /\ StaticKind \subseteq Type /\ TargetKind \subseteq Type
    /\ Context \in Ctx
  BY StartupAssumption

LEMMA VerbosityIs ==
    /\ DOMAIN Verbosity = {"Normal", "Debug", "Trace", "TraceAll"}
    /\ Verbosity["Normal"] = 2 /\ Verbosity["Debug"] = 4
    /\ Verbosity["Trace"] = 6 /\ Verbosity["TraceAll"] = 8
  BY DEF Verbosity

\* The verbosity of a level counts as this level: no other that is enabled exceeds it.
LEMMA LevelOf ==
    ASSUME NEW l \in DOMAIN Verbosity
    PROVE  LET v == Verbosity[l]
           IN (CHOOSE x \in DOMAIN Verbosity :
                  /\ v >= Verbosity[x]
                  /\ \A k \in DOMAIN Verbosity : v >= Verbosity[k] => Verbosity[k] <= Verbosity[x])
              = l
  <1> DEFINE v == Verbosity[l]
             Highest(x) == /\ v >= Verbosity[x]
                           /\ \A k \in DOMAIN Verbosity :
                                  v >= Verbosity[k] => Verbosity[k] <= Verbosity[x]
  <1>1. Highest(l)
    BY VerbosityIs
  <1>2. \A x \in DOMAIN Verbosity : Highest(x) => x = l
    <2>1. SUFFICES ASSUME NEW x \in DOMAIN Verbosity, Highest(x) PROVE x = l
      OBVIOUS
    <2>2. Verbosity[x] <= Verbosity[l] /\ Verbosity[l] <= Verbosity[x]
      BY <2>1, VerbosityIs
    <2>3. QED
      BY <2>2, VerbosityIs
  <1> HIDE DEF Highest
  <1>3. (CHOOSE x \in DOMAIN Verbosity : Highest(x)) = l
    BY <1>1, <1>2
  <1>4. QED
    BY <1>3 DEF Highest

LEMMA DesiredType ==
    /\ \A x : DesiredLogLevel(x) \in DOMAIN Verbosity /\ DesiredLogLevel(x) # NoCR
    /\ NoCR \notin DOMAIN Verbosity
    /\ \A x \in DOMAIN Verbosity : DesiredLogLevel(x) = x
  BY LogLevelAssumption, VerbosityIs DEF DesiredLogLevel

\* A sync ends at the level it had read.
LEMMA SetFollows ==
    ASSUME LogTypeOK, SetLogLevel
    PROVE  /\ LogTypeOK'
           /\ \A x : desired = DesiredLogLevel(x) => Follows(x)'
  <1>1. desired \in DOMAIN Verbosity
    BY DEF LogTypeOK, SetLogLevel
  <1>2. CASE ~Unknown /\ CurrentLogLevel = desired
    <2>1. UNCHANGED verbosity
      BY <1>2 DEF SetLogLevel
    <2>2. CurrentLogLevel' = CurrentLogLevel /\ Unknown' = Unknown
      BY <2>1 DEF CurrentLogLevel, Unknown, Enabled
    <2>3. QED
      BY <1>2, <2>1, <2>2 DEF Follows, LogTypeOK, SetLogLevel, DesiredLogLevel
  <1>3. CASE ~(~Unknown /\ CurrentLogLevel = desired)
    <2>1. verbosity' = Verbosity[desired] /\ verbosity' \in Nat
      BY <1>1, <1>3, VerbosityIs DEF SetLogLevel
    <2>2. ~Unknown'
      BY <1>1, <2>1, VerbosityIs DEF Unknown, Enabled
    <2>3. CurrentLogLevel' = desired
      BY <1>1, <2>1, <2>2, LevelOf DEF CurrentLogLevel, Enabled
    <2>4. QED
      BY <1>1, <2>1, <2>2, <2>3 DEF Follows, LogTypeOK, SetLogLevel, DesiredLogLevel
  <1>4. QED
    BY <1>2, <1>3

LEMMA InitInv == Init => IInv
  <1> SUFFICES ASSUME Init PROVE IInv
    OBVIOUS
  <1>1. FactoryTypeOK
    BY DEF Init, FactoryInit, FactoryTypeOK, NoCall
  <1>2. LogTypeOK
    BY LogLevelAssumption DEF Init, LogInit, LogTypeOK
  <1>3. QED
    BY <1>1, <1>2, AfterIs DEF Init, FactoryInit, IInv, TypeOK, Goroutines, NeverMisled, Readable,
       Constructed, Watches, LevelRead, Controller
-----------------------------------------------------------------------------
(* The factory.                                                            *)

LEMMA InformerForType ==
    ASSUME FactoryTypeOK, Goroutines, NEW t \in Type, InformerFor(t)
    PROVE  FactoryTypeOK' /\ Goroutines' /\ synced' = synced /\ informers' = informers \cup {t}
  BY DEF InformerFor, FactoryTypeOK, Goroutines

LEMMA StartType ==
    ASSUME FactoryTypeOK, Goroutines, NEW c \in Ctx, StartWithContext(c)
    PROVE  FactoryTypeOK' /\ Goroutines' /\ synced' = synced /\ informers' = informers
  <1>1. wg' \in SUBSET (Type \X Ctx) /\ Goroutines'
    BY DEF StartWithContext, FactoryTypeOK, Goroutines
  <1>2. startedInformers \subseteq startedInformers' /\ startedInformers' \in SUBSET informers'
    BY DEF StartWithContext, FactoryTypeOK
  <1>3. QED
    BY <1>1, <1>2 DEF StartWithContext, FactoryTypeOK

LEMMA ListType ==
    ASSUME FactoryTypeOK, Goroutines, NEW t \in Type, List(t)
    PROVE  FactoryTypeOK' /\ Goroutines' /\ synced' = synced \cup {t} /\ informers' = informers
  BY DEF List, FactoryTypeOK, Goroutines

LEMMA EndType ==
    ASSUME FactoryTypeOK, Goroutines, NEW g \in wg, End(g)
    PROVE  FactoryTypeOK' /\ Goroutines' /\ synced' = synced /\ informers' = informers
  <1>1. [op |-> "woken"] \in Shutting /\ [op |-> "woken"].op = "woken"
    BY DEF Shutting
  <1>2. call' \in [Caller -> {NoCall} \cup SyncCall \cup Synced \cup Shutting]
    BY <1>1 DEF End, FactoryTypeOK
  <1>3. \A p \in Caller : call'[p] = call[p] \/ call'[p] = [op |-> "woken"]
    BY DEF End
  <1>4. \A p \in Caller : call'[p].op = "waiting" => call'[p].on \subseteq startedInformers'
    BY <1>1, <1>3 DEF End, FactoryTypeOK
  <1>5. QED
    BY <1>2, <1>4 DEF End, FactoryTypeOK, Goroutines

LEMMA CancelType ==
    ASSUME FactoryTypeOK, Goroutines, NEW c \in Ctx, Cancel(c)
    PROVE  FactoryTypeOK' /\ Goroutines' /\ synced' = synced /\ informers' = informers
  BY DEF Cancel, FactoryTypeOK, Goroutines

LEMMA FactoryFrame ==
    ASSUME FactoryTypeOK, Goroutines, UNCHANGED factoryVars
    PROVE  FactoryTypeOK' /\ Goroutines' /\ synced' = synced /\ informers' = informers
  BY DEF factoryVars, FactoryTypeOK, Goroutines

-----------------------------------------------------------------------------
(* RunOperator.                                                            *)

\* As long as it builds, no controller runs and none has read anything.
LEMMA NoneRuns ==
    ASSUME IInv, main \notin {"wait", "exited", "returned"}
    PROVE  \A c \in Controller : ctl[c] = "new"
  BY DEF IInv, Constructed

LEMMA FoundWhenPresent == IInv /\ present => CRFound
  BY DEF IInv, Readable, CRFound, CRSeen

\* The log level controller is not concerned.
LEMMA LogFrame ==
    ASSUME IInv, UNCHANGED logVars, UNCHANGED crCached
    PROVE  LogTypeOK' /\ LevelRead'
  BY DEF IInv, TypeOK, LogTypeOK, LevelRead, logVars, Follows, CurrentLogLevel, Unknown,
     Enabled

LEMMA NewClientsInv ==
    ASSUME IInv, NewClients
    PROVE  IInv'
  <1> USE DEF IInv, NewClients
  <1>1. FactoryTypeOK' /\ Goroutines' /\ synced' = synced /\ informers' = informers
    BY FactoryFrame DEF TypeOK
  <1>2. main' \in {"operator", "exited"} /\ \A c \in Controller : ctl[c] = "new"
    BY AfterIs, NoneRuns
  <1>3. TypeOK'
    BY <1>1, <1>2, AfterIs, LogFrame DEF TypeOK, histVars
  <1>4. Constructed' /\ Watches'
    BY <1>2 DEF Constructed, Watches, Controller
  <1>5. NeverMisled' /\ Readable' /\ LevelRead'
    BY <1>1, LogFrame DEF NeverMisled, Readable, histVars
  <1>6. QED
    BY <1>1, <1>3, <1>4, <1>5

LEMMA NewOperatorClientInv ==
    ASSUME IInv, NewOperatorClient
    PROVE  IInv'
  <1> USE DEF IInv, NewOperatorClient
  <1>1. /\ FactoryTypeOK' /\ Goroutines' /\ synced' = synced
        /\ informers' = informers \cup {JobSetOperators}
    BY InformerForType, Types DEF TypeOK
  <1>2. main' = "static" /\ \A c \in Controller : ctl[c] = "new"
    BY AfterIs, NoneRuns
  <1>3. TypeOK'
    BY <1>1, <1>2, AfterIs, Types, LogFrame DEF TypeOK, histVars, Controller
  <1>4. Constructed' /\ Watches'
    BY <1>2 DEF Constructed, Watches, Controller
  <1>5. NeverMisled' /\ Readable' /\ LevelRead'
    BY <1>1, LogFrame DEF NeverMisled, Readable, histVars
  <1>6. QED
    BY <1>1, <1>3, <1>4, <1>5

LEMMA AddKubeInformerInv ==
    ASSUME IInv, NEW k \in StaticKind, AddKubeInformer(k)
    PROVE  IInv'
  <1> USE DEF IInv, AddKubeInformer
  <1>1. /\ FactoryTypeOK' /\ Goroutines' /\ synced' = synced /\ informers \subseteq informers'
        /\ \/ UNCHANGED handlers
           \/ /\ handlers' = [handlers EXCEPT !["StaticResources"] = @ \cup {k}]
              /\ k \in informers'
    BY InformerForType, FactoryFrame, Types DEF TypeOK
  <1>2. /\ todo = {k} => main' = "reconciler" /\ todo' = {JobSetOperators} \cup TargetKind
        /\ todo # {k} => main' = "static" /\ todo' = todo \ {k}
        /\ \A c \in Controller : ctl[c] = "new"
    BY AfterIs, NoneRuns
  <1>3. handlers' \in [Controller -> SUBSET informers']
    BY <1>1 DEF TypeOK, Controller
  <1>4. TypeOK'
    BY <1>1, <1>2, <1>3, AfterIs, Types, LogFrame DEF TypeOK, Controller
  <1>5. present' /\ ~failed' =>
            /\ present /\ ~failed
            /\ handlers' = [handlers EXCEPT !["StaticResources"] = @ \cup {k}]
    BY FoundWhenPresent DEF TypeOK
  <1>6. Constructed'
    BY <1>2 DEF Constructed, Controller
  <1>7. Watches'
    <2>1. SUFFICES ASSUME present', ~failed'
                   PROVE  StaticKind \ (IF todo = {k} THEN {} ELSE todo')
                              \subseteq handlers'["StaticResources"]
      BY <1>2 DEF Watches, Controller
    <2>2. handlers'["StaticResources"] = handlers["StaticResources"] \cup {k}
      BY <2>1, <1>5 DEF TypeOK, Controller
    <2>3. StaticKind \ todo \subseteq handlers["StaticResources"]
      BY <2>1, <1>5 DEF Watches
    <2>4. QED
      BY <1>2, <2>2, <2>3
  <1>8. NeverMisled' /\ Readable' /\ LevelRead'
    BY <1>1, LogFrame DEF NeverMisled, Readable
  <1>9. QED
    BY <1>1, <1>4, <1>6, <1>7, <1>8

LEMMA NewTargetConfigReconcilerInv ==
    ASSUME IInv, NEW k \in Type, NewTargetConfigReconciler(k)
    PROVE  IInv'
  <1> USE DEF IInv, NewTargetConfigReconciler
  <1>1. FactoryTypeOK' /\ Goroutines' /\ synced' = synced /\ informers' = informers \cup {k}
    BY InformerForType DEF TypeOK
  <1>2. /\ main' = IF todo = {k} THEN "loglevel" ELSE "reconciler"
        /\ \A c \in Controller : ctl[c] = "new"
    BY AfterIs, NoneRuns
  <1>3. /\ handlers' \in [Controller -> SUBSET informers']
        /\ handlers'["TargetConfig"] = handlers["TargetConfig"] \cup {k}
        /\ handlers'["StaticResources"] = handlers["StaticResources"]
    BY <1>1 DEF TypeOK, Controller
  <1>4. TypeOK'
    BY <1>1, <1>2, <1>3, AfterIs, LogFrame DEF TypeOK, histVars
  <1>5. Constructed'
    BY <1>2, <1>3 DEF Constructed, Controller
  <1>6. Watches'
    BY <1>2, <1>3 DEF Watches, Controller, histVars
  <1>7. NeverMisled' /\ Readable' /\ LevelRead'
    BY <1>1, LogFrame DEF NeverMisled, Readable, histVars
  <1>8. QED
    BY <1>1, <1>4, <1>5, <1>6, <1>7

LEMMA NewLoggingControllerInv ==
    ASSUME IInv, NewLoggingController
    PROVE  IInv'
  <1> USE DEF IInv, NewLoggingController
  <1>1. FactoryTypeOK' /\ Goroutines' /\ synced' = synced /\ informers' = informers
    BY FactoryFrame DEF TypeOK
  <1>2. main' = "start" /\ \A c \in Controller : ctl[c] = "new"
    BY AfterIs, NoneRuns
  <1>3. JobSetOperators \in handlers["TargetConfig"] /\ JobSetOperators \in informers
    BY DEF Constructed, TypeOK, Controller
  <1>4. /\ handlers' \in [Controller -> SUBSET informers']
        /\ handlers'["TargetConfig"] = handlers["TargetConfig"]
        /\ handlers'["LogLevel"] = {JobSetOperators}
        /\ handlers'["StaticResources"] = handlers["StaticResources"]
    BY <1>1, <1>3 DEF TypeOK, Controller
  <1>5. TypeOK'
    BY <1>1, <1>2, <1>4, AfterIs, LogFrame DEF TypeOK, histVars
  <1>6. Constructed' /\ Watches'
    BY <1>2, <1>3, <1>4 DEF Constructed, Watches, Controller, histVars
  <1>7. NeverMisled' /\ Readable' /\ LevelRead'
    BY <1>1, LogFrame DEF NeverMisled, Readable, histVars
  <1>8. QED
    BY <1>1, <1>5, <1>6, <1>7

LEMMA StartInformersInv ==
    ASSUME IInv, StartInformers
    PROVE  IInv'
  <1> USE DEF IInv, StartInformers
  <1>1. FactoryTypeOK' /\ Goroutines' /\ synced' = synced /\ informers' = informers
    BY StartType, Types DEF TypeOK
  <1>2. main' = "spawn" /\ \A c \in Controller : ctl[c] = "new"
    BY AfterIs, NoneRuns
  <1>3. TypeOK'
    BY <1>1, <1>2, AfterIs, LogFrame DEF TypeOK, histVars
  <1>4. Constructed' /\ Watches'
    BY <1>2 DEF Constructed, Watches, Controller, histVars
  <1>5. NeverMisled' /\ Readable' /\ LevelRead'
    BY <1>1, LogFrame DEF NeverMisled, Readable, histVars
  <1>6. QED
    BY <1>1, <1>3, <1>4, <1>5

LEMMA RunControllersInv ==
    ASSUME IInv, RunControllers
    PROVE  IInv'
  <1> USE DEF IInv, RunControllers
  <1>1. FactoryTypeOK' /\ Goroutines' /\ synced' = synced /\ informers' = informers
    BY FactoryFrame DEF TypeOK
  <1>2. main' = "wait" /\ \A c \in Controller : ctl'[c] = "waiting"
    BY AfterIs
  <1>3. TypeOK'
    BY <1>1, <1>2, AfterIs, LogFrame DEF TypeOK, histVars
  <1>4. Constructed' /\ Watches'
    BY <1>2 DEF Constructed, Watches, Controller, histVars
  <1>5. NeverMisled' /\ Readable' /\ LevelRead'
    BY <1>1, LogFrame DEF NeverMisled, Readable, histVars
  <1>6. QED
    BY <1>1, <1>3, <1>4, <1>5

LEMMA RunOperatorInv == IInv /\ RunOperator => IInv'
  BY NewClientsInv, NewOperatorClientInv, AddKubeInformerInv, NewTargetConfigReconcilerInv,
     NewLoggingControllerInv, StartInformersInv, RunControllersInv DEF RunOperator

LEMMA EndOfProcessInv ==
    ASSUME IInv, Return \/ \E c \in Controller : SyncTimesOut(c)
    PROVE  IInv'
  <1> USE DEF IInv, Return, SyncTimesOut
  <1>1. FactoryTypeOK' /\ Goroutines' /\ synced' = synced /\ informers' = informers
    BY FactoryFrame DEF TypeOK
  <1>2. /\ main' \in {"exited", "returned"} /\ UNCHANGED <<ctl, handlers, todo, present, histVars>>
        /\ UNCHANGED <<logVars, cr, crCached>>
    OBVIOUS
  <1>3. TypeOK'
    BY <1>1, <1>2, LogFrame DEF TypeOK, histVars
  <1>4. Constructed' /\ Watches'
    BY <1>1, <1>2 DEF Constructed, Watches, Controller, histVars
  <1>5. NeverMisled' /\ Readable' /\ LevelRead'
    BY <1>1, <1>2, LogFrame DEF NeverMisled, Readable, histVars
  <1>6. QED
    BY <1>1, <1>3, <1>4, <1>5
-----------------------------------------------------------------------------
(* The controllers.                                                        *)

\* A controller that works has its caches; that of the CR is one of them.
LEMMA CacheFilled ==
    ASSUME IInv, NEW c \in Controller, ctl[c] = "working", c # "StaticResources"
    PROVE  JobSetOperators \in synced
  BY DEF IInv, Constructed

LEMMA ControllerInv ==
    ASSUME IInv, NEW c \in Controller, CachesSynced(c) \/ Leave(c)
    PROVE  IInv'
  <1> USE DEF IInv, CachesSynced, Leave
  <1>1. FactoryTypeOK' /\ Goroutines' /\ synced' = synced /\ informers' = informers
    BY FactoryFrame DEF TypeOK
  <1>2. /\ UNCHANGED <<runVars, cr, crCached, present, histVars, logVars>>
        /\ ctl[c] # "new"
        /\ ctl' \in [Controller -> {"new", "waiting", "working", "left"}]
        /\ ctl'[c] # "new" /\ (ctl'[c] = "working" => handlers[c] \subseteq synced)
        /\ \A d \in Controller : d # c => ctl'[d] = ctl[d]
    BY DEF TypeOK
  <1>3. TypeOK'
    BY <1>1, <1>2, LogFrame DEF TypeOK, histVars, runVars
  <1>4. Constructed' /\ Watches'
    BY <1>1, <1>2 DEF Constructed, Watches, Controller, histVars, runVars
  <1>5. NeverMisled' /\ Readable' /\ LevelRead'
    BY <1>1, <1>2, LogFrame DEF NeverMisled, Readable, histVars
  <1>6. QED
    BY <1>1, <1>3, <1>4, <1>5

\* All that a sync of another controller changes is the history.
LEMMA ReadInv ==
    ASSUME IInv, NEW c \in Controller, c # "LogLevel", Read(c)
    PROVE  IInv'
  <1> USE DEF IInv, Read
  <1>1. FactoryTypeOK' /\ Goroutines' /\ synced' = synced /\ informers' = informers
    BY FactoryFrame DEF TypeOK
  <1>2. ~misled'
    BY FoundWhenPresent, CacheFilled DEF NeverMisled, Readable, Controller
  <1>3. TypeOK'
    BY <1>1, <1>2, LogFrame DEF TypeOK, runVars
  <1>4. Constructed' /\ Watches'
    BY <1>1 DEF Constructed, Watches, Controller, runVars
  <1>5. NeverMisled' /\ Readable' /\ LevelRead'
    BY <1>1, <1>2, LogFrame DEF NeverMisled, Readable
  <1>6. QED
    BY <1>1, <1>3, <1>4, <1>5

LEMMA ReadLevelInv ==
    ASSUME IInv, ReadLevel
    PROVE  IInv'
  <1> USE DEF IInv, ReadLevel
  <1>1. FactoryTypeOK' /\ Goroutines' /\ synced' = synced /\ informers' = informers
    BY FactoryFrame DEF TypeOK
  <1>2. ~misled'
    BY FoundWhenPresent DEF NeverMisled
  <1>3. CRSeen = crCached
    BY CacheFilled DEF CRSeen, Controller
  <1>4. LogTypeOK' /\ LevelRead'
    BY <1>3, DesiredType DEF ReadLogLevel, LogTypeOK, TypeOK, LevelRead
  <1>5. TypeOK'
    BY <1>1, <1>2, <1>4 DEF TypeOK, runVars
  <1>6. Constructed' /\ Watches' /\ NeverMisled' /\ Readable'
    BY <1>1, <1>2 DEF Constructed, Watches, Controller, runVars, NeverMisled, Readable
  <1>7. QED
    BY <1>1, <1>4, <1>5, <1>6

LEMMA SetLevelInv ==
    ASSUME IInv, SetLevel
    PROVE  IInv'
  <1> USE DEF IInv, SetLevel
  <1>1. FactoryTypeOK' /\ Goroutines' /\ synced' = synced /\ informers' = informers
    BY FactoryFrame DEF TypeOK
  <1>2. LogTypeOK' /\ \A x : desired = DesiredLogLevel(x) => Follows(x)'
    BY SetFollows DEF TypeOK
  <1>3. LevelRead'
    <2>1. SUFFICES ASSUME ~due, crCached # NoCR PROVE Follows(crCached)'
      BY DEF LevelRead, SetLogLevel
    <2>2. desired = DesiredLogLevel(crCached)
      BY <2>1 DEF LevelRead, SetLogLevel
    <2>3. QED
      BY <1>2, <2>2 DEF Follows
  <1>4. TypeOK'
    BY <1>1, <1>2 DEF TypeOK, runVars, histVars
  <1>5. Constructed' /\ Watches' /\ NeverMisled' /\ Readable'
    BY <1>1 DEF Constructed, Watches, Controller, runVars, histVars, NeverMisled, Readable
  <1>6. QED
    BY <1>1, <1>2, <1>3, <1>4, <1>5

-----------------------------------------------------------------------------
(* The informers, and the world outside.                                   *)

LEMMA ListObjectsInv ==
    ASSUME IInv, NEW t \in Type, ListObjects(t)
    PROVE  IInv'
  <1> USE DEF IInv, ListObjects
  <1>1. FactoryTypeOK' /\ Goroutines' /\ synced' = synced \cup {t} /\ informers' = informers
    BY ListType DEF TypeOK
  <1>2. LogTypeOK' /\ LevelRead'
    BY LogFrame DEF Enqueue, LogTypeOK, TypeOK, LevelRead
  <1>3. TypeOK'
    BY <1>1, <1>2 DEF TypeOK, runVars, histVars
  <1>4. Constructed' /\ Watches' /\ NeverMisled'
    BY <1>1 DEF Constructed, Watches, Controller, runVars, histVars, NeverMisled
  <1>5. Readable'
    BY <1>1 DEF Readable
  <1>6. QED
    BY <1>1, <1>2, <1>3, <1>4, <1>5

LEMMA WatchCRInv ==
    ASSUME IInv, WatchCR
    PROVE  IInv'
  <1> USE DEF IInv, WatchCR
  <1>1. FactoryTypeOK' /\ Goroutines' /\ synced' = synced /\ informers' = informers
    BY FactoryFrame DEF TypeOK
  <1>2. LogTypeOK' /\ LevelRead'
    BY DEF Enqueue, LogTypeOK, TypeOK, LevelRead
  <1>3. TypeOK'
    BY <1>1, <1>2 DEF TypeOK, runVars, histVars
  <1>4. Constructed' /\ Watches' /\ NeverMisled' /\ Readable'
    BY <1>1 DEF Constructed, Watches, Controller, runVars, histVars, NeverMisled, Readable
  <1>5. QED
    BY <1>1, <1>2, <1>3, <1>4

\* Informers end, and the context does.
LEMMA EndingInv ==
    ASSUME IInv, Stop \/ \E g \in wg : EndInformer(g)
    PROVE  IInv'
  <1> USE DEF IInv, Stop, EndInformer
  <1>1. FactoryTypeOK' /\ Goroutines' /\ synced' = synced /\ informers' = informers
    BY EndType, CancelType, Types DEF TypeOK
  <1>2. UNCHANGED <<cr, crCached, runVars, ctl, present, histVars, logVars>>
    OBVIOUS
  <1>3. TypeOK'
    BY <1>1, <1>2, LogFrame DEF TypeOK, runVars, histVars
  <1>4. Constructed' /\ Watches' /\ NeverMisled' /\ Readable'
    BY <1>1, <1>2 DEF Constructed, Watches, Controller, runVars, histVars, NeverMisled, Readable
  <1>5. QED
    BY <1>1, <1>2, <1>3, <1>4, LogFrame

LEMMA ChangeCRInv ==
    ASSUME IInv, ChangeCR
    PROVE  IInv'
  <1> USE DEF IInv, ChangeCR
  <1>1. FactoryTypeOK' /\ Goroutines' /\ synced' = synced /\ informers' = informers
    BY FactoryFrame DEF TypeOK
  <1>2. TypeOK'
    BY <1>1, LogFrame DEF TypeOK, runVars, histVars
  <1>3. Constructed' /\ Watches' /\ NeverMisled' /\ Readable'
    BY <1>1 DEF Constructed, Watches, Controller, runVars, histVars, NeverMisled, Readable, TypeOK
  <1>4. QED
    BY <1>1, <1>2, <1>3, LogFrame

LEMMA StutterInv ==
    ASSUME IInv, UNCHANGED vars
    PROVE  IInv'
  <1> USE DEF IInv, vars
  <1>1. FactoryTypeOK' /\ Goroutines' /\ synced' = synced /\ informers' = informers
    BY FactoryFrame DEF TypeOK
  <1>2. TypeOK'
    BY <1>1, LogFrame DEF TypeOK, runVars, histVars
  <1>3. Constructed' /\ Watches' /\ NeverMisled' /\ Readable'
    BY <1>1 DEF Constructed, Watches, Controller, runVars, histVars, NeverMisled, Readable
  <1>4. QED
    BY <1>1, <1>2, <1>3, LogFrame

LEMMA NextInv == IInv /\ [Next]_vars => IInv'
  BY RunOperatorInv, EndOfProcessInv, ControllerInv, ReadInv, ReadLevelInv, SetLevelInv,
     ListObjectsInv, WatchCRInv, EndingInv, ChangeCRInv, StutterInv DEF Next

\* What every reachable state of the process satisfies.
THEOREM Invariant == Spec => []IInv
  BY InitInv, NextInv, PTL DEF Spec

\* The process's state, the factory's and the log level controller's included,
\* keeps its types; a controller only waits for informers the factory has.
THEOREM TypeCorrect == Spec => []TypeOK
  <1>1. IInv => TypeOK
    BY DEF IInv
  <1>2. QED
    BY <1>1, Invariant, PTL

\* However long the caches take to fill, no sync finds a CR missing that has
\* been there all the time.
THEOREM NobodyIsMisled == Spec => []NeverMisled
  <1>1. IInv => NeverMisled
    BY DEF IInv
  <1>2. QED
    BY <1>1, Invariant, PTL

\* With the CR there and no failed GET, AddKubeInformers misses no kind.
THEOREM AllKindsAreWatched == Spec => []WatchesWhenPresent
  <1>1. IInv => WatchesWhenPresent
    BY DEF IInv, Watches, WatchesWhenPresent
  <1>2. QED
    BY <1>1, Invariant, PTL

\* The log level controller rests only when the process logs as the CR asks.
THEOREM RestsAtLevel == Spec => []LevelAtRest
  <1>1. IInv => LevelAtRest
    BY DEF IInv, LevelRead, LevelAtRest
  <1>2. QED
    BY <1>1, Invariant, PTL

-----------------------------------------------------------------------------
(* The factory's goroutines and who waits for them.                        *)

\* RunOperator never shuts the factory down, and what it started runs until the
\* context ends; no informer is created after the start.
StartedRun ==
    /\ ~shuttingDown
    /\ Context \notin cancelled => \A t \in startedInformers : <<t, Context>> \in wg
    /\ main \in {"spawn", "wait"} \/ (\E c \in Controller : ctl[c] # "new") =>
           informers \subseteq startedInformers

\* Apart from the constructors and the start, the process leaves the informers
\* that are created and started alone.
LEMMA FactorySteps ==
    ASSUME IInv, [Next]_vars
    PROVE  \/ \E t \in Type : InformerFor(t) /\ main \in {"operator", "static", "reconciler"}
           \/ StartInformers
           \/ \E t \in Type : List(t)
           \/ \E g \in wg : End(g)
           \/ Cancel(Context)
           \/ UNCHANGED factoryVars
  <1>1. CASE RunOperator
    BY <1>1, Types DEF RunOperator, NewClients, NewOperatorClient, AddKubeInformer,
       NewTargetConfigReconciler, NewLoggingController, RunControllers
  <1>2. CASE Return \/ \E c \in Controller : CachesSynced(c) \/ SyncTimesOut(c) \/ Leave(c)
    BY <1>2 DEF Return, CachesSynced, SyncTimesOut, Leave
  <1>3. CASE ReadLevel \/ SetLevel \/ \E c \in Controller \ {"LogLevel"} : Read(c)
    BY <1>3 DEF Read, ReadLevel, SetLevel
  <1>4. CASE \/ \E t \in Type : ListObjects(t)
             \/ \E g \in wg : EndInformer(g)
             \/ WatchCR \/ Stop \/ ChangeCR
    BY <1>4 DEF ListObjects, EndInformer, WatchCR, Stop, ChangeCR
  <1>5. CASE UNCHANGED vars
    BY <1>5 DEF vars
  <1>6. QED
    BY <1>1, <1>2, <1>3, <1>4, <1>5 DEF Next

\* The controllers run after RunOperator has come to its wait.
LEMMA MainSteps ==
    ASSUME IInv, [Next]_vars,
           main' \in {"spawn", "wait"} \/ \E c \in Controller : ctl'[c] # "new"
    PROVE  \/ StartInformers
           \/ main \in {"spawn", "wait"}
           \/ \E c \in Controller : ctl[c] # "new"
  <1>1. CASE RunOperator
    <2>1. CASE NewClients
      BY <1>1, <2>1, AfterIs DEF NewClients
    <2>2. CASE NewOperatorClient \/ NewLoggingController
      BY <2>2, AfterIs DEF NewOperatorClient, NewLoggingController
    <2>3. ASSUME NEW k \in StaticKind, AddKubeInformer(k)
          PROVE  main' \notin {"spawn", "wait"} /\ UNCHANGED ctl
      BY <2>3, AfterIs DEF AddKubeInformer
    <2>4. ASSUME NEW k \in Type, NewTargetConfigReconciler(k)
          PROVE  main' \notin {"spawn", "wait"} /\ UNCHANGED ctl
      BY <2>4, AfterIs DEF NewTargetConfigReconciler
    <2>5. CASE RunControllers \/ StartInformers
      BY <2>5 DEF RunControllers
    <2>6. QED
      BY <1>1, <2>1, <2>2, <2>3, <2>4, <2>5 DEF RunOperator
  <1>2. CASE Return \/ \E c \in Controller : CachesSynced(c) \/ SyncTimesOut(c) \/ Leave(c)
    BY <1>2 DEF Return, CachesSynced, SyncTimesOut, Leave, runVars
  <1>3. CASE ReadLevel \/ SetLevel \/ \E c \in Controller \ {"LogLevel"} : Read(c)
    BY <1>3 DEF Read, ReadLevel, SetLevel, runVars
  <1>4. CASE \/ \E t \in Type : ListObjects(t)
             \/ \E g \in wg : EndInformer(g)
             \/ WatchCR \/ Stop \/ ChangeCR
    BY <1>4 DEF ListObjects, EndInformer, WatchCR, Stop, ChangeCR, runVars
  <1>5. CASE UNCHANGED vars
    BY <1>5 DEF vars, runVars
  <1>6. QED
    BY <1>1, <1>2, <1>3, <1>4, <1>5 DEF Next

\* StartedRun is inductive, next to IInv.
LEMMA StartedRunInv ==
    ASSUME IInv, StartedRun, [Next]_vars
    PROVE  StartedRun'
  <1>0. startedInformers \subseteq informers
    BY DEF IInv, TypeOK, FactoryTypeOK
  <1>1. ~shuttingDown' /\ (\/ informers' = informers /\ startedInformers \subseteq startedInformers'
                           \/ main \in {"operator", "static", "reconciler"})
    BY <1>0, FactorySteps DEF StartedRun, InformerFor, StartInformers, StartWithContext, List,
       End, Cancel, factoryVars
  <1>2. ASSUME Context \notin cancelled', NEW t \in startedInformers'
        PROVE  <<t, Context>> \in wg'
    <2>1. Context \notin cancelled /\ \A s \in startedInformers : <<s, Context>> \in wg
      BY <1>2, FactorySteps DEF StartedRun, InformerFor, StartInformers, StartWithContext,
         List, End, Cancel, factoryVars
    <2>2. CASE StartInformers
      BY <1>2, <2>1, <2>2 DEF StartInformers, StartWithContext, StartedRun
    <2>3. ASSUME NEW g \in wg, End(g)
          PROVE  <<t, Context>> \in wg'
      BY <1>2, <2>1, <2>3 DEF End
    <2>4. CASE Cancel(Context)
      BY <1>2, <2>4 DEF Cancel
    <2>5. CASE (\E s \in Type : InformerFor(s) \/ List(s)) \/ UNCHANGED factoryVars
      BY <1>2, <2>1, <2>5 DEF InformerFor, List, factoryVars
    <2>6. QED
      BY <2>2, <2>3, <2>4, <2>5, FactorySteps
  <1>3. ASSUME main' \in {"spawn", "wait"} \/ \E c \in Controller : ctl'[c] # "new"
        PROVE  informers' \subseteq startedInformers'
    <2>1. CASE StartInformers
      BY <2>1 DEF StartInformers, StartWithContext, StartedRun
    <2>2. CASE main \in {"spawn", "wait"} \/ \E c \in Controller : ctl[c] # "new"
      <3>1. informers \subseteq startedInformers
        BY <2>2 DEF StartedRun
      <3>2. main \notin {"operator", "static", "reconciler"}
        BY <2>2 DEF IInv, Constructed
      <3>3. QED
        BY <1>1, <3>1, <3>2
    <2>3. QED
      BY <1>3, <2>1, <2>2, MainSteps
  <1>4. QED
    BY <1>1, <1>2, <1>3 DEF StartedRun

\* No controller waits in vain: the informers RunOperator asked for were all
\* started, by one call after the last constructor, and run until it is stopped.
THEOREM NobodyWaitsInVain == Spec => []CachesAreBeingFilled
  <1>1. Init => StartedRun
    BY DEF Init, FactoryInit, StartedRun
  <1>2. IInv /\ StartedRun => CachesAreBeingFilled
    BY DEF IInv, TypeOK, StartedRun, CachesAreBeingFilled
  <1>3. QED
    BY <1>1, <1>2, StartedRunInv, Invariant, PTL DEF Spec

\* Each step of the process is a step of the informer factory or leaves it
\* alone: what is proved of the factory holds in the process.
THEOREM FactoryIsUsed == Spec => UsesFactory
  <1>1. IInv /\ [Next]_vars => [FactoryNext]_factoryVars
    BY FactorySteps, Types DEF StartInformers, FactoryNext
  <1>2. Init => FactoryInit
    BY DEF Init
  <1>3. QED
    BY <1>1, <1>2, Invariant, PTL DEF Spec, UsesFactory
=============================================================================
