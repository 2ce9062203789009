--------------------------- MODULE InformerFactory ---------------------------
(***************************************************************************)
(* The generated shared informer factory: informers are created on demand, *)
(* each is run by one goroutine from the first Start() after that, and     *)
(* Shutdown() waits for all of them.  An action is a section under the     *)
(* factory's lock or what lies between two of them, so the calls of        *)
(* several goroutines interleave as they do in the code.                   *)
(***************************************************************************)
EXTENDS FiniteSets

CONSTANTS
    Type,    \* the resource types there may be an informer of
    Ctx,     \* contexts that Start and WaitForCacheSync are called with
    Caller   \* goroutines that call the factory's blocking functions

VARIABLES
    informers,         \* types with an informer
    startedInformers,  \* types whose informer was started
    shuttingDown,
    wg,                \* the goroutines: <<type, context>> of those that run
    synced,            \* types whose informer has listed its objects
    cancelled,         \* contexts that are cancelled
    call               \* the blocking call each caller is in, or came out of

factoryVars == <<informers, startedInformers, shuttingDown, wg, synced, cancelled, call>>

\* "waiting": in WaitFor, with ctx, for the informers in on. "synced": back from
\* it; result says which of them have synced, err whether Err is set.
\* "flagged": in Shutdown, before wg.Wait(). "draining": in wg.Wait(). "woken":
\* the counter was zero. "down": back from Shutdown.
NoCall   == [op |-> "none"]
SyncCall == [op : {"waiting"}, ctx : Ctx, on : SUBSET Type]
Synced   == [op : {"synced"}, ctx : Ctx, on : SUBSET Type, result : SUBSET Type,
             err : BOOLEAN]
Shutting == [op : {"flagged", "draining", "woken", "down"}]

FactoryInit ==
    /\ informers = {}
    /\ startedInformers = {}
    /\ shuttingDown = FALSE
    /\ wg = {}
    /\ synced = {}
    /\ cancelled = {}
    /\ call = [p \in Caller |-> NoCall]

Idle(p)    == call[p].op \in {"none", "synced", "down"}
To(p, c)   == call' = [call EXCEPT ![p] = c]

\* Informer() and Lister() of a type: its informer is created by the first call.
InformerFor(t) ==
    /\ informers' = informers \cup {t}
    /\ UNCHANGED <<startedInformers, shuttingDown, wg, synced, cancelled, call>>

\* Faulty variant of StartWithContext: a factory that shuts down starts more.
StartRegardless(c) ==
    /\ wg' = wg \cup (informers \ startedInformers) \X {c}
    /\ startedInformers' = informers
    /\ UNCHANGED <<informers, shuttingDown, synced, cancelled, call>>

StartWithContext(c) ==
    /\ IF shuttingDown
       THEN UNCHANGED <<wg, startedInformers>>
       ELSE /\ wg' = wg \cup (informers \ startedInformers) \X {c}
            /\ startedInformers' = informers
    /\ UNCHANGED <<informers, shuttingDown, synced, cancelled, call>>

-----------------------------------------------------------------------------
(* WaitForCacheSync.                                                       *)

\* Faulty variant of WaitForCacheSync: informers nobody started are waited for.
WaitForAll(p, c) ==
    /\ Idle(p)
    /\ To(p, [op |-> "waiting", ctx |-> c, on |-> informers])
    /\ UNCHANGED <<informers, startedInformers, shuttingDown, wg, synced, cancelled>>

\* The informers to wait for are those started by now.
WaitForCacheSync(p, c) ==
    /\ Idle(p)
    /\ To(p, [op |-> "waiting", ctx |-> c, on |-> informers \cap startedInformers])
    /\ UNCHANGED <<informers, startedInformers, shuttingDown, wg, synced, cancelled>>

\* Faulty variant of WaitOver: the first informer to sync ends the wait.
FirstOfThem(q) == q.on = {} \/ q.on \cap synced # {} \/ q.ctx \in cancelled

\* WaitFor returns when all checkers are done or the context is.
WaitOver(q) == q.on \subseteq synced \/ q.ctx \in cancelled

\* Each informer is asked again after the wait; Err is the context's cause,
\* which is nil as long as the context is not cancelled.
CacheSynced(p) ==
    /\ call[p].op = "waiting"
    /\ WaitOver(call[p])
    /\ LET q == call[p]
           failed == q.on \ synced # {}
       IN To(p, [op |-> "synced", ctx |-> q.ctx, on |-> q.on,
                 result |-> q.on \cap synced,
                 err |-> failed /\ q.ctx \in cancelled])
    /\ UNCHANGED <<informers, startedInformers, shuttingDown, wg, synced, cancelled>>

-----------------------------------------------------------------------------
(* Shutdown.                                                               *)

Shutdown(p) ==
    /\ Idle(p)
    /\ shuttingDown' = TRUE
    /\ To(p, [op |-> "flagged"])
    /\ UNCHANGED <<informers, startedInformers, wg, synced, cancelled>>

\* wg.Wait(), after the lock was given back.
Drain(p) ==
    /\ call[p].op = "flagged"
    /\ To(p, [op |-> IF wg = {} THEN "woken" ELSE "draining"])
    /\ UNCHANGED <<informers, startedInformers, shuttingDown, wg, synced, cancelled>>

Down(p) ==
    /\ call[p].op = "woken"
    /\ To(p, [op |-> "down"])
    /\ UNCHANGED <<informers, startedInformers, shuttingDown, wg, synced, cancelled>>

-----------------------------------------------------------------------------
(* The goroutines of the informers.                                        *)

\* The first List succeeds.
List(t) ==
    /\ \E g \in wg : g[1] = t
    /\ synced' = synced \cup {t}
    /\ UNCHANGED <<informers, startedInformers, shuttingDown, wg, cancelled, call>>

\* The context is cancelled and RunWithContext returns. The last goroutine to
\* end wakes whoever waits for all of them.
End(g) ==
    /\ g \in wg
    /\ g[2] \in cancelled
    /\ wg' = wg \ {g}
    /\ call' = [p \in Caller |-> IF wg = {g} /\ call[p].op = "draining"
                                 THEN [op |-> "woken"] ELSE call[p]]
    /\ UNCHANGED <<informers, startedInformers, shuttingDown, synced, cancelled>>

Cancel(c) ==
    /\ cancelled' = cancelled \cup {c}
    /\ UNCHANGED <<informers, startedInformers, shuttingDown, wg, synced, call>>

FactoryNext ==
    \/ \E t \in Type : InformerFor(t) \/ List(t)
    \/ \E c \in Ctx : StartWithContext(c) \/ Cancel(c)
    \/ \E p \in Caller, c \in Ctx : WaitForCacheSync(p, c)
    \/ \E p \in Caller : CacheSynced(p) \/ Shutdown(p) \/ Drain(p) \/ Down(p)
    \/ \E g \in wg : End(g)

\* Goroutines run, and the API server answers a List in the end. Nobody has to
\* cancel a context.
FactoryFairness ==
    /\ \A t \in Type : WF_factoryVars(List(t))
    /\ \A g \in Type \X Ctx : WF_factoryVars(End(g))
    /\ \A p \in Caller : /\ WF_factoryVars(CacheSynced(p))
                         /\ WF_factoryVars(Drain(p) \/ Down(p))

FactorySpec == FactoryInit /\ [][FactoryNext]_factoryVars /\ FactoryFairness

-----------------------------------------------------------------------------
(* Properties.                                                             *)

FactoryTypeOK ==
    /\ informers \in SUBSET Type
    /\ startedInformers \in SUBSET informers
    /\ shuttingDown \in BOOLEAN
    /\ wg \in SUBSET (Type \X Ctx)
    /\ synced \in SUBSET startedInformers
    /\ cancelled \in SUBSET Ctx
    /\ call \in [Caller -> {NoCall} \cup SyncCall \cup Synced \cup Shutting]
    /\ \A p \in Caller : call[p].op = "waiting" => call[p].on \subseteq startedInformers

\* When a Shutdown is back, whichever of several concurrent ones it is, no
\* goroutine of the factory runs, and no later Start brings one back.
NothingOutlivesShutdown ==
    \A p \in Caller : call[p].op \in {"woken", "down"} => wg = {} /\ shuttingDown

\* No informer is run by two goroutines.
OneGoroutinePerInformer ==
    \A g, h \in wg : g[1] = h[1] => g = h

\* The comment in WaitForCacheSync holds: when a cache did not sync, the error
\* is not nil.
FailureHasCause ==
    \A p \in Caller : LET q == call[p] IN
        q.op = "synced" /\ q.result # q.on => q.err

\* Nobody blocks for nothing: who waits in Shutdown has a goroutine to wait for,
\* and who waits for caches has one for each that is not filled yet, as long as
\* no context is cancelled.
NobodyBlocksForNothing ==
    \A p \in Caller :
        /\ call[p].op = "draining" => wg # {}
        /\ call[p].op = "waiting" /\ cancelled = {} =>
              \A t \in call[p].on \ synced : \E g \in wg : g[1] = t

\* Shutdown returns when the contexts of the goroutines it waits for are
\* cancelled, whatever else is started in the meantime.
ShutdownReturns ==
    \A p \in Caller :
        (call[p].op \in {"flagged", "draining"} /\ \A g \in wg : g[2] \in cancelled)
            ~> call[p].op \notin {"flagged", "draining"}

\* WaitForCacheSync returns when the API server answers, whichever informers
\* were created meanwhile, unless the informers' own context was cancelled
\* before they had synced.
WaitReturns ==
    \A p \in Caller :
        call[p].op = "waiting" ~> (call[p].op # "waiting" \/ cancelled # {})
=============================================================================
