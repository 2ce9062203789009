------------------------ MODULE InformerFactoryProofs ------------------------
(***************************************************************************)
(* What a caller of the informer factory may rely on, for any number of    *)
(* types, contexts and callers.                                            *)
(***************************************************************************)
EXTENDS InformerFactory, TLAPS

\* What callers inside Shutdown know: no informer is started any more, and who
\* was woken saw the last goroutine end.
ShutdownInv ==
    \A p \in Caller :
        /\ call[p].op \in {"flagged", "draining", "woken", "down"} => shuttingDown
        /\ call[p].op \in {"woken", "down"} => wg = {}

IInv == FactoryTypeOK /\ ShutdownInv /\ OneGoroutinePerInformer /\ FailureHasCause
        /\ \A g \in wg : g[1] \in startedInformers

\* The forms a call may have, by its op.
LEMMA CallForms ==
    ASSUME FactoryTypeOK, NEW p \in Caller
    PROVE  /\ call[p] \in {NoCall} \cup SyncCall \cup Synced \cup Shutting
           /\ call[p].op = "waiting" => call[p] \in SyncCall
           /\ call[p].op = "synced" => call[p] \in Synced
  BY DEF FactoryTypeOK, NoCall, SyncCall, Synced, Shutting

\* Putting a caller's call in place of another.
LEMMA CallUpdate ==
    ASSUME FactoryTypeOK, NEW p \in Caller, NEW c, To(p, c)
    PROVE  \A q \in Caller : call'[q] = IF q = p THEN c ELSE call[q]
  BY DEF FactoryTypeOK, To

LEMMA InitInv == FactoryInit => IInv
  <1> SUFFICES ASSUME FactoryInit PROVE IInv
    OBVIOUS
  <1>1. \A p \in Caller : call[p].op = "none"
    BY DEF FactoryInit, NoCall
  <1>2. QED
    BY <1>1 DEF FactoryInit, IInv, FactoryTypeOK, ShutdownInv,
       OneGoroutinePerInformer, FailureHasCause

LEMMA InformerForInv ==
    ASSUME IInv, NEW t \in Type, InformerFor(t)
    PROVE  IInv'
  BY DEF InformerFor, IInv, FactoryTypeOK, ShutdownInv,
     OneGoroutinePerInformer, FailureHasCause

LEMMA StartInv ==
    ASSUME IInv, NEW c \in Ctx, StartWithContext(c)
    PROVE  IInv'
  <1> USE DEF IInv
  <1>1. CASE shuttingDown
    BY <1>1 DEF StartWithContext, FactoryTypeOK, ShutdownInv,
       OneGoroutinePerInformer, FailureHasCause
  <1>2. CASE ~shuttingDown
    <2>1. /\ wg' = wg \cup (informers \ startedInformers) \X {c}
          /\ startedInformers' = informers
          /\ UNCHANGED <<informers, shuttingDown, synced, cancelled, call>>
      BY <1>2 DEF StartWithContext
    <2>2. FactoryTypeOK'
      BY <2>1 DEF FactoryTypeOK
    <2>3. ShutdownInv'
      BY <1>2, <2>1 DEF ShutdownInv
    <2>4. \A g \in wg' : g[1] \in startedInformers'
      BY <2>1 DEF FactoryTypeOK
    <2>5. OneGoroutinePerInformer'
      <3>1. \A g \in (informers \ startedInformers) \X {c} :
                g = <<g[1], c>> /\ g[1] \notin startedInformers
        OBVIOUS
      <3>2. QED
        BY <2>1, <3>1 DEF OneGoroutinePerInformer
    <2>6. FailureHasCause'
      BY <2>1 DEF FailureHasCause
    <2>7. QED
      BY <2>2, <2>3, <2>4, <2>5, <2>6
  <1>3. QED
    BY <1>1, <1>2

\* A step of one caller that leaves the rest of the factory alone.
LEMMA CallerInv ==
    ASSUME IInv, NEW p \in Caller, NEW c, To(p, c),
           UNCHANGED <<informers, startedInformers, wg, synced, cancelled>>,
           shuttingDown' \in {shuttingDown, TRUE},
           c \in SyncCall \cup Synced \cup Shutting,
           c.op = "waiting" => c.on \subseteq startedInformers,
           c.op = "synced" /\ c.result # c.on => c.err,
           c \in Shutting => shuttingDown',
           c.op \in {"woken", "down"} => wg = {}
    PROVE  IInv'
  <1> USE DEF IInv
  <1>1. \A q \in Caller : call'[q] = IF q = p THEN c ELSE call[q]
    BY CallUpdate
  <1>2. FactoryTypeOK'
    <2>1. call' \in [Caller -> {NoCall} \cup SyncCall \cup Synced \cup Shutting]
      BY DEF To, FactoryTypeOK
    <2>2. \A q \in Caller : call'[q].op = "waiting" => call'[q].on \subseteq startedInformers'
      BY <1>1 DEF FactoryTypeOK
    <2>3. QED
      BY <2>1, <2>2 DEF FactoryTypeOK
  <1>3. ShutdownInv'
    <2>1. c.op \in {"flagged", "draining", "woken", "down"} => shuttingDown'
      BY DEF SyncCall, Synced, Shutting
    <2>2. shuttingDown => shuttingDown'
      BY DEF FactoryTypeOK
    <2>3. QED
      BY <1>1, <2>1, <2>2 DEF ShutdownInv
  <1>4. OneGoroutinePerInformer'
    BY DEF OneGoroutinePerInformer
  <1>5. FailureHasCause'
    BY <1>1 DEF FailureHasCause
  <1>6. \A g \in wg' : g[1] \in startedInformers'
    OBVIOUS
  <1>7. QED
    BY <1>2, <1>3, <1>4, <1>5, <1>6

LEMMA WaitInv ==
    ASSUME IInv, NEW p \in Caller, NEW k \in Ctx, WaitForCacheSync(p, k)
    PROVE  IInv'
  <1> DEFINE c == [op |-> "waiting", ctx |-> k, on |-> informers \cap startedInformers]
  <1>1. c \in SyncCall /\ c.op = "waiting" /\ c.on \subseteq startedInformers
    BY DEF SyncCall, IInv, FactoryTypeOK
  <1>2. c \notin Shutting
    BY <1>1 DEF Shutting
  <1>3. QED
    BY <1>1, <1>2, CallerInv DEF WaitForCacheSync, IInv, FactoryTypeOK

LEMMA CacheSyncedInv ==
    ASSUME IInv, NEW p \in Caller, CacheSynced(p)
    PROVE  IInv'
  <1> DEFINE q == call[p]
             c == [op |-> "synced", ctx |-> q.ctx, on |-> q.on,
                   result |-> q.on \cap synced,
                   err |-> q.on \ synced # {} /\ q.ctx \in cancelled]
  <1>1. q \in SyncCall /\ q.ctx \in Ctx /\ q.on \in SUBSET Type
    BY CallForms DEF CacheSynced, IInv, SyncCall
  <1>2. c \in Synced /\ c.op = "synced" /\ c \notin Shutting
    BY <1>1 DEF Synced, Shutting
  <1>3. q.on \subseteq synced \/ q.ctx \in cancelled
    BY DEF CacheSynced, WaitOver
  <1>4. c.result # c.on => c.err
    BY <1>3
  <1>5. To(p, c)
    BY DEF CacheSynced
  <1>6. QED
    BY <1>2, <1>4, <1>5, CallerInv DEF CacheSynced, IInv, FactoryTypeOK

LEMMA ShutdownStepInv ==
    ASSUME IInv, NEW p \in Caller, Shutdown(p) \/ Drain(p) \/ Down(p)
    PROVE  IInv'
  <1> USE DEF IInv
  <1>1. CASE Shutdown(p)
    <2>1. [op |-> "flagged"] \in Shutting
      BY DEF Shutting
    <2>2. QED
      BY <1>1, <2>1, CallerInv DEF Shutdown
  <1>2. CASE Drain(p)
    <2> DEFINE c == [op |-> IF wg = {} THEN "woken" ELSE "draining"]
    <2>1. c \in Shutting /\ c.op \in {"woken", "draining"} /\ (c.op = "woken" => wg = {})
      BY DEF Shutting
    <2>2. shuttingDown
      BY <1>2 DEF Drain, ShutdownInv
    <2>3. QED
      BY <1>2, <2>1, <2>2, CallerInv DEF Drain
  <1>3. CASE Down(p)
    <2>1. [op |-> "down"] \in Shutting /\ shuttingDown /\ wg = {}
      BY <1>3 DEF Shutting, Down, ShutdownInv
    <2>2. QED
      BY <1>3, <2>1, CallerInv DEF Down
  <1>4. QED
    BY <1>1, <1>2, <1>3

LEMMA ListInv ==
    ASSUME IInv, NEW t \in Type, List(t)
    PROVE  IInv'
  BY DEF List, IInv, FactoryTypeOK, ShutdownInv, OneGoroutinePerInformer,
     FailureHasCause

LEMMA EndInv ==
    ASSUME IInv, NEW g \in wg, End(g)
    PROVE  IInv'
  <1> USE DEF IInv
  <1>0. [op |-> "woken"] \in Shutting /\ [op |-> "woken"].op = "woken"
    BY DEF Shutting
  <1>1. \A p \in Caller : \/ call'[p] = call[p]
                          \/ /\ call'[p] = [op |-> "woken"]
                             /\ wg' = {}
                             /\ call[p].op = "draining"
    BY DEF End
  <1>2. /\ call' \in [Caller -> {NoCall} \cup SyncCall \cup Synced \cup Shutting]
        /\ wg' \subseteq wg
        /\ UNCHANGED <<informers, startedInformers, shuttingDown, synced, cancelled>>
    BY <1>0 DEF End, FactoryTypeOK
  <1>3. FactoryTypeOK'
    <2>1. \A p \in Caller : call'[p].op = "waiting" => call'[p].on \subseteq startedInformers'
      BY <1>0, <1>1, <1>2 DEF FactoryTypeOK
    <2>2. QED
      BY <1>2, <2>1 DEF FactoryTypeOK
  <1>4. ShutdownInv'
    BY <1>0, <1>1, <1>2 DEF ShutdownInv
  <1>5. OneGoroutinePerInformer'
    BY <1>2 DEF OneGoroutinePerInformer
  <1>6. FailureHasCause'
    BY <1>0, <1>1 DEF FailureHasCause
  <1>7. \A h \in wg' : h[1] \in startedInformers'
    BY <1>2
  <1>8. QED
    BY <1>3, <1>4, <1>5, <1>6, <1>7

LEMMA NextInv == IInv /\ [FactoryNext]_factoryVars => IInv'
  <1> SUFFICES ASSUME IInv, [FactoryNext]_factoryVars PROVE IInv'
    OBVIOUS
  <1>1. ASSUME NEW c \in Ctx, Cancel(c) PROVE IInv'
    BY <1>1 DEF Cancel, IInv, FactoryTypeOK, ShutdownInv,
       OneGoroutinePerInformer, FailureHasCause
  <1>2. CASE UNCHANGED factoryVars
    BY <1>2 DEF factoryVars, IInv, FactoryTypeOK, ShutdownInv,
       OneGoroutinePerInformer, FailureHasCause
  <1>3. QED
    BY <1>1, <1>2, InformerForInv, ListInv, StartInv, WaitInv, CacheSyncedInv,
       ShutdownStepInv, EndInv DEF FactoryNext

\* What every reachable state of the factory satisfies.
THEOREM Invariant == FactorySpec => []IInv
  BY InitInv, NextInv, PTL DEF FactorySpec

\* The factory's fields, and the calls in progress, keep their types.
THEOREM TypeCorrect == FactorySpec => []FactoryTypeOK
  <1>1. IInv => FactoryTypeOK
    BY DEF IInv
  <1>2. QED
    BY <1>1, Invariant, PTL

\* After any Shutdown has returned no goroutine of the factory runs, and none
\* will, whoever calls Start.
THEOREM ShutdownIsFinal == FactorySpec => []NothingOutlivesShutdown
  <1>1. IInv => NothingOutlivesShutdown
    BY DEF IInv, ShutdownInv, NothingOutlivesShutdown
  <1>2. QED
    BY <1>1, Invariant, PTL

\* The comment in WaitForCacheSync is right: Err is set when a cache has not
\* synced.
THEOREM ErrorHasCause == FactorySpec => []FailureHasCause
  <1>1. IInv => FailureHasCause
    BY DEF IInv
  <1>2. QED
    BY <1>1, Invariant, PTL

-----------------------------------------------------------------------------
(* Who waits, and for whom.                                                *)

\* An informer that was started is run until a context is cancelled.
StartedRun == cancelled = {} => \A t \in startedInformers : \E g \in wg : g[1] = t
Draining   == \A p \in Caller : call[p].op = "draining" => wg # {}

\* The goroutines of the started informers: only a cancelled context ends one.
LEMMA StartedRunInv == IInv /\ StartedRun /\ [FactoryNext]_factoryVars => StartedRun'
  <1> SUFFICES ASSUME IInv, StartedRun, [FactoryNext]_factoryVars,
                      cancelled' = {}, NEW t \in startedInformers'
               PROVE  \E g \in wg' : g[1] = t
    BY DEF StartedRun
  <1>1. ASSUME NEW c \in Ctx, StartWithContext(c)
        PROVE  \E g \in wg' : g[1] = t
    <2>1. CASE t \in startedInformers
      <3>1. PICK g \in wg : g[1] = t
        BY <1>1, <2>1 DEF StartWithContext, StartedRun
      <3>2. QED
        BY <1>1, <3>1 DEF StartWithContext
    <2>2. CASE t \notin startedInformers
      <3>1. <<t, c>> \in wg'
        BY <1>1, <2>2 DEF StartWithContext
      <3>2. QED
        BY <3>1
    <2>3. QED
      BY <2>1, <2>2
  <1>2. ASSUME NEW g \in wg, End(g)
        PROVE  FALSE
    BY <1>2 DEF End
  <1>3. ASSUME NEW c \in Ctx, Cancel(c)
        PROVE  FALSE
    BY <1>3 DEF Cancel
  <1>4. CASE \/ \E s \in Type : InformerFor(s) \/ List(s)
             \/ \E p \in Caller, c \in Ctx : WaitForCacheSync(p, c)
             \/ \E p \in Caller : CacheSynced(p) \/ Shutdown(p) \/ Drain(p) \/ Down(p)
             \/ UNCHANGED factoryVars
    <2>1. UNCHANGED <<startedInformers, wg, cancelled>>
      BY <1>4 DEF InformerFor, List, WaitForCacheSync, CacheSynced, Shutdown, Drain, Down,
         factoryVars
    <2>2. QED
      BY <2>1 DEF StartedRun
  <1>5. QED
    BY <1>1, <1>2, <1>3, <1>4 DEF FactoryNext

\* The last goroutine to end wakes those who wait for it, and while they wait
\* none is started.
LEMMA DrainingInv == IInv /\ Draining /\ [FactoryNext]_factoryVars => Draining'
  <1> SUFFICES ASSUME IInv, Draining, [FactoryNext]_factoryVars,
                      NEW p \in Caller, call'[p].op = "draining"
               PROVE  wg' # {}
    BY DEF Draining
  <1>0. FactoryTypeOK
    BY DEF IInv
  <1>1. ASSUME NEW q \in Caller, Drain(q)
        PROVE  wg' # {}
    BY <1>0, <1>1, CallUpdate DEF Drain, Draining
  <1>2. ASSUME NEW q \in Caller, NEW c, To(q, c), c.op # "draining", UNCHANGED wg
        PROVE  wg' # {}
    BY <1>0, <1>2, CallUpdate DEF Draining
  <1>3. ASSUME NEW q \in Caller, \/ CacheSynced(q) \/ Shutdown(q) \/ Down(q)
                                 \/ \E c \in Ctx : WaitForCacheSync(q, c)
        PROVE  wg' # {}
    BY <1>2, <1>3 DEF CacheSynced, Shutdown, Down, WaitForCacheSync
  <1>4. ASSUME NEW g \in wg, End(g)
        PROVE  wg' # {}
    <2>1. call[p].op = "draining" /\ wg # {g}
      BY <1>4 DEF End
    <2>2. QED
      BY <1>4, <2>1 DEF End
  <1>5. CASE \/ \E t \in Type : InformerFor(t) \/ List(t)
             \/ \E c \in Ctx : StartWithContext(c) \/ Cancel(c)
             \/ UNCHANGED factoryVars
    <2>1. call' = call /\ wg \subseteq wg'
      BY <1>5 DEF InformerFor, List, StartWithContext, Cancel, factoryVars
    <2>2. QED
      BY <2>1 DEF Draining
  <1>6. QED
    BY <1>1, <1>3, <1>4, <1>5 DEF FactoryNext

\* Whoever blocks in Shutdown or WaitForCacheSync has somebody to wait for: both
\* come back if the goroutines do their work.
THEOREM BlockedForAReason == FactorySpec => []NobodyBlocksForNothing
  <1>1. FactoryInit => StartedRun /\ Draining
    BY DEF FactoryInit, StartedRun, Draining, NoCall
  <1>2. IInv /\ StartedRun /\ Draining => NobodyBlocksForNothing
    BY DEF IInv, FactoryTypeOK, StartedRun, Draining, NobodyBlocksForNothing
  <1>3. QED
    BY <1>1, <1>2, StartedRunInv, DrainingInv, Invariant, PTL DEF FactorySpec
=============================================================================
