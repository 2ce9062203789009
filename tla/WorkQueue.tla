------------------------------ MODULE WorkQueue ------------------------------
(***************************************************************************)
(* The rate limited work queue of a controller and the goroutines around   *)
(* it: event handlers that add keys, workers that sleep on a condition     *)
(* variable, the loop behind AddAfter, and Run(), which shuts them down.   *)
(* An action is what happens between taking the queue's lock and giving it *)
(* back, or between two such sections.                                     *)
(***************************************************************************)
EXTENDS Naturals, FiniteSets, Sequences

CONSTANTS
    Key,     \* what a controller syncs; this operator's queue only knows "key"
    Worker,  \* goroutines of runWorker
    NoKey

ASSUME WorkQueueAssumption == NoKey \notin Key /\ IsFiniteSet(Worker)

VARIABLES
    queue,         \* keys in the order they will be worked on
    dirty,         \* keys that need processing
    item,          \* the key each worker processes: the code's set processing
    shuttingDown,
    delayed,       \* keys AddAfter has on a timer
    pc,            \* where each worker is
    cancelled,     \* the queue's context: tells the workers to leave their loop
    run            \* where the controller's Run() is

queueVars == <<queue, dirty, shuttingDown>>
vars == <<queue, dirty, item, shuttingDown, delayed, pc, cancelled, run>>

\* "loop": at the select of runWorker. "get": in Get(), with the lock to be
\* taken. "wait": in cond.Wait(). "sync": processes its key. "done": about to
\* call Done().
WorkerPC == {"loop", "get", "wait", "sync", "done", "exited"}
RunPC    == {"started", "stopping", "shutdown", "returned"}

processing == {item[w] : w \in Worker} \ {NoKey}
Waiting    == {w \in Worker : pc[w] = "wait"}
InQueue(k) == \E i \in DOMAIN queue : queue[i] = k

Init ==
    /\ queue = <<>>
    /\ dirty = {}
    /\ item = [w \in Worker |-> NoKey]
    /\ shuttingDown = FALSE
    /\ delayed = {}
    /\ pc = [w \in Worker |-> "loop"]
    /\ cancelled = FALSE
    /\ run = "started"

-----------------------------------------------------------------------------
(* The queue.                                                              *)

\* cond.Signal wakes one sleeper, if there is one; p is where the workers are
\* otherwise. A woken worker has to look at the queue again.
Signal(p) ==
    IF Waiting = {} THEN pc' = p
    ELSE \E w \in Waiting : pc' = [p EXCEPT ![w] = "get"]

\* Faulty variant of Push: the condition variable is forgotten.
PushSilently(k, p) == queue' = Append(queue, k) /\ pc' = p

Push(k, p) == queue' = Append(queue, k) /\ Signal(p)

\* Faulty variant of Enqueue: a key that is being processed is queued as well.
EnqueueAlways(k) ==
    IF shuttingDown \/ k \in dirty THEN UNCHANGED <<queue, dirty, pc>>
    ELSE dirty' = dirty \cup {k} /\ Push(k, pc)

\* Add: a key that is dirty already is not queued twice; one that is being
\* processed is left for Done().
Enqueue(k) ==
    IF shuttingDown \/ k \in dirty THEN UNCHANGED <<queue, dirty, pc>>
    ELSE /\ dirty' = dirty \cup {k}
         /\ IF k \in processing THEN UNCHANGED <<queue, pc>> ELSE Push(k, pc)

\* An event handler, or the periodic resync, adds a key.
Add(k) ==
    /\ Enqueue(k)
    /\ UNCHANGED <<item, shuttingDown, delayed, cancelled, run>>

\* The loop behind AddAfter adds a key whose time has come.
TimerFires(k) ==
    /\ k \in delayed
    /\ ~shuttingDown
    /\ delayed' = delayed \ {k}
    /\ Enqueue(k)
    /\ UNCHANGED <<item, shuttingDown, cancelled, run>>

-----------------------------------------------------------------------------
(* A worker.                                                               *)

\* runWorker asks for the next key unless its context is cancelled.
Loop(w) ==
    /\ pc[w] = "loop"
    /\ pc' = [pc EXCEPT ![w] = IF cancelled THEN "exited" ELSE "get"]
    /\ UNCHANGED <<queueVars, item, delayed, cancelled, run>>

\* Get finds no key: it sleeps, or returns shutdown = true.
GetNothing(w) ==
    /\ pc[w] = "get"
    /\ queue = <<>>
    /\ pc' = [pc EXCEPT ![w] = IF shuttingDown THEN "loop" ELSE "wait"]
    /\ UNCHANGED <<queueVars, item, delayed, cancelled, run>>

Get(w) ==
    /\ pc[w] = "get"
    /\ queue # <<>>
    /\ item' = [item EXCEPT ![w] = Head(queue)]
    /\ queue' = Tail(queue)
    /\ dirty' = dirty \ {Head(queue)}
    /\ pc' = [pc EXCEPT ![w] = "sync"]
    /\ UNCHANGED <<shuttingDown, delayed, cancelled, run>>

\* The sync returns. An error has the key added again after a delay, which
\* AddAfter does not do for a queue that is shutting down.
Sync(w, failed) ==
    /\ pc[w] = "sync"
    /\ pc' = [pc EXCEPT ![w] = "done"]
    /\ delayed' = IF failed /\ ~shuttingDown THEN delayed \cup {item[w]} ELSE delayed
    /\ UNCHANGED <<queueVars, item, cancelled, run>>

\* Faulty variant of Done: a key that became dirty meanwhile is forgotten.
DoneForgets(w) ==
    /\ pc[w] = "done"
    /\ item' = [item EXCEPT ![w] = NoKey]
    /\ pc' = [pc EXCEPT ![w] = "loop"]
    /\ UNCHANGED <<queueVars, delayed, cancelled, run>>

\* Done queues a key that became dirty while it was processed. The signal when
\* nothing is processed is meant for ShutDownWithDrain, but wakes any sleeper.
Done(w) ==
    /\ pc[w] = "done"
    /\ item' = [item EXCEPT ![w] = NoKey]
    /\ LET p == [pc EXCEPT ![w] = "loop"] IN
       IF item[w] \in dirty
       THEN Push(item[w], p)
       ELSE /\ IF processing = {item[w]} THEN Signal(p) ELSE pc' = p
            /\ UNCHANGED queue
    /\ UNCHANGED <<dirty, shuttingDown, delayed, cancelled, run>>

-----------------------------------------------------------------------------
(* Run().                                                                  *)

\* The controller's context is cancelled.
Stop ==
    /\ run = "started"
    /\ run' = "stopping"
    /\ UNCHANGED <<queueVars, item, delayed, pc, cancelled>>

\* Faulty variant of ShutDown: sleepers are not told.
ShutDownSilently ==
    /\ run = "stopping"
    /\ run' = "shutdown"
    /\ shuttingDown' = TRUE
    /\ UNCHANGED <<queue, dirty, item, delayed, pc, cancelled>>

\* ShutDown wakes all sleepers.
ShutDown ==
    /\ run = "stopping"
    /\ run' = "shutdown"
    /\ shuttingDown' = TRUE
    /\ pc' = [w \in Worker |-> IF w \in Waiting THEN "get" ELSE pc[w]]
    /\ UNCHANGED <<queue, dirty, item, delayed, cancelled>>

CancelQueue ==
    /\ run = "shutdown"
    /\ ~cancelled
    /\ cancelled' = TRUE
    /\ UNCHANGED <<queueVars, item, delayed, pc, run>>

\* workerWg.Wait() has come to an end.
Return ==
    /\ run = "shutdown"
    /\ cancelled
    /\ \A w \in Worker : pc[w] = "exited"
    /\ run' = "returned"
    /\ UNCHANGED <<queueVars, item, delayed, pc, cancelled>>

WorkerStep(w) ==
    \/ Loop(w)
    \/ GetNothing(w)
    \/ Get(w)
    \/ \E failed \in BOOLEAN : Sync(w, failed)
    \/ Done(w)

Next ==
    \/ \E k \in Key : Add(k)
    \/ \E k \in Key : TimerFires(k)
    \/ \E w \in Worker : WorkerStep(w)
    \/ Stop
    \/ ShutDown
    \/ CancelQueue
    \/ Return

\* Every goroutine gets to run, and every sync comes to its end.
Fairness ==
    /\ \A w \in Worker : WF_vars(WorkerStep(w))
    /\ \A k \in Key : WF_vars(TimerFires(k))
    /\ WF_vars(ShutDown) /\ WF_vars(CancelQueue) /\ WF_vars(Return)

Spec == Init /\ [][Next]_vars /\ Fairness

-----------------------------------------------------------------------------
(* Properties.                                                             *)

TypeOK ==
    /\ queue \in Seq(Key)
    /\ dirty \in SUBSET Key
    /\ item \in [Worker -> Key \cup {NoKey}]
    /\ shuttingDown \in BOOLEAN
    /\ delayed \in SUBSET Key
    /\ pc \in [Worker -> WorkerPC]
    /\ cancelled \in BOOLEAN
    /\ run \in RunPC
    /\ \A w \in Worker : pc[w] \in {"sync", "done"} <=> item[w] # NoKey

\* What the comment on the fields promises: the queue holds the dirty keys
\* that nobody is processing, each of them once. A key missing from it would
\* never be synced again, one queued twice could be synced by two workers.
QueueHoldsDirty ==
    /\ \A k \in Key : InQueue(k) <=> (k \in dirty /\ k \notin processing)
    /\ \A i, j \in DOMAIN queue : queue[i] = queue[j] => i = j

\* One key is never synced by two workers at a time.
OneWorkerPerKey ==
    \A v, w \in Worker : item[v] = item[w] /\ item[v] # NoKey => v = w

\* While a worker sleeps every key in the queue has a worker on its way to it:
\* no wake-up of the condition variable goes to the wrong goroutine for good.
NobodyOversleeps ==
    Waiting # {} => Len(queue) <= Cardinality({w \in Worker : pc[w] = "get"})

\* A shutdown leaves nobody asleep on the condition variable, not even a worker
\* that was about to wait, and when Run() is back no sync runs or begins.
StopIsHeard ==
    /\ shuttingDown => Waiting = {}
    /\ run = "returned" => processing = {}

\* The queue keeps its promise.
Promise == INSTANCE CoalescingQueue
           WITH pending <- dirty, running <- item, closed <- shuttingDown

KeepsPromise == Promise!Spec

\* A failed sync is tried again, unless the controller stops.
FailuresAreRetried ==
    \A k \in Key : k \in delayed ~> (k \in processing \/ shuttingDown)

\* A controller that is told to stop does so, wherever its workers are: none
\* is left asleep on an empty queue.
StopsWhenTold == (run = "stopping") ~> (run = "returned")
=============================================================================
