--------------------------- MODULE CoalescingQueue ---------------------------
(***************************************************************************)
(* What a controller may rely on in its work queue: a key that is added is *)
(* handed to a worker afterwards, however many times it was added and      *)
(* whoever was busy with it at the time, and never to two workers at once. *)
(* The reconciler's module takes its queue to be this one.                 *)
(***************************************************************************)
CONSTANTS Key, Worker, NoKey

VARIABLES
    pending,  \* keys somebody asked for and no worker has taken since
    running,  \* the key each worker is busy with, or NoKey
    closed    \* nothing is accepted any more

promiseVars == <<pending, running, closed>>

Init ==
    /\ pending = {}
    /\ running = [w \in Worker |-> NoKey]
    /\ closed = FALSE

Add(k) ==
    /\ ~closed
    /\ pending' = pending \cup {k}
    /\ UNCHANGED <<running, closed>>

\* A key that is being worked on stays pending until its worker is done.
Start(w, k) ==
    /\ k \in pending
    /\ running[w] = NoKey
    /\ \A v \in Worker : running[v] # k
    /\ pending' = pending \ {k}
    /\ running' = [running EXCEPT ![w] = k]
    /\ UNCHANGED closed

Finish(w) ==
    /\ running[w] # NoKey
    /\ running' = [running EXCEPT ![w] = NoKey]
    /\ UNCHANGED <<pending, closed>>

Close ==
    /\ closed' = TRUE
    /\ UNCHANGED <<pending, running>>

Next ==
    \/ \E k \in Key : Add(k)
    \/ \E w \in Worker, k \in Key : Start(w, k)
    \/ \E w \in Worker : Finish(w)
    \/ Close

Safety == Init /\ [][Next]_promiseVars

\* As long as the queue is open no key waits for ever behind others.
Spec ==
    /\ Safety
    /\ \A k \in Key : SF_promiseVars(~closed /\ \E w \in Worker : Start(w, k))
=============================================================================
