--------------------------- MODULE WorkQueueProofs ---------------------------
(***************************************************************************)
(* The work queue hands every key to one worker at a time, and does what   *)
(* CoalescingQueue promises, for any number of keys and workers; and no    *)
(* worker oversleeps.                                                      *)
(***************************************************************************)
EXTENDS WorkQueue, SequenceTheorems, FiniteSetTheorems, TLAPS

LEMMA AppendFacts ==
    ASSUME NEW s \in Seq(Key), NEW k \in Key
    PROVE  /\ Append(s, k) \in Seq(Key)
           /\ Len(Append(s, k)) = Len(s) + 1
           /\ DOMAIN Append(s, k) = 1 .. Len(s) + 1
           /\ \A i \in 1 .. Len(s) : Append(s, k)[i] = s[i]
           /\ Append(s, k)[Len(s) + 1] = k
  BY AppendProperties

LEMMA TailFacts ==
    ASSUME NEW s \in Seq(Key), s # <<>>
    PROVE  /\ Tail(s) \in Seq(Key)
           /\ Head(s) \in Key
           /\ Head(s) = s[1]
           /\ Len(s) \in Nat \ {0}
           /\ DOMAIN Tail(s) = 1 .. Len(s) - 1
           /\ \A i \in 1 .. Len(s) - 1 : Tail(s)[i] = s[i + 1]
  <1>1. Len(s) \in Nat \ {0}
    BY EmptySeq, LenProperties
  <1>2. QED
    BY <1>1, HeadTailProperties, LenProperties

\* Every key of the queue has a position in it.
LEMMA Positions ==
    ASSUME TypeOK
    PROVE  /\ DOMAIN queue = 1 .. Len(queue)
           /\ Len(queue) \in Nat
           /\ \A i \in DOMAIN queue : queue[i] \in Key
  BY LenProperties DEF TypeOK

IInv == TypeOK /\ QueueHoldsDirty /\ OneWorkerPerKey

LEMMA InitInv == Init => IInv
  <1> SUFFICES ASSUME Init PROVE IInv
    OBVIOUS
  <1> USE DEF Init
  <1>1. TypeOK
    <2>1. queue \in Seq(Key)
      BY EmptySeq
    <2>2. pc \in [Worker -> WorkerPC] /\ run \in RunPC
      BY DEF WorkerPC, RunPC
    <2>3. \A w \in Worker : pc[w] \in {"sync", "done"} <=> item[w] # NoKey
      OBVIOUS
    <2>4. QED
      BY <2>1, <2>2, <2>3 DEF TypeOK
  <1>2. QueueHoldsDirty
    BY DEF QueueHoldsDirty, InQueue
  <1>3. OneWorkerPerKey
    BY DEF OneWorkerPerKey
  <1>4. QED
    BY <1>1, <1>2, <1>3 DEF IInv

\* A signal leaves all but sleepers where they are.
LEMMA SignalFacts ==
    ASSUME TypeOK, NEW p \in [Worker -> WorkerPC], Signal(p),
           \A w \in Waiting : p[w] = "wait"
    PROVE  /\ pc' \in [Worker -> WorkerPC]
           /\ \A w \in Worker : pc'[w] = p[w] \/ (p[w] = "wait" /\ pc'[w] = "get")
  BY DEF Signal, Waiting, WorkerPC, TypeOK

\* Add makes a key dirty, and queues it unless somebody processes it.
LEMMA EnqueueFacts ==
    ASSUME IInv, NEW k \in Key, Enqueue(k)
    PROVE  /\ dirty' = dirty \/ (~shuttingDown /\ dirty' = dirty \cup {k})
           /\ pc' \in [Worker -> WorkerPC]
           /\ \A w \in Worker : pc'[w] = pc[w] \/ (pc[w] = "wait" /\ pc'[w] = "get")
           /\ \/ queue' = queue /\ (dirty' = dirty \/ k \in processing)
              \/ /\ queue' = Append(queue, k)
                 /\ k \notin dirty /\ k \notin processing
                 /\ dirty' = dirty \cup {k}
  <1>1. CASE shuttingDown \/ k \in dirty
    BY <1>1 DEF Enqueue, IInv, TypeOK
  <1>2. CASE ~(shuttingDown \/ k \in dirty) /\ k \in processing
    BY <1>2 DEF Enqueue, IInv, TypeOK
  <1>3. CASE ~(shuttingDown \/ k \in dirty) /\ k \notin processing
    <2>1. /\ dirty' = dirty \cup {k}
          /\ queue' = Append(queue, k)
          /\ Signal(pc)
      BY <1>3 DEF Enqueue, Push
    <2>2. /\ pc \in [Worker -> WorkerPC]
          /\ \A w \in Waiting : pc[w] = "wait"
          /\ TypeOK
      BY DEF IInv, TypeOK, Waiting
    <2>3. /\ pc' \in [Worker -> WorkerPC]
          /\ \A w \in Worker : pc'[w] = pc[w] \/ (pc[w] = "wait" /\ pc'[w] = "get")
      BY <2>1, <2>2, SignalFacts
    <2>4. QED
      BY <1>3, <2>1, <2>3
  <1>4. QED
    BY <1>1, <1>2, <1>3

\* Adding a key preserves the invariant.
LEMMA EnqueueInv ==
    ASSUME IInv, NEW k \in Key, Enqueue(k),
           UNCHANGED <<item, shuttingDown, cancelled, run>>,
           delayed' \in SUBSET Key
    PROVE  IInv'
  <1> USE DEF IInv
  <1>1. /\ \A w \in Worker : pc'[w] = pc[w] \/ (pc[w] = "wait" /\ pc'[w] = "get")
        /\ pc' \in [Worker -> WorkerPC]
    BY EnqueueFacts
  <1>2. dirty' \in SUBSET Key
    BY EnqueueFacts DEF TypeOK
  <1>3. queue' \in Seq(Key)
    <2>1. queue \in Seq(Key)
      BY DEF TypeOK
    <2>2. queue' = queue \/ queue' = Append(queue, k)
      BY EnqueueFacts
    <2>3. QED
      BY <2>1, <2>2, AppendFacts
  <1>4. TypeOK'
    BY <1>1, <1>2, <1>3 DEF TypeOK
  <1>5. processing' = processing
    BY DEF processing
  <1>6. QueueHoldsDirty'
    <2>1. CASE queue' = queue /\ (dirty' = dirty \/ k \in processing)
      BY <2>1, <1>5, EnqueueFacts DEF QueueHoldsDirty, InQueue
    <2>2. CASE /\ queue' = Append(queue, k)
               /\ k \notin dirty /\ k \notin processing
               /\ dirty' = dirty \cup {k}
      <3>1. queue \in Seq(Key)
        BY DEF TypeOK
      <3>2. /\ DOMAIN queue = 1 .. Len(queue)
            /\ Len(queue) \in Nat
        BY Positions
      <3>3. \A i \in DOMAIN queue : queue[i] # k
        BY <2>2 DEF QueueHoldsDirty, InQueue
      <3>4. /\ DOMAIN queue' = 1 .. Len(queue) + 1
            /\ \A i \in 1 .. Len(queue) : queue'[i] = queue[i]
            /\ queue'[Len(queue) + 1] = k
        BY <2>2, <3>1, AppendFacts
      <3>5. \A j \in Key : InQueue(j)' <=> (InQueue(j) \/ j = k)
        BY <3>2, <3>4 DEF InQueue
      <3>6. \A i, j \in DOMAIN queue' : queue'[i] = queue'[j] => i = j
        <4> SUFFICES ASSUME NEW i \in DOMAIN queue', NEW j \in DOMAIN queue',
                            queue'[i] = queue'[j]
                     PROVE  i = j
          OBVIOUS
        <4>1. (i \in DOMAIN queue \/ i = Len(queue) + 1)
              /\ (j \in DOMAIN queue \/ j = Len(queue) + 1)
          BY <3>2, <3>4
        <4>2. QED
          BY <4>1, <3>2, <3>3, <3>4 DEF QueueHoldsDirty
      <3>7. QED
        BY <2>2, <3>5, <3>6, <1>5 DEF QueueHoldsDirty
    <2>3. QED
      BY <2>1, <2>2, EnqueueFacts
  <1>7. OneWorkerPerKey'
    BY DEF OneWorkerPerKey
  <1>8. QED
    BY <1>4, <1>6, <1>7

\* Taking the first key preserves the invariant.
LEMMA GetInv ==
    ASSUME IInv, NEW w \in Worker, Get(w)
    PROVE  IInv'
  <1> USE DEF IInv
  <1> DEFINE k == Head(queue)
  <1>0. queue \in Seq(Key) /\ queue # <<>>
    BY DEF Get, TypeOK
  <1>1. /\ queue' = Tail(queue)
        /\ queue' \in Seq(Key)
        /\ k \in Key /\ k = queue[1]
        /\ Len(queue) \in Nat \ {0}
        /\ DOMAIN queue = 1 .. Len(queue)
        /\ DOMAIN queue' = 1 .. Len(queue) - 1
        /\ \A i \in 1 .. Len(queue) - 1 : queue'[i] = queue[i + 1]
    BY <1>0, TailFacts, Positions DEF Get
  <1>2. k \in dirty /\ k \notin processing
    BY <1>1 DEF QueueHoldsDirty, InQueue
  <1>3. item[w] = NoKey /\ item' = [item EXCEPT ![w] = k] /\ k # NoKey
    BY <1>1, WorkQueueAssumption DEF Get, TypeOK
  <1>4. processing' = processing \cup {k}
    BY <1>3 DEF processing, TypeOK
  <1>5. TypeOK'
    BY <1>1, <1>3 DEF TypeOK, Get, WorkerPC
  <1>6. \A j \in Key : InQueue(j)' <=> (InQueue(j) /\ j # k)
    <2> SUFFICES ASSUME NEW j \in Key PROVE InQueue(j)' <=> (InQueue(j) /\ j # k)
      OBVIOUS
    <2>1. ASSUME NEW i \in DOMAIN queue', queue'[i] = j PROVE InQueue(j) /\ j # k
      <3>1. i + 1 \in DOMAIN queue /\ queue[i + 1] = j /\ i + 1 # 1 /\ 1 \in DOMAIN queue
        BY <2>1, <1>1
      <3>2. QED
        BY <3>1, <1>1 DEF InQueue, QueueHoldsDirty
    <2>2. ASSUME NEW i \in DOMAIN queue, queue[i] = j, j # k PROVE InQueue(j)'
      <3>1. i # 1
        BY <2>2, <1>1
      <3>2. i - 1 \in DOMAIN queue' /\ queue'[i - 1] = j
        BY <3>1, <2>2, <1>1
      <3>3. QED
        BY <3>2 DEF InQueue
    <2>3. QED
      BY <2>1, <2>2 DEF InQueue
  <1>7. \A i, j \in DOMAIN queue' : queue'[i] = queue'[j] => i = j
    <2> SUFFICES ASSUME NEW i \in DOMAIN queue', NEW j \in DOMAIN queue',
                        queue'[i] = queue'[j]
                 PROVE  i = j
      OBVIOUS
    <2>1. /\ i \in Int /\ j \in Int
          /\ i + 1 \in DOMAIN queue /\ j + 1 \in DOMAIN queue
          /\ queue[i + 1] = queue[j + 1]
      BY <1>1
    <2>2. i + 1 = j + 1
      BY <2>1 DEF QueueHoldsDirty
    <2>3. QED
      BY <2>1, <2>2
  <1>8. QueueHoldsDirty'
    <2>1. dirty' = dirty \ {k}
      BY DEF Get
    <2>2. QED
      BY <2>1, <1>2, <1>4, <1>6, <1>7 DEF QueueHoldsDirty
  <1>9. OneWorkerPerKey'
    <2>1. \A v \in Worker : item[v] # k
      BY <1>2, <1>3 DEF processing
    <2>2. QED
      BY <2>1, <1>3 DEF OneWorkerPerKey, TypeOK
  <1>10. QED
    BY <1>5, <1>8, <1>9

\* What Done changes: its worker's key is processed by nobody, and queued if
\* it is dirty.
LEMMA DoneFacts ==
    ASSUME IInv, NEW w \in Worker, Done(w)
    PROVE  /\ item[w] \in Key
           /\ item' = [item EXCEPT ![w] = NoKey]
           /\ processing' = processing \ {item[w]}
           /\ item[w] \in processing
           /\ queue' = IF item[w] \in dirty THEN Append(queue, item[w]) ELSE queue
           /\ UNCHANGED <<dirty, shuttingDown, delayed, cancelled, run>>
           /\ pc' \in [Worker -> WorkerPC]
           /\ \A v \in Worker : pc'[v] = (IF v = w THEN "loop" ELSE pc[v])
                                \/ (pc[v] = "wait" /\ pc'[v] = "get")
  <1> USE DEF IInv
  <1> DEFINE p == [pc EXCEPT ![w] = "loop"]
  <1>1. /\ pc[w] = "done"
        /\ item[w] \in Key
        /\ item[w] # NoKey
    BY WorkQueueAssumption DEF Done, TypeOK
  <1>2. /\ item' = [item EXCEPT ![w] = NoKey]
        /\ UNCHANGED <<dirty, shuttingDown, delayed, cancelled, run>>
        /\ queue' = IF item[w] \in dirty THEN Append(queue, item[w]) ELSE queue
        /\ Signal(p) \/ pc' = p
    BY DEF Done, Push
  <1>3. item[w] \in processing
    BY <1>1 DEF processing
  <1>4. processing' = processing \ {item[w]}
    <2>1. \A v \in Worker : item'[v] = IF v = w THEN NoKey ELSE item[v]
      BY <1>2 DEF TypeOK
    <2>2. \A v \in Worker : v # w => item[v] # item[w]
      BY <1>1 DEF OneWorkerPerKey
    <2>3. \A k : k \in processing' <=> (k \in processing /\ k # item[w])
      BY <2>1, <2>2, <1>1 DEF processing
    <2>4. QED
      BY <2>3
  <1>5. /\ p \in [Worker -> WorkerPC]
        /\ \A v \in Waiting : p[v] = "wait"
        /\ \A v \in Worker : p[v] = IF v = w THEN "loop" ELSE pc[v]
    BY <1>1 DEF TypeOK, WorkerPC, Waiting
  <1>6. /\ pc' \in [Worker -> WorkerPC]
        /\ \A v \in Worker : pc'[v] = p[v] \/ (p[v] = "wait" /\ pc'[v] = "get")
    BY <1>2, <1>5, SignalFacts
  <1>7. \A v \in Worker : pc'[v] = (IF v = w THEN "loop" ELSE pc[v])
                          \/ (pc[v] = "wait" /\ pc'[v] = "get")
    BY <1>5, <1>6, <1>1
  <1>8. QED
    BY <1>1, <1>2, <1>3, <1>4, <1>6, <1>7

LEMMA DoneInv ==
    ASSUME IInv, NEW w \in Worker, Done(w)
    PROVE  IInv'
  <1> USE DEF IInv
  <1> DEFINE k == item[w]
  <1>0. queue \in Seq(Key) /\ DOMAIN queue = 1 .. Len(queue) /\ Len(queue) \in Nat
    BY Positions DEF TypeOK
  <1>1. queue' \in Seq(Key)
    BY <1>0, DoneFacts, AppendFacts
  <1>2. TypeOK'
    <2>1. pc[w] = "done"
      BY DEF Done
    <2>2. \A v \in Worker : pc'[v] \in {"sync", "done"} <=> item'[v] # NoKey
      BY <2>1, DoneFacts DEF TypeOK
    <2>3. QED
      BY <1>1, <2>2, DoneFacts DEF TypeOK
  <1>3. ~InQueue(k)
    BY DoneFacts DEF QueueHoldsDirty
  <1>4. QueueHoldsDirty'
    <2>1. CASE k \notin dirty
      <3>1. queue' = queue /\ dirty' = dirty
        BY <2>1, DoneFacts
      <3>2. \A j \in Key : InQueue(j)' <=> InQueue(j)
        BY <3>1 DEF InQueue
      <3>3. QED
        BY <2>1, <3>1, <3>2, DoneFacts DEF QueueHoldsDirty
    <2>2. CASE k \in dirty
      <3>1. /\ queue' = Append(queue, k)
            /\ k \in Key
            /\ dirty' = dirty
        BY <2>2, DoneFacts
      <3>2. /\ DOMAIN queue' = 1 .. Len(queue) + 1
            /\ \A i \in 1 .. Len(queue) : queue'[i] = queue[i]
            /\ queue'[Len(queue) + 1] = k
        BY <3>1, <1>0, AppendFacts
      <3>3. \A j \in Key : InQueue(j)' <=> (InQueue(j) \/ j = k)
        BY <3>2, <1>0 DEF InQueue
      <3>4. \A i \in DOMAIN queue : queue[i] # k
        BY <1>3 DEF InQueue
      <3>5. \A i, j \in DOMAIN queue' : queue'[i] = queue'[j] => i = j
        <4> SUFFICES ASSUME NEW i \in DOMAIN queue', NEW j \in DOMAIN queue',
                            queue'[i] = queue'[j]
                     PROVE  i = j
          OBVIOUS
        <4>1. (i \in DOMAIN queue \/ i = Len(queue) + 1)
              /\ (j \in DOMAIN queue \/ j = Len(queue) + 1)
          BY <1>0, <3>2
        <4>2. QED
          BY <4>1, <1>0, <3>2, <3>4 DEF QueueHoldsDirty
      <3>6. QED
        BY <2>2, <3>1, <3>3, <3>5, DoneFacts DEF QueueHoldsDirty
    <2>3. QED
      BY <2>1, <2>2
  <1>5. OneWorkerPerKey'
    BY DoneFacts DEF OneWorkerPerKey, TypeOK
  <1>6. QED
    BY <1>2, <1>4, <1>5

\* Steps that move goroutines only.
LEMMA MoveInv ==
    ASSUME IInv, UNCHANGED <<queue, dirty, item>>, TypeOK'
    PROVE  IInv'
  BY DEF IInv, QueueHoldsDirty, OneWorkerPerKey, InQueue, processing

LEMMA NextInv == IInv /\ [Next]_vars => IInv'
  <1> SUFFICES ASSUME IInv, [Next]_vars PROVE IInv'
    OBVIOUS
  <1>0. TypeOK
    BY DEF IInv
  <1>1. ASSUME NEW k \in Key, Add(k) PROVE IInv'
    BY <1>0, <1>1, EnqueueInv DEF Add, TypeOK
  <1>2. ASSUME NEW k \in Key, TimerFires(k) PROVE IInv'
    BY <1>0, <1>2, EnqueueInv DEF TimerFires, TypeOK
  <1>3. ASSUME NEW w \in Worker, Loop(w) PROVE IInv'
    BY <1>0, <1>3, MoveInv DEF Loop, queueVars, TypeOK, WorkerPC
  <1>4. ASSUME NEW w \in Worker, GetNothing(w) PROVE IInv'
    BY <1>0, <1>4, MoveInv DEF GetNothing, queueVars, TypeOK, WorkerPC
  <1>5. ASSUME NEW w \in Worker, Get(w) PROVE IInv'
    BY <1>5, GetInv
  <1>6. ASSUME NEW w \in Worker, NEW failed \in BOOLEAN, Sync(w, failed) PROVE IInv'
    <2>1. item[w] \in Key
      BY <1>0, <1>6 DEF TypeOK, Sync
    <2>2. TypeOK'
      BY <1>0, <1>6, <2>1 DEF Sync, queueVars, TypeOK, WorkerPC
    <2>3. QED
      BY <1>6, <2>2, MoveInv DEF Sync, queueVars
  <1>7. ASSUME NEW w \in Worker, Done(w) PROVE IInv'
    BY <1>7, DoneInv
  <1>8. CASE Stop
    BY <1>0, <1>8, MoveInv DEF Stop, queueVars, TypeOK, RunPC
  <1>9. CASE ShutDown
    <2>1. TypeOK'
      BY <1>0, <1>9 DEF ShutDown, TypeOK, RunPC, WorkerPC, Waiting
    <2>2. QED
      BY <1>9, <2>1, MoveInv DEF ShutDown
  <1>10. CASE CancelQueue
    BY <1>0, <1>10, MoveInv DEF CancelQueue, queueVars, TypeOK
  <1>11. CASE Return
    BY <1>0, <1>11, MoveInv DEF Return, queueVars, TypeOK, RunPC
  <1>12. CASE UNCHANGED vars
    BY <1>0, <1>12, MoveInv DEF vars, TypeOK
  <1>13. QED
    BY <1>1, <1>2, <1>3, <1>4, <1>5, <1>6, <1>7, <1>8, <1>9, <1>10, <1>11, <1>12
    DEF Next, WorkerStep

\* IInv is an invariant of the queue.
THEOREM Invariant == Spec => []IInv
  BY InitInv, NextInv, PTL DEF Spec

\* Every reachable state has the right types; a worker has a key exactly while
\* it is between Get() and Done().
THEOREM TypeCorrect == Spec => []TypeOK
  <1>1. IInv => TypeOK
    BY DEF IInv
  <1>2. QED
    BY <1>1, Invariant, PTL

\* The comment on the queue's fields is true: the queue holds the dirty keys
\* that nobody processes, once each.
THEOREM QueueIsExact == Spec => []QueueHoldsDirty
  <1>1. IInv => QueueHoldsDirty
    BY DEF IInv
  <1>2. QED
    BY <1>1, Invariant, PTL

-----------------------------------------------------------------------------
(* Sleeping and waking up.                                                 *)

\* The workers on their way to the queue.
Looking == {w \in Worker : pc[w] = "get"}

LEMMA LookingType ==
    /\ IsFiniteSet(Looking) /\ Cardinality(Looking) \in Nat
    /\ IsFiniteSet(Looking') /\ Cardinality(Looking') \in Nat
  <1>1. Looking \in SUBSET Worker /\ Looking' \in SUBSET Worker
    BY DEF Looking
  <1>2. QED
    BY <1>1, WorkQueueAssumption, FS_Subset, FS_CardinalityType

\* As many workers on their way, or more, for no more keys.
LEMMA StillLooking ==
    ASSUME TypeOK, NobodyOversleeps, Waiting' \subseteq Waiting, Looking \subseteq Looking',
           queue' = queue
    PROVE  NobodyOversleeps'
  <1>1. Cardinality(Looking) <= Cardinality(Looking')
    BY LookingType, FS_Subset
  <1>2. Len(queue) \in Nat
    BY Positions
  <1>3. Waiting' # {} => Cardinality(Looking) <= Cardinality(Looking') /\ Len(queue) <= Cardinality(Looking)
    BY <1>1 DEF NobodyOversleeps, Looking
  <1>4. QED
    BY <1>2, <1>3, LookingType DEF NobodyOversleeps, Looking

\* A signal sends one sleeper on its way, unless there is none.
LEMMA SignalSends ==
    ASSUME TypeOK, NEW p \in [Worker -> WorkerPC], Signal(p),
           \A v \in Worker : p[v] = "wait" <=> pc[v] = "wait",
           \A v \in Worker : p[v] = "get" <=> pc[v] = "get"
    PROVE  /\ Waiting' \subseteq Waiting
           /\ Looking \subseteq Looking'
           /\ Waiting' # {} => Cardinality(Looking) + 1 <= Cardinality(Looking')
  <1>1. CASE Waiting = {}
    BY <1>1 DEF Signal, Waiting, Looking
  <1>2. CASE Waiting # {}
    <2>1. PICK v \in Waiting : pc' = [p EXCEPT ![v] = "get"]
      BY <1>2 DEF Signal
    <2>2. v \in Worker /\ v \notin Looking /\ v \in Looking'
      BY <2>1 DEF Waiting, Looking
    <2>3. /\ \A u \in Worker : pc'[u] = IF u = v THEN "get" ELSE p[u]
      BY <2>1
    <2>4. Waiting' \subseteq Waiting /\ Looking \subseteq Looking'
      BY <2>3 DEF Waiting, Looking
    <2>5. Cardinality(Looking \cup {v}) = Cardinality(Looking) + 1
      BY <2>2, LookingType, FS_AddElement
    <2>6. Looking \cup {v} \in SUBSET Looking'
      BY <2>2, <2>4
    <2>7. Cardinality(Looking \cup {v}) <= Cardinality(Looking')
      BY <2>6, LookingType, FS_Subset
    <2>8. QED
      BY <2>4, <2>5, <2>7
  <1>3. QED
    BY <1>1, <1>2

\* A key that comes to the queue has a sleeper sent on its way.
LEMMA PushAwake ==
    ASSUME TypeOK, NobodyOversleeps, NEW k \in Key, NEW p \in [Worker -> WorkerPC], Push(k, p),
           \A v \in Worker : p[v] = "wait" <=> pc[v] = "wait",
           \A v \in Worker : p[v] = "get" <=> pc[v] = "get"
    PROVE  NobodyOversleeps'
  <1>1. queue' = Append(queue, k) /\ Signal(p)
    BY DEF Push
  <1>2. Len(queue') = Len(queue) + 1 /\ Len(queue) \in Nat
    BY <1>1, AppendFacts, Positions DEF TypeOK
  <1>3. SUFFICES ASSUME Waiting' # {}
                 PROVE  Len(queue') <= Cardinality(Looking')
    BY DEF NobodyOversleeps, Looking
  <1>4. Cardinality(Looking) + 1 <= Cardinality(Looking') /\ Waiting # {}
    BY <1>1, <1>3, SignalSends
  <1>5. Len(queue) <= Cardinality(Looking)
    BY <1>4 DEF NobodyOversleeps, Looking
  <1>6. QED
    BY <1>2, <1>4, <1>5, LookingType

LEMMA GetAwake ==
    ASSUME TypeOK, NobodyOversleeps, NEW w \in Worker, Get(w)
    PROVE  NobodyOversleeps'
  <1>1. Waiting' = Waiting /\ Looking' = Looking \ {w} /\ w \in Looking
    BY DEF Get, Waiting, Looking, TypeOK, WorkerPC
  <1>2. Cardinality(Looking') = Cardinality(Looking) - 1
    BY <1>1, LookingType, FS_RemoveElement
  <1>3. queue \in Seq(Key) /\ queue # <<>> /\ queue' = Tail(queue)
    BY DEF Get, TypeOK
  <1>4. Len(queue') = Len(queue) - 1 /\ Len(queue) \in Nat
    BY <1>3, TailFacts, LenProperties
  <1>5. Waiting' # {} => Len(queue) <= Cardinality(Looking)
    BY <1>1 DEF NobodyOversleeps, Looking
  <1>6. QED
    BY <1>2, <1>4, <1>5, LookingType DEF NobodyOversleeps, Looking

LEMMA DoneAwake ==
    ASSUME TypeOK, NobodyOversleeps, NEW w \in Worker, Done(w)
    PROVE  NobodyOversleeps'
  <1> DEFINE p == [pc EXCEPT ![w] = "loop"]
  <1>1. /\ p \in [Worker -> WorkerPC]
        /\ \A v \in Worker : p[v] = "wait" <=> pc[v] = "wait"
        /\ \A v \in Worker : p[v] = "get" <=> pc[v] = "get"
    BY DEF Done, TypeOK, WorkerPC
  <1>2. CASE item[w] \in dirty
    <2>1. Push(item[w], p) /\ item[w] \in Key
      BY <1>2 DEF Done, TypeOK
    <2>2. QED
      BY <1>1, <2>1, PushAwake
  <1>3. CASE item[w] \notin dirty
    <2>1. queue' = queue /\ (Signal(p) \/ pc' = p)
      BY <1>3 DEF Done
    <2>2. CASE Signal(p)
      BY <1>1, <2>1, <2>2, SignalSends, StillLooking
    <2>3. CASE pc' = p
      <3>1. Waiting' = Waiting /\ Looking' = Looking
        BY <1>1, <2>3 DEF Waiting, Looking
      <3>2. QED
        BY <2>1, <3>1, StillLooking
    <2>4. QED
      BY <2>1, <2>2, <2>3
  <1>4. QED
    BY <1>2, <1>3

LEMMA EnqueueAwake ==
    ASSUME TypeOK, NobodyOversleeps, NEW k \in Key, Enqueue(k)
    PROVE  NobodyOversleeps'
  <1>1. CASE UNCHANGED <<queue, pc>>
    BY <1>1, StillLooking DEF Waiting, Looking
  <1>2. CASE Push(k, pc)
    BY <1>2, PushAwake DEF TypeOK
  <1>3. QED
    BY <1>1, <1>2 DEF Enqueue

LEMMA NextAwake == TypeOK /\ NobodyOversleeps /\ [Next]_vars => NobodyOversleeps'
  <1> SUFFICES ASSUME TypeOK, NobodyOversleeps, [Next]_vars PROVE NobodyOversleeps'
    OBVIOUS
  <1>1. ASSUME NEW k \in Key, Add(k) \/ TimerFires(k) PROVE NobodyOversleeps'
    BY <1>1, EnqueueAwake DEF Add, TimerFires
  <1>2. ASSUME NEW w \in Worker, Loop(w) \/ \E failed \in BOOLEAN : Sync(w, failed)
        PROVE  NobodyOversleeps'
    <2>1. Waiting' \subseteq Waiting /\ Looking \subseteq Looking' /\ queue' = queue
      BY <1>2 DEF Loop, Sync, queueVars, Waiting, Looking, TypeOK, WorkerPC
    <2>2. QED
      BY <2>1, StillLooking
  <1>3. ASSUME NEW w \in Worker, GetNothing(w) PROVE NobodyOversleeps'
    <2>1. queue' = <<>> /\ Len(queue') = 0
      BY <1>3, EmptySeq DEF GetNothing, queueVars
    <2>2. QED
      BY <2>1, LookingType DEF NobodyOversleeps, Looking
  <1>4. ASSUME NEW w \in Worker, Get(w) PROVE NobodyOversleeps'
    BY <1>4, GetAwake
  <1>5. ASSUME NEW w \in Worker, Done(w) PROVE NobodyOversleeps'
    BY <1>5, DoneAwake
  <1>6. CASE ShutDown
    <2>1. Waiting' = {}
      BY <1>6 DEF ShutDown, Waiting
    <2>2. QED
      BY <2>1 DEF NobodyOversleeps
  <1>7. CASE Stop \/ CancelQueue \/ Return \/ UNCHANGED vars
    BY <1>7, StillLooking DEF Stop, CancelQueue, Return, queueVars, vars, Waiting, Looking
  <1>8. QED
    BY <1>1, <1>2, <1>3, <1>4, <1>5, <1>6, <1>7 DEF Next, WorkerStep

\* The condition variable wakes enough workers: as long as one sleeps, no key is
\* in the queue without another on its way to it.
THEOREM EnoughAreAwake == Spec => []NobodyOversleeps
  <1>1. Init => NobodyOversleeps
    BY DEF Init, NobodyOversleeps, Waiting
  <1>2. QED
    BY <1>1, NextAwake, TypeCorrect, PTL DEF Spec

-----------------------------------------------------------------------------
(* The promise.                                                            *)

\* The queue implements the safety part of its promise: no key is lost by
\* Done(), none is worked on twice at a time, and none is accepted after
\* ShutDown().
THEOREM ImplementsPromise == Spec => Promise!Safety
  <1> USE DEF Promise!promiseVars
  <1>1. Init => Promise!Init
    BY DEF Init, Promise!Init
  <1>2. ASSUME IInv, [Next]_vars
        PROVE  [Promise!Next]_(Promise!promiseVars)
    <2>0. TypeOK
      BY <1>2 DEF IInv
    <2>1. ASSUME NEW k \in Key, Add(k) \/ TimerFires(k)
          PROVE  Promise!Add(k) \/ UNCHANGED <<dirty, item, shuttingDown>>
      <3>1. Enqueue(k) /\ UNCHANGED <<item, shuttingDown>>
        BY <2>1 DEF Add, TimerFires
      <3>2. QED
        BY <3>1, <1>2, EnqueueFacts DEF Promise!Add
    <2>2. ASSUME NEW w \in Worker, Get(w)
          PROVE  Promise!Start(w, Head(queue)) /\ Head(queue) \in Key
      <3>1. queue \in Seq(Key) /\ queue # <<>>
        BY <2>0, <2>2 DEF Get, TypeOK
      <3>2. Head(queue) \in Key /\ Head(queue) = queue[1] /\ 1 \in DOMAIN queue
        BY <3>1, <2>0, TailFacts, Positions
      <3>3. Head(queue) \in dirty /\ Head(queue) \notin processing
        BY <3>2, <1>2 DEF IInv, QueueHoldsDirty, InQueue
      <3>4. item[w] = NoKey /\ Head(queue) # NoKey
        BY <2>0, <2>2, <3>2, WorkQueueAssumption DEF Get, TypeOK
      <3>5. \A v \in Worker : item[v] # Head(queue)
        BY <3>3, <3>4 DEF processing
      <3>6. QED
        BY <2>2, <3>2, <3>3, <3>4, <3>5 DEF Get, Promise!Start
    <2>3. ASSUME NEW w \in Worker, Done(w)
          PROVE  Promise!Finish(w)
      <3>1. item[w] # NoKey
        BY <2>0, <2>3 DEF Done, TypeOK
      <3>2. QED
        BY <3>1, <1>2, <2>3, DoneFacts DEF Promise!Finish
    <2>4. ASSUME ShutDown PROVE Promise!Close
      BY <2>4 DEF ShutDown, Promise!Close
    <2>5. ASSUME NEW w \in Worker,
                 \/ Loop(w) \/ GetNothing(w)
                 \/ \E failed \in BOOLEAN : Sync(w, failed)
          PROVE  UNCHANGED <<dirty, item, shuttingDown>>
      BY <2>5 DEF Loop, GetNothing, Sync, queueVars
    <2>6. CASE Stop \/ CancelQueue \/ Return \/ UNCHANGED vars
      BY <2>6 DEF Stop, CancelQueue, Return, queueVars, vars
    <2>7. QED
      BY <1>2, <2>1, <2>2, <2>3, <2>4, <2>5, <2>6
      DEF Next, WorkerStep, Promise!Next
  <1>3. QED
    BY <1>1, <1>2, Invariant, PTL DEF Spec, Promise!Safety

-----------------------------------------------------------------------------
(* Stopping.                                                               *)

\* No key is synced by two workers at a time: what sync() relies on when it
\* keeps nothing but local variables between its calls.
THEOREM KeysAreNotShared == Spec => []OneWorkerPerKey
  <1>1. IInv => OneWorkerPerKey
    BY DEF IInv
  <1>2. QED
    BY <1>1, Invariant, PTL

\* Run() comes to its end step by step, and waits for every worker.
StopInv ==
    /\ run \in {"started", "stopping"} => ~shuttingDown
    /\ shuttingDown => Waiting = {}
    /\ run = "returned" => \A w \in Worker : pc[w] = "exited"

\* While the queue is shut down nobody is woken, since nobody sleeps.
LEMMA SignalNobody ==
    ASSUME NEW p, Signal(p), Waiting = {}
    PROVE  pc' = p
  BY DEF Signal

LEMMA EnqueueStops ==
    ASSUME TypeOK, StopInv, NEW k, Enqueue(k), UNCHANGED <<shuttingDown, run>>
    PROVE  StopInv'
  <1>1. CASE shuttingDown
    BY <1>1 DEF Enqueue, StopInv, Waiting
  <1>2. CASE ~shuttingDown
    <2>1. run # "returned" \/ \A w \in Worker : pc[w] = "exited"
      BY DEF StopInv
    <2>2. (\A w \in Worker : pc[w] = "exited") => pc' = pc
      BY SignalNobody DEF Enqueue, Push, Waiting
    <2>3. QED
      BY <1>2, <2>1, <2>2 DEF StopInv
  <1>3. QED
    BY <1>1, <1>2

\* A worker that leaves the queue alone goes to sleep only while it is open.
LEMMA WorkerStops ==
    ASSUME TypeOK, StopInv, NEW w \in Worker, NEW c \in WorkerPC, pc[w] # "exited",
           pc' = [pc EXCEPT ![w] = c], c = "wait" => ~shuttingDown,
           UNCHANGED <<shuttingDown, run>>
    PROVE  StopInv'
  BY DEF TypeOK, StopInv, Waiting

LEMMA DoneStops ==
    ASSUME TypeOK, StopInv, NEW w \in Worker, Done(w)
    PROVE  StopInv'
  <1> DEFINE p == [pc EXCEPT ![w] = "loop"]
  <1>1. run # "returned"
    BY DEF Done, StopInv
  <1>2. UNCHANGED <<shuttingDown, run>> /\ (Signal(p) \/ pc' = p)
    BY DEF Done, Push
  <1>3. CASE shuttingDown
    <2>1. pc' = p
      BY <1>2, <1>3, SignalNobody DEF StopInv
    <2>2. QED
      BY <1>1, <1>2, <1>3, <2>1 DEF TypeOK, StopInv, Waiting
  <1>4. CASE ~shuttingDown
    BY <1>1, <1>2, <1>4 DEF StopInv
  <1>5. QED
    BY <1>3, <1>4

LEMMA NextStops == TypeOK /\ StopInv /\ [Next]_vars => StopInv'
  <1> SUFFICES ASSUME TypeOK, StopInv, [Next]_vars PROVE StopInv'
    OBVIOUS
  <1>1. ASSUME NEW k \in Key, Add(k) \/ TimerFires(k)
        PROVE  StopInv'
    BY <1>1, EnqueueStops DEF Add, TimerFires
  <1>2. ASSUME NEW w \in Worker, WorkerStep(w)
        PROVE  StopInv'
    <2>1. CASE Loop(w)
      BY <2>1, WorkerStops DEF Loop, queueVars, WorkerPC
    <2>2. CASE GetNothing(w)
      BY <2>2, WorkerStops DEF GetNothing, queueVars, WorkerPC
    <2>3. CASE Get(w)
      BY <2>3, WorkerStops DEF Get, WorkerPC
    <2>4. ASSUME NEW f \in BOOLEAN, Sync(w, f)
          PROVE  StopInv'
      BY <2>4, WorkerStops DEF Sync, queueVars, WorkerPC
    <2>5. QED
      BY <1>2, <2>1, <2>2, <2>3, <2>4, DoneStops DEF WorkerStep
  <1>3. CASE Stop \/ CancelQueue
    BY <1>3 DEF Stop, CancelQueue, queueVars, StopInv, Waiting
  <1>4. CASE ShutDown
    <2>1. \A w \in Worker : pc'[w] # "wait"
      BY <1>4 DEF ShutDown, Waiting
    <2>2. QED
      BY <1>4, <2>1 DEF ShutDown, StopInv, Waiting
  <1>5. CASE Return
    BY <1>5 DEF Return, queueVars, StopInv, Waiting
  <1>6. CASE UNCHANGED vars
    BY <1>6 DEF vars, StopInv, Waiting
  <1>7. QED
    BY <1>1, <1>2, <1>3, <1>4, <1>5, <1>6 DEF Next

\* Whoever sleeps when the controller is stopped is woken, whoever was about to
\* sleep does not, and Run() returns after the last sync has ended.
THEOREM StopReachesAll == Spec => []StopIsHeard
  <1>1. Init => StopInv
    BY DEF Init, StopInv, Waiting
  <1>2. TypeOK /\ StopInv => StopIsHeard
    BY DEF TypeOK, StopInv, StopIsHeard, processing
  <1>3. QED
    BY <1>1, <1>2, NextStops, TypeCorrect, PTL DEF Spec
=============================================================================
