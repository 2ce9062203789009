------------------------ MODULE OperatorStatusProofs ------------------------
(***************************************************************************)
(* Theorems about OperatorStatus for every set of appliers, number of      *)
(* attempts and number of disturbances.                                    *)
(***************************************************************************)
EXTENDS OperatorStatus, SequenceTheorems, TLAPS

\* A status with one condition set is a status.
LEMMA StatusUpdate ==
  ASSUME NEW s \in Status, NEW o \in Owner, NEW v \in Condition
  PROVE  /\ [s EXCEPT ![o] = v] \in Status
         /\ [s EXCEPT ![o] = v][o] = v
  BY DEF Status

\* What is not a call of UpdateStatus, and what begins one, is of the right type.
LEMMA CallTypes ==
  ASSUME TypeOK
  PROVE  /\ NoCall \in Call
         /\ \A n \in 1..2 : NewCall(n) \in Call
         /\ NoTask \in [pc : {"idle", "get", "apply"}, value : Condition, equal : BOOLEAN]
<1>1. Unread \in Version
  BY DEF Unread, Version, Status, Condition
<1>2. want["reconciler"] \in Condition
  BY DEF TypeOK, Controller, Condition
<1>3. 1 \in 1..MaxAttempts
  BY StatusAssumption
<1>4. NoCall \in Call
  BY <1>1, <1>3 DEF NoCall, Call, Condition
<1>5. ASSUME NEW n \in 1..2
      PROVE  NewCall(n) \in Call
  BY <1>2, <1>4, <1>5 DEF NewCall, Call
<1>6. NoTask \in [pc : {"idle", "get", "apply"}, value : Condition, equal : BOOLEAN]
  BY DEF NoTask, Condition
<1>7. QED
  BY <1>4, <1>5, <1>6

\* A publication keeps the types of the CR and of what is on its way, and puts
\* the new version at the end of the latter.
LEMMA PublishType ==
  ASSUME TypeOK, NEW s \in Status, Publish(s)
  PROVE  /\ server' \in Version
         /\ inflight' \in Seq(Version)
         /\ inflight' # <<>>
         /\ inflight'[Len(inflight')] = server'
<1>1. server.rv + 1 \in Nat
  BY DEF TypeOK, Version
<1>2. server' \in Version
  BY <1>1 DEF Publish, Version
<1>3. inflight \in Seq(Version) /\ inflight' = Append(inflight, server')
  BY DEF Publish, TypeOK
<1>4. QED
  BY <1>2, <1>3

\* A write publishes, or it changes nothing, and then the status was that already.
LEMMA WriteType ==
  ASSUME TypeOK, NEW s \in Status, Write(s)
  PROVE  /\ server' \in Version
         /\ inflight' \in Seq(Version)
         /\ \/ inflight' # <<>> /\ inflight'[Len(inflight')] = server'
            \/ UNCHANGED crVars /\ server.status = s
<1>1. CASE s = server.status
  BY <1>1 DEF Write, crVars, TypeOK
<1>2. CASE s # server.status
  BY <1>2, PublishType DEF Write
<1>3. QED
  BY <1>1, <1>2

\* The statuses that are written: one with a writer's condition, one computed by
\* UpdateStatus.
LEMMA WrittenTypes ==
  ASSUME TypeOK
  PROVE  /\ \A w \in Writer : [server.status EXCEPT ![w] = task[w].value] \in Status
         /\ Stored \in Status
         /\ Stored["reconciler"] = op.value
         /\ server.status \in Status
<1>1. server.status \in Status /\ op.base.status \in Status /\ op.value \in Condition
  BY DEF TypeOK, Version, Call
<1>2. ASSUME NEW w \in Writer
      PROVE  [server.status EXCEPT ![w] = task[w].value] \in Status
  <2>1. w \in Owner /\ task[w].value \in Condition
    BY DEF TypeOK, Writer, Owner
  <2>2. QED
    BY <1>1, <2>1, StatusUpdate
<1>3. "reconciler" \in Owner
  BY DEF Owner
<1>4. QED
  BY <1>1, <1>2, <1>3, StatusUpdate DEF Stored

-----------------------------------------------------------------------------
(* Types.                                                                  *)

\* The operator starts in a state of the right type.
LEMMA InitType == Init => TypeOK
<1> SUFFICES ASSUME Init PROVE TypeOK
  OBVIOUS
<1>1. server \in Version /\ lister \in Version
  BY DEF Init, Version
<1>2. Unread \in Version
  BY DEF Unread, Version, Status, Condition
<1>3. op \in Call
  BY <1>2, StatusAssumption DEF Init, NoCall, Call, Condition
<1>4. inflight \in Seq(Version)
  BY DEF Init
<1>5. QED
  BY <1>1, <1>3, <1>4, StatusAssumption DEF Init, TypeOK, NoTask, Condition

\* A disturbance leaves a budget.
LEMMA SpendType ==
  ASSUME TypeOK, NEW k \in Disturbance, Spend(k)
  PROVE  left' \in [Disturbance -> Nat]
  BY DEF TypeOK, Spend

\* The two kinds of step of a call of ApplyOperatorStatus keep the types.
LEMMA ApplyType ==
  ASSUME TypeOK, NEW w \in Writer, ApplyOperatorStatus(w) \/ ApplyFails(w)
  PROVE  /\ server' \in Version
         /\ inflight' \in Seq(Version)
         /\ task' \in [Writer -> [pc : {"idle", "get", "apply"}, value : Condition,
                                  equal : BOOLEAN]]
<1>1. UNCHANGED crVars \/ Write([server.status EXCEPT ![w] = task[w].value])
  BY DEF ApplyOperatorStatus, ApplyFails
<1>2. server' \in Version /\ inflight' \in Seq(Version)
  BY <1>1, WrittenTypes, WriteType DEF crVars, TypeOK
<1>3. task' = [task EXCEPT ![w] = NoTask]
  BY DEF ApplyOperatorStatus, ApplyFails
<1>4. QED
  BY <1>2, <1>3, CallTypes DEF TypeOK

\* The steps of an applier, and of the writer of the report, keep the types.
LEMMA ApplierType ==
  ASSUME TypeOK,
         \/ \E a \in Applier : ApplierStep(a) \/ ApplierFails(a)
         \/ GetApplied("report")
  PROVE  TypeOK'
<1>1. ASSUME NEW w \in Writer, GetApplied(w)
      PROVE  TypeOK'
  BY <1>1 DEF GetApplied, TypeOK, crVars, syncVars
<1>2. ASSUME NEW a \in Applier, StartApplier(a)
      PROVE  TypeOK'
  <2>1. a \in Writer /\ want[a] \in Condition
    BY DEF TypeOK, Writer, Controller, Condition
  <2>2. QED
    BY <1>2, <2>1 DEF StartApplier, BeginApply, TypeOK, crVars, syncVars
<1>3. ASSUME NEW a \in Applier, ApplierApplies(a)
      PROVE  TypeOK'
  <2>1. a \in Writer /\ a \in Controller
    BY DEF Writer, Controller
  <2>2. QED
    BY <1>3, <2>1, ApplyType DEF ApplierApplies, TypeOK, syncVars
<1>4. ASSUME NEW a \in Applier, ApplierFails(a)
      PROVE  TypeOK'
  <2>1. a \in Writer /\ a \in Controller
    BY DEF Writer, Controller
  <2>2. left' \in [Disturbance -> Nat]
    BY <1>4, SpendType DEF ApplierFails, ApplyFails, Disturbance
  <2>3. QED
    BY <1>4, <2>1, <2>2, ApplyType DEF ApplierFails, TypeOK, syncVars
<1>5. "report" \in Writer /\ Applier \subseteq Writer
  BY DEF Writer
<1>6. QED
  BY <1>1, <1>2, <1>3, <1>4, <1>5 DEF ApplierStep

\* Where a call of UpdateStatus can go keeps the types of the sync's variables.
LEMMA CallSteps ==
  ASSUME TypeOK
  PROVE  /\ Return \/ Fail => pc' \in {"between", "report"} /\ op' \in Call
         /\ \A v \in Version : Compute(v) =>
               pc' \in {"between", "report", "get"} /\ op' \in Call
<1>1. Return \/ Fail => pc' \in {"between", "report"} /\ op' \in Call
  BY CallTypes DEF Return, Fail, Call
<1>2. ASSUME NEW v \in Version, Compute(v)
      PROVE  pc' \in {"between", "report", "get"} /\ op' \in Call
  <2>1. [op EXCEPT !.base = v] \in Call
    BY DEF TypeOK, Call
  <2>2. QED
    BY <1>1, <1>2, <2>1 DEF Compute
<1>3. QED
  BY <1>1, <1>2

\* The steps of a sync keep the types.
LEMMA SyncType == TypeOK /\ (SyncStep \/ SyncFails \/ ReportFails) => TypeOK'
<1> SUFFICES ASSUME TypeOK, SyncStep \/ SyncFails \/ ReportFails PROVE TypeOK'
  OBVIOUS
<1>1. CASE StartSync
  BY <1>1, CallTypes DEF StartSync, TypeOK, crVars
<1>2. CASE ReadLister
  BY <1>2, CallSteps DEF ReadLister, TypeOK, crVars
<1>3. CASE ReadLive
  BY <1>3, CallSteps DEF ReadLive, TypeOK, crVars
<1>4. CASE GetOriginal
  <2>1. op.base.rv \in Nat /\ server.rv \in Nat
    BY DEF TypeOK, Call, Version
  <2>2. \A rv \in op.base.rv .. server.rv - 1 : rv \in Nat
    BY <2>1
  <2>3. op' \in Call
    BY <1>4, <2>1, <2>2 DEF GetOriginal, TypeOK, Call
  <2>4. left' \in [Disturbance -> Nat]
    BY <1>4, SpendType DEF GetOriginal, TypeOK, Disturbance
  <2>5. QED
    BY <1>4, <2>3, <2>4 DEF GetOriginal, TypeOK, crVars
<1>5. CASE PutStatus
  <2>1. server' \in Version /\ inflight' \in Seq(Version)
    BY <1>5, WrittenTypes, WriteType DEF PutStatus, TypeOK, crVars
  <2>2. MayRetry => [op EXCEPT !.attempt = @ + 1, !.fetched = 0] \in Call
    <3>1. op \in Call
      BY DEF TypeOK
    <3>2. MayRetry => op.attempt + 1 \in 1..MaxAttempts
      BY <3>1, StatusAssumption DEF Call, MayRetry
    <3>3. QED
      BY <3>1, <3>2 DEF Call
  <2>3. op' \in Call /\ pc' \in {"read", "between", "report"}
    BY <1>5, <2>2, CallSteps DEF PutStatus
  <2>4. QED
    BY <1>5, <2>1, <2>3 DEF PutStatus, TypeOK
<1>6. CASE NextCall
  BY <1>6, CallTypes DEF NextCall, TypeOK, crVars
<1>7. CASE StartReport
  <2>1. "report" \in Writer /\ Outcome \in Condition
    BY DEF Writer, Outcome, Condition, Known
  <2>2. QED
    BY <1>7, <2>1 DEF StartReport, BeginApply, TypeOK, crVars
<1>8. CASE GetApplied("report")
  BY <1>8, ApplierType
<1>9. CASE Report
  <2>1. "report" \in Writer /\ "reconciler" \in Controller
    BY DEF Writer, Controller
  <2>2. QED
    BY <1>9, <2>1, ApplyType, CallTypes DEF Report, EndSync, TypeOK
<1>10. CASE SyncFails
  <2>1. server' \in Version /\ inflight' \in Seq(Version)
    BY <1>10, WrittenTypes, WriteType DEF SyncFails, TypeOK, crVars
  <2>2. left' \in [Disturbance -> Nat]
    BY <1>10, SpendType DEF SyncFails, Disturbance
  <2>3. QED
    BY <1>10, <2>1, <2>2, CallSteps DEF SyncFails, TypeOK
<1>11. CASE ReportFails
  <2>1. "report" \in Writer /\ "reconciler" \in Controller
    BY DEF Writer, Controller
  <2>2. left' \in [Disturbance -> Nat]
    BY <1>11, SpendType DEF ReportFails, ApplyFails, Disturbance
  <2>3. QED
    BY <1>11, <2>1, <2>2, ApplyType, CallTypes DEF ReportFails, EndSync, TypeOK
<1>12. QED
  BY <1>1, <1>2, <1>3, <1>4, <1>5, <1>6, <1>7, <1>8, <1>9, <1>10, <1>11 DEF SyncStep

\* Everything else keeps the types.
LEMMA OtherType ==
  ASSUME TypeOK,
         \/ Deliver \/ EditSpec \/ Restart
         \/ \E c \in Controller : ChangeInput(c) \/ Resync(c)
  PROVE  TypeOK'
<1>1. CASE Deliver
  <2>1. Head(inflight) \in Version /\ Tail(inflight) \in Seq(Version)
    BY <1>1 DEF Deliver, TypeOK
  <2>2. QED
    BY <1>1, <2>1 DEF Deliver, TypeOK, syncVars
<1>2. CASE EditSpec
  <2>1. server' \in Version /\ inflight' \in Seq(Version)
    BY <1>2, WrittenTypes, PublishType DEF EditSpec
  <2>2. left' \in [Disturbance -> Nat]
    BY <1>2, SpendType DEF EditSpec, Disturbance
  <2>3. QED
    BY <1>2, <2>1, <2>2 DEF EditSpec, TypeOK, syncVars
<1>3. CASE Restart
  <2>1. left' \in [Disturbance -> Nat]
    BY <1>3, SpendType DEF Restart, Disturbance
  <2>2. QED
    BY <1>3, <2>1, CallTypes DEF Restart, TypeOK, crVars
<1>4. ASSUME NEW c \in Controller, ChangeInput(c)
      PROVE  TypeOK'
  <2>1. left' \in [Disturbance -> Nat]
    BY <1>4, SpendType DEF ChangeInput, Disturbance
  <2>2. QED
    BY <1>4, <2>1 DEF ChangeInput, TypeOK, crVars, syncVars
<1>5. ASSUME NEW c \in Controller, Resync(c)
      PROVE  TypeOK'
  <2>1. left' \in [Disturbance -> Nat]
    BY <1>5, SpendType DEF Resync, Disturbance
  <2>2. QED
    BY <1>5, <2>1 DEF Resync, TypeOK, crVars, syncVars
<1>6. QED
  BY <1>1, <1>2, <1>3, <1>4, <1>5

\* Every step keeps the types.
LEMMA NextType == TypeOK /\ [Next]_vars => TypeOK'
<1> SUFFICES ASSUME TypeOK, [Next]_vars PROVE TypeOK'
  OBVIOUS
<1>1. CASE Next
  BY <1>1, ApplierType, SyncType, OtherType DEF Next, Disturb
<1>2. CASE UNCHANGED vars
  BY <1>2 DEF vars, TypeOK
<1>3. QED
  BY <1>1, <1>2

\* Every reachable state has the right types; among them, that UpdateStatus makes
\* no more attempts than retry.DefaultBackoff has steps.
THEOREM TypeCorrect == Spec => []TypeOK
<1>1. QED
  BY InitType, NextType, PTL DEF Spec

-----------------------------------------------------------------------------
(* The inductive invariant.                                                *)

\* A step of the controllers on the CR: the informer receives nothing, and
\* either a new version is on its way or the CR is as before.
Quiet == /\ lister' = lister
         /\ \/ inflight' # <<>> /\ inflight'[Len(inflight')] = server'
            \/ UNCHANGED crVars

\* Everything but a delivery is quiet.
LEMMA NextQuiet ==
  ASSUME TypeOK, Next
  PROVE  Deliver \/ Quiet
<1>1. ASSUME NEW w \in Writer, ApplyOperatorStatus(w) \/ ApplyFails(w), lister' = lister
      PROVE  Quiet
  <2>1. UNCHANGED crVars \/ Write([server.status EXCEPT ![w] = task[w].value])
    BY <1>1 DEF ApplyOperatorStatus, ApplyFails
  <2>2. QED
    BY <1>1, <2>1, WrittenTypes, WriteType DEF Quiet
<1>2. "report" \in Writer /\ Applier \subseteq Writer
  BY DEF Writer
<1>3. ASSUME NEW a \in Applier, ApplierStep(a) \/ ApplierFails(a)
      PROVE  Quiet
  BY <1>1, <1>2, <1>3 DEF ApplierStep, StartApplier, GetApplied, ApplierApplies,
     ApplierFails, Quiet
<1>4. CASE SyncStep \/ SyncFails \/ ReportFails
  <2>1. CASE PutStatus \/ SyncFails
    <3>1. (UNCHANGED crVars \/ Write(Stored)) /\ lister' = lister
      BY <2>1 DEF PutStatus, SyncFails
    <3>2. QED
      BY <3>1, WrittenTypes, WriteType DEF Quiet
  <2>2. CASE Report \/ ReportFails
    BY <1>1, <1>2, <2>2 DEF Report, ReportFails
  <2>3. CASE \/ StartSync \/ ReadLister \/ ReadLive \/ GetOriginal
             \/ NextCall \/ StartReport \/ GetApplied("report")
    BY <2>3 DEF StartSync, ReadLister, ReadLive, GetOriginal, NextCall, StartReport,
       GetApplied, Quiet
  <2>4. QED
    BY <1>4, <2>1, <2>2, <2>3 DEF SyncStep
<1>5. CASE EditSpec
  BY <1>5, WrittenTypes, PublishType DEF EditSpec, Quiet
<1>6. CASE Restart \/ \E c \in Controller : ChangeInput(c) \/ Resync(c)
  BY <1>6 DEF Restart, ChangeInput, Resync, Quiet
<1>7. QED
  BY <1>3, <1>4, <1>5, <1>6 DEF Next, Disturb

\* A sequence of two and more ends as its tail does.
LEMMA LastOfTail ==
  ASSUME NEW S, NEW s \in Seq(S), s # <<>>, Len(s) # 1
  PROVE  Tail(s) # <<>> /\ Tail(s)[Len(Tail(s))] = s[Len(s)]
<1>1. Tail(s) \in Seq(S) /\ Len(Tail(s)) = Len(s) - 1
  BY HeadTailProperties
<1>2. \A i \in 1 .. Len(Tail(s)) : Tail(s)[i] = s[i + 1]
  BY HeadTailProperties
<1>3. Len(s) \in Nat /\ Len(s) # 0
  BY EmptySeq, LenProperties
<1>4. ASSUME NEW n \in Nat, n # 0, n # 1
      PROVE  n - 1 \in 1 .. n - 1 /\ n - 1 + 1 = n /\ n - 1 # 0
  BY <1>4
<1>5. Tail(s)[Len(s) - 1] = s[Len(s)] /\ Len(Tail(s)) # 0
  BY <1>1, <1>2, <1>3, <1>4
<1>6. QED
  BY <1>1, <1>5, EmptySeq

\* The informer follows the API server.
LEMMA FollowsInv ==
  ASSUME TypeOK, InformerFollows, [Next]_vars
  PROVE  InformerFollows'
<1>1. CASE Quiet
  BY <1>1 DEF Quiet, InformerFollows, crVars
<1>2. CASE Deliver
  <2>1. /\ inflight \in Seq(Version) /\ inflight # <<>>
        /\ inflight' = Tail(inflight) /\ lister' = Head(inflight) /\ server' = server
        /\ inflight[Len(inflight)] = server
    BY <1>2 DEF Deliver, InformerFollows, TypeOK
  <2>2. CASE Len(inflight) = 1
    BY <2>1, <2>2 DEF InformerFollows
  <2>3. CASE Len(inflight) # 1
    <3>1. Tail(inflight) # <<>> /\ Tail(inflight)[Len(Tail(inflight))] = inflight[Len(inflight)]
      BY <2>1, <2>3, LastOfTail
    <3>2. QED
      BY <2>1, <3>1 DEF InformerFollows
  <2>4. QED
    BY <2>2, <2>3
<1>3. CASE UNCHANGED vars
  BY <1>3 DEF vars, crVars, InformerFollows
<1>4. QED
  BY <1>1, <1>2, <1>3, NextQuiet

\* What each step does to the call of a given applier: its own steps, the steps
\* that queue it, and the steps that leave its call and its input alone.
LEMMA ApplierFrame ==
  ASSUME TypeOK, Next, NEW a \in Applier
  PROVE  \/ ApplierStep(a) \/ ApplierFails(a)
         \/ a \in due'
         \/ /\ task'[a] = task[a] /\ want'[a] = want[a]
            /\ a \notin due' => a \notin due
<1>0. /\ a \in Writer /\ a \in Controller /\ a # "report" /\ a # "reconciler"
      /\ task \in [Writer -> [pc : {"idle", "get", "apply"}, value : Condition,
                              equal : BOOLEAN]]
      /\ want \in [Controller -> Known]
  BY StatusAssumption DEF Writer, Controller, TypeOK
<1> DEFINE Frame == /\ task'[a] = task[a] /\ want'[a] = want[a]
                    /\ a \notin due' => a \notin due
<1>1. ASSUME NEW b \in Applier, b # a, ApplierStep(b) \/ ApplierFails(b)
      PROVE  Frame
  BY <1>0, <1>1 DEF ApplierStep, ApplierFails, StartApplier, BeginApply, GetApplied,
     ApplierApplies, ApplyOperatorStatus, ApplyFails
<1>2. CASE SyncStep \/ SyncFails \/ ReportFails
  <2>1. CASE GetApplied("report") \/ StartReport
    BY <1>0, <2>1 DEF GetApplied, StartReport, BeginApply
  <2>2. CASE Report \/ ReportFails
    BY <1>0, <2>2 DEF Report, ReportFails, ApplyOperatorStatus, ApplyFails, EndSync
  <2>3. CASE \/ StartSync \/ ReadLister \/ ReadLive \/ GetOriginal \/ PutStatus
             \/ NextCall \/ SyncFails
    BY <1>0, <2>3 DEF StartSync, ReadLister, ReadLive, GetOriginal, PutStatus, NextCall,
       SyncFails
  <2>4. QED
    BY <1>2, <2>1, <2>2, <2>3 DEF SyncStep
<1>3. CASE Deliver \/ Restart
  BY <1>0, <1>3 DEF Deliver, Restart
<1>4. CASE EditSpec
  BY <1>4 DEF EditSpec
<1>5. ASSUME NEW c \in Controller, ChangeInput(c) \/ Resync(c)
      PROVE  a \in due' \/ Frame
  BY <1>0, <1>5 DEF ChangeInput, Resync
<1>6. QED
  BY <1>1, <1>2, <1>3, <1>4, <1>5 DEF Next, Disturb

\* An applier that is not due works on what it wants and has it when it sleeps.
LEMMA ApplierInv ==
  ASSUME TypeOK, NEW a \in Applier, ApplierCurrent(a), [Next]_vars
  PROVE  ApplierCurrent(a)'
<1>0. /\ a \in Writer /\ a \in Controller /\ a \in Owner
      /\ task \in [Writer -> [pc : {"idle", "get", "apply"}, value : Condition,
                              equal : BOOLEAN]]
  BY DEF Writer, Controller, Owner, TypeOK
<1>1. CASE a \in due'
  BY <1>1 DEF ApplierCurrent
<1>2. CASE /\ task'[a] = task[a] /\ want'[a] = want[a] /\ a \notin due /\ Next
           /\ a \notin due'
  <2>1. Quiet
    BY <1>0, <1>2, NextQuiet DEF Deliver
  <2>2. QED
    BY <1>2, <2>1 DEF Quiet, ApplierCurrent, crVars
<1>3. CASE StartApplier(a)
  <2>1. task'[a].pc = "get" /\ task'[a].value = want[a]
    BY <1>0, <1>3 DEF StartApplier, BeginApply
  <2>2. QED
    BY <1>3, <2>1 DEF StartApplier, ApplierCurrent
<1>4. CASE GetApplied(a)
  <2>1. /\ task[a].pc = "get" /\ task'[a].pc = "apply" /\ task'[a].value = task[a].value
        /\ task'[a].equal => server.status[a] = task[a].value
    BY <1>0, <1>4 DEF GetApplied
  <2>2. QED
    BY <1>4, <2>1 DEF GetApplied, ApplierCurrent, crVars
<1>5. CASE ApplierApplies(a)
  <2>1. task'[a].pc = "idle" /\ task[a].pc = "apply"
    BY <1>0, <1>5 DEF ApplierApplies, ApplyOperatorStatus, NoTask
  <2>2. CASE task[a].equal /\ UNCHANGED crVars
    BY <1>5, <2>1, <2>2 DEF ApplierApplies, ApplierCurrent, crVars
  <2>3. CASE Write([server.status EXCEPT ![a] = task[a].value])
    <3>1. [server.status EXCEPT ![a] = task[a].value] \in Status
      BY <1>0, WrittenTypes
    <3>2. CASE inflight' # <<>>
      BY <2>1, <3>2 DEF ApplierCurrent
    <3>3. CASE UNCHANGED crVars /\ server.status = [server.status EXCEPT ![a] = task[a].value]
      <4>1. server.status[a] = task[a].value
        BY <1>0, <3>3, StatusUpdate DEF TypeOK, Version, Status
      <4>2. QED
        BY <1>5, <2>1, <3>3, <4>1 DEF ApplierApplies, ApplierCurrent, crVars
    <3>4. QED
      BY <2>3, <3>1, <3>2, <3>3, WriteType
  <2>4. QED
    BY <1>5, <2>2, <2>3 DEF ApplierApplies, ApplyOperatorStatus
<1>6. CASE ApplierFails(a)
  BY <1>1, <1>6 DEF ApplierFails
<1>7. CASE UNCHANGED vars
  BY <1>7 DEF vars, crVars, ApplierCurrent
<1>8. QED
  BY <1>1, <1>2, <1>3, <1>4, <1>5, <1>6, <1>7, ApplierFrame DEF ApplierStep

\* What each step does to a sync: its own steps, the steps that queue it, and
\* the steps that leave it, its report and its input alone.
LEMMA SyncFrame ==
  ASSUME TypeOK, Next
  PROVE  \/ SyncStep \/ SyncFails \/ ReportFails \/ Restart
         \/ /\ UNCHANGED syncVars /\ task'["report"] = task["report"]
            /\ \/ "reconciler" \in due'
               \/ /\ want'["reconciler"] = want["reconciler"]
                  /\ "reconciler" \notin due
<1>0. /\ "report" \in Writer /\ "reconciler" \in Controller
      /\ "report" \notin Applier /\ "reconciler" \notin Applier
      /\ want \in [Controller -> Known]
      /\ task \in [Writer -> [pc : {"idle", "get", "apply"}, value : Condition,
                              equal : BOOLEAN]]
  BY StatusAssumption DEF Writer, Controller, TypeOK
<1>1. ASSUME NEW a \in Applier, ApplierStep(a) \/ ApplierFails(a)
      PROVE  /\ UNCHANGED syncVars /\ task'["report"] = task["report"]
             /\ want' = want
             /\ "reconciler" \notin due' => "reconciler" \notin due
  BY <1>0, <1>1 DEF ApplierStep, ApplierFails, StartApplier, BeginApply, GetApplied,
     ApplierApplies, ApplyOperatorStatus, ApplyFails
<1>2. ASSUME NEW c \in Controller, ChangeInput(c) \/ Resync(c)
      PROVE  /\ UNCHANGED syncVars /\ task' = task
             /\ \/ "reconciler" \in due'
                \/ /\ want'["reconciler"] = want["reconciler"]
                   /\ "reconciler" \notin due
  BY <1>0, <1>2 DEF ChangeInput, Resync
<1>3. CASE Deliver \/ EditSpec
  BY <1>0, <1>3 DEF Deliver, EditSpec
<1>4. QED
  BY <1>1, <1>2, <1>3 DEF Next, Disturb

\* The report runs while the sync is at it, and reports its outcome.
LEMMA ReportingInv ==
  ASSUME TypeOK, Reporting, [Next]_vars
  PROVE  Reporting'
<1>0. /\ "report" \in Writer
      /\ task \in [Writer -> [pc : {"idle", "get", "apply"}, value : Condition,
                              equal : BOOLEAN]]
  BY DEF Writer, TypeOK
<1>1. CASE UNCHANGED <<pc, op>> /\ task'["report"] = task["report"]
  BY <1>1 DEF Reporting, Outcome
<1>2. CASE \/ StartSync \/ ReadLister \/ ReadLive \/ GetOriginal \/ PutStatus
           \/ NextCall \/ SyncFails
  <2>1. pc # "reporting" /\ pc' # "reporting" /\ task' = task
    BY <1>2 DEF StartSync, ReadLister, ReadLive, Compute, Return, GetOriginal, PutStatus,
       Fail, NextCall, SyncFails
  <2>2. QED
    BY <2>1 DEF Reporting
<1>3. CASE StartReport
  <2>1. /\ task'["report"].pc = "get" /\ task'["report"].value = Outcome
        /\ pc' = "reporting" /\ op' = op
    BY <1>0, <1>3 DEF StartReport, BeginApply
  <2>2. QED
    BY <2>1 DEF Reporting, Outcome
<1>4. CASE GetApplied("report")
  <2>1. /\ task["report"].pc = "get" /\ task'["report"].pc = "apply"
        /\ task'["report"].value = task["report"].value
    BY <1>0, <1>4 DEF GetApplied
  <2>2. QED
    BY <1>4, <2>1 DEF GetApplied, syncVars, Reporting, Outcome
<1>5. CASE Report \/ ReportFails \/ Restart
  <2>1. task'["report"].pc = "idle" /\ pc' = "idle"
    BY <1>0, <1>5 DEF Report, ReportFails, Restart, ApplyOperatorStatus, ApplyFails,
       EndSync, NoTask
  <2>2. QED
    BY <2>1 DEF Reporting
<1>6. CASE UNCHANGED vars
  BY <1>1, <1>6 DEF vars
<1>7. QED
  BY <1>1, <1>2, <1>3, <1>4, <1>5, <1>6, SyncFrame DEF SyncStep, syncVars

\* A call of UpdateStatus that returns without an error has found its condition
\* in the CR or put it there, unless the informer has yet to hear of something.
LEMMA ReturnCurrent ==
  ASSUME TypeOK, InformerFollows, op.value = want["reconciler"],
         ReadLister \/ ReadLive \/ PutStatus
  PROVE  \/ /\ pc' \in {"read", "live", "get"} /\ op'.value = want["reconciler"]
         \/ pc' = "report" /\ op'.failed
         \/ /\ pc' \in {"between", "report"}
            /\ inflight' = <<>> => server'.status["reconciler"] = want["reconciler"]
<1>0. op \in Call /\ server.status \in Status
  BY DEF TypeOK, Version
<1>1. ASSUME NEW v \in Version, Compute(v)
      PROVE  \/ pc' = "get" /\ op'.value = op.value
             \/ pc' \in {"between", "report"} /\ v.status["reconciler"] = op.value
  BY <1>0, <1>1 DEF Compute, Return, Call
<1>2. CASE ReadLister
  <2>1. CASE lister.rv = op.base.rv
    BY <1>2, <2>1 DEF ReadLister
  <2>2. CASE lister.rv # op.base.rv
    <3>1. Compute(lister) /\ lister \in Version /\ UNCHANGED crVars
      BY <1>2, <2>2 DEF ReadLister, TypeOK
    <3>2. QED
      BY <1>1, <3>1 DEF InformerFollows, crVars
  <2>3. QED
    BY <2>1, <2>2
<1>3. CASE ReadLive
  <2>1. Compute(server) /\ server \in Version /\ UNCHANGED crVars
    BY <1>3 DEF ReadLive, TypeOK
  <2>2. QED
    BY <1>1, <2>1 DEF crVars
<1>4. CASE PutStatus
  <2>1. CASE op.fetched = server.rv
    <3>1. Write(Stored) /\ pc' \in {"between", "report"}
      BY <1>4, <2>1 DEF PutStatus, Return
    <3>2. inflight' # <<>> \/ (UNCHANGED crVars /\ server.status = Stored)
      BY <3>1, WrittenTypes, WriteType
    <3>3. QED
      BY <3>1, <3>2, WrittenTypes DEF crVars
  <2>2. CASE op.fetched # server.rv /\ MayRetry
    <3>1. pc' = "read" /\ op' = [op EXCEPT !.attempt = @ + 1, !.fetched = 0]
      BY <1>4, <2>2 DEF PutStatus
    <3>2. QED
      BY <1>0, <3>1 DEF Call
  <2>3. CASE op.fetched # server.rv /\ ~MayRetry
    BY <1>4, <2>3 DEF PutStatus, Fail, NoCall
  <2>4. QED
    BY <2>1, <2>2, <2>3
<1>5. QED
  BY <1>2, <1>3, <1>4

\* A write, or no call at all, leaves the informer something to hear of or the
\* CR as it is.
LEMMA ReportQuiet ==
  ASSUME TypeOK, Report
  PROVE  \/ inflight' # <<>>
         \/ UNCHANGED crVars /\ (task["report"].equal \/ server.status["report"] = task["report"].value)
<1>1. "report" \in Writer /\ "report" \in Owner
  BY DEF Writer, Owner
<1>2. CASE task["report"].equal /\ UNCHANGED crVars
  BY <1>2
<1>3. CASE Write([server.status EXCEPT !["report"] = task["report"].value])
  <2>1. [server.status EXCEPT !["report"] = task["report"].value] \in Status
    BY <1>1, WrittenTypes
  <2>2. \/ inflight' # <<>>
        \/ /\ UNCHANGED crVars
           /\ server.status = [server.status EXCEPT !["report"] = task["report"].value]
    BY <1>3, <2>1, WriteType
  <2>3. [server.status EXCEPT !["report"] = task["report"].value]["report"] = task["report"].value
    BY <1>1, WrittenTypes DEF Status
  <2>4. QED
    BY <2>2, <2>3
<1>4. QED
  BY <1>2, <1>3 DEF Report, ApplyOperatorStatus

\* A sync that is not due works on what the reconciler wants and leaves it.
LEMMA ReconcilerInv ==
  ASSUME TypeOK, InformerFollows, Reporting, ReconcilerCurrent, [Next]_vars
  PROVE  ReconcilerCurrent'
<1>1. CASE "reconciler" \in due'
  BY <1>1 DEF ReconcilerCurrent
<1>2. CASE /\ UNCHANGED syncVars /\ want'["reconciler"] = want["reconciler"]
           /\ "reconciler" \notin due /\ "reconciler" \notin due' /\ Next
  <2>1. Quiet
    BY <1>2, NextQuiet DEF Deliver, Controller
  <2>2. QED
    BY <1>2, <2>1 DEF Quiet, ReconcilerCurrent, crVars, syncVars
<1>3. CASE StartSync \/ NextCall
  <2>1. /\ pc' = "read" /\ op'.value = want["reconciler"] /\ want' = want
    BY <1>3 DEF StartSync, NextCall, NewCall, NoCall
  <2>2. QED
    BY <2>1 DEF ReconcilerCurrent
<1>4. CASE ReadLister \/ ReadLive \/ PutStatus
  <2>1. pc \in {"read", "live", "put"} /\ due' = due /\ want' = want
    BY <1>4 DEF ReadLister, ReadLive, PutStatus
  <2>2. CASE op.value = want["reconciler"]
    BY <1>4, <2>1, <2>2, ReturnCurrent DEF ReconcilerCurrent
  <2>3. CASE "reconciler" \in due
    BY <1>1, <2>1, <2>3
  <2>4. QED
    BY <2>1, <2>2, <2>3 DEF ReconcilerCurrent
<1>5. CASE GetOriginal
  <2>1. op \in Call
    BY DEF TypeOK
  <2>2. /\ pc = "get" /\ pc' = "put" /\ op'.value = op.value
        /\ due' = due /\ want' = want
    BY <1>5, <2>1 DEF GetOriginal, Call
  <2>3. QED
    BY <2>2 DEF ReconcilerCurrent
<1>6. CASE SyncFails
  BY <1>6 DEF SyncFails, Fail, NoCall, ReconcilerCurrent
<1>7. CASE StartReport \/ GetApplied("report")
  <2>1. /\ op' = op /\ due' = due /\ want' = want /\ UNCHANGED crVars
        /\ pc' = pc \/ (pc = "report" /\ pc' = "reporting")
    BY <1>7 DEF StartReport, GetApplied, syncVars
  <2>2. QED
    BY <2>1 DEF ReconcilerCurrent, crVars
<1>8. CASE Report
  <2>0. pc = "reporting"
    BY <1>8 DEF Report, ApplyOperatorStatus, Reporting
  <2>1. /\ op.failed => "reconciler" \in due'
        /\ ~op.failed => due' = due
        /\ pc' = "idle" /\ want' = want
    BY <1>8 DEF Report, EndSync
  <2>2. QED
    BY <1>1, <1>8, <2>0, <2>1, ReportQuiet DEF ReconcilerCurrent, crVars
<1>9. CASE ReportFails \/ Restart
  BY <1>1, <1>9 DEF ReportFails, EndSync, Restart, Controller
<1>10. CASE UNCHANGED vars
  BY <1>10 DEF vars, ReconcilerCurrent
<1>11. QED
  BY <1>1, <1>2, <1>3, <1>4, <1>5, <1>6, <1>7, <1>8, <1>9, <1>10, SyncFrame DEF SyncStep

\* What the report has seen or left in the CR is the outcome of the sync.
LEMMA ReportInv ==
  ASSUME TypeOK, InformerFollows, Reporting, ReportCurrent, [Next]_vars
  PROVE  ReportCurrent'
<1>0. /\ "report" \in Writer
      /\ task \in [Writer -> [pc : {"idle", "get", "apply"}, value : Condition,
                              equal : BOOLEAN]]
  BY DEF Writer, TypeOK
<1>1. CASE "reconciler" \in due'
  BY <1>1 DEF ReportCurrent
<1>2. CASE /\ UNCHANGED syncVars /\ task'["report"] = task["report"]
           /\ "reconciler" \notin due /\ "reconciler" \notin due' /\ Next
  <2>1. Quiet
    BY <1>2, NextQuiet DEF Deliver, Controller
  <2>2. QED
    BY <1>2, <2>1 DEF Quiet, ReportCurrent, crVars, syncVars
<1>3. CASE \/ StartSync \/ ReadLister \/ ReadLive \/ GetOriginal \/ PutStatus
           \/ NextCall \/ SyncFails
  <2>1. pc # "reporting" /\ pc' # "idle" /\ task' = task
    BY <1>3 DEF StartSync, ReadLister, ReadLive, Compute, Return, GetOriginal, PutStatus,
       Fail, NextCall, SyncFails
  <2>2. QED
    BY <2>1 DEF ReportCurrent, Reporting
<1>4. CASE StartReport
  <2>1. task'["report"].pc = "get" /\ pc' = "reporting"
    BY <1>0, <1>4 DEF StartReport, BeginApply
  <2>2. QED
    BY <2>1 DEF ReportCurrent
<1>5. CASE GetApplied("report")
  <2>1. /\ task["report"].pc = "get" /\ task'["report"].value = task["report"].value
        /\ task'["report"].equal => server.status["report"] = task["report"].value
        /\ UNCHANGED crVars /\ pc' = pc
    BY <1>0, <1>5 DEF GetApplied, syncVars
  <2>2. pc = "reporting"
    BY <2>1 DEF Reporting
  <2>3. QED
    BY <2>1, <2>2 DEF ReportCurrent, crVars
<1>6. CASE Report
  <2>1. /\ task["report"].pc = "apply" /\ task'["report"].pc = "idle"
        /\ op.failed => "reconciler" \in due'
        /\ ~op.failed => due' = due
    BY <1>0, <1>6 DEF Report, ApplyOperatorStatus, EndSync, NoTask
  <2>2. task["report"].value = Outcome
    BY <2>1 DEF Reporting
  <2>3. QED
    BY <1>1, <1>6, <2>1, <2>2, ReportQuiet DEF ReportCurrent, Outcome, crVars
<1>7. CASE ReportFails \/ Restart
  BY <1>1, <1>7 DEF ReportFails, EndSync, Restart, Controller
<1>8. CASE UNCHANGED vars
  BY <1>8 DEF vars, ReportCurrent
<1>9. QED
  BY <1>1, <1>2, <1>3, <1>4, <1>5, <1>6, <1>7, <1>8, SyncFrame DEF SyncStep

\* The invariant holds at the start, when every key waits and nothing is on its way.
LEMMA InitInv == Init => IInv
<1> SUFFICES ASSUME Init PROVE IInv
  OBVIOUS
<1>1. "report" \in Writer /\ Applier \subseteq Controller /\ "reconciler" \in Controller
  BY DEF Writer, Controller
<1>2. Reporting
  BY <1>1 DEF Init, Reporting, NoTask
<1>3. InformerFollows
  BY DEF Init, InformerFollows
<1>4. QED
  BY <1>1, <1>2, <1>3 DEF Init, IInv, ApplierCurrent, ReconcilerCurrent, ReportCurrent

\* IInv is inductive.
LEMMA NextInv == TypeOK /\ IInv /\ [Next]_vars => IInv'
<1> SUFFICES ASSUME TypeOK, IInv, [Next]_vars PROVE IInv'
  OBVIOUS
<1>1. InformerFollows'
  BY FollowsInv DEF IInv
<1>2. ASSUME NEW a \in Applier
      PROVE  ApplierCurrent(a)'
  BY ApplierInv DEF IInv
<1>3. ReconcilerCurrent' /\ Reporting' /\ ReportCurrent'
  BY ReconcilerInv, ReportingInv, ReportInv DEF IInv
<1>4. QED
  BY <1>1, <1>2, <1>3 DEF IInv

\* While a controller is not due, what its call has read or written so far is
\* what the CR holds, or an event is on its way.
THEOREM Invariant == Spec => []IInv
<1>1. QED
  BY InitInv, NextInv, TypeCorrect, PTL DEF Spec

\* No condition stays lost: whichever status UpdateOperatorStatus stored over
\* it, its owner is due, at work, or about to be told.
THEOREM NothingStaysLost == Spec => []LossesAreNoticed
<1>1. TypeOK /\ IInv => LossesAreNoticed
  <2> SUFFICES ASSUME TypeOK, IInv, inflight = <<>>
               PROVE  /\ \A c \in Controller : Asleep(c) => server.status[c] = want[c]
                      /\ Asleep("reconciler") => server.status["report"] = "False"
    BY DEF LossesAreNoticed
  <2>1. ASSUME NEW a \in Applier, Asleep(a)
        PROVE  server.status[a] = want[a]
    BY <2>1, StatusAssumption DEF Asleep, Idle, IInv, ApplierCurrent
  <2>2. ASSUME Asleep("reconciler")
        PROVE  /\ server.status["reconciler"] = want["reconciler"]
               /\ server.status["report"] = "False"
    BY <2>2 DEF Asleep, Idle, IInv, ReconcilerCurrent, ReportCurrent
  <2>3. QED
    BY <2>1, <2>2 DEF Controller
<1>2. QED
  BY <1>1, TypeCorrect, Invariant, PTL

-----------------------------------------------------------------------------
(* Who may change a condition.                                             *)

\* Each step but a publication leaves the server's version alone; a
\* publication adds the new version to what is on its way.
LEMMA ServerSteps ==
  ASSUME TypeOK, [Next]_vars
  PROVE  \/ UNCHANGED <<server, lister, inflight>>
         \/ /\ inflight # <<>> /\ server' = server
            /\ lister' = Head(inflight) /\ inflight' = Tail(inflight)
         \/ /\ server'.rv = server.rv + 1 /\ lister' = lister
            /\ inflight' = Append(inflight, server')
<1>1. ASSUME NEW s, Write(s) \/ Publish(s), UNCHANGED lister
      PROVE  \/ UNCHANGED <<server, lister, inflight>>
             \/ /\ server'.rv = server.rv + 1 /\ lister' = lister
                /\ inflight' = Append(inflight, server')
  BY <1>1 DEF Write, Publish, crVars
<1>2. CASE Deliver
  BY <1>2 DEF Deliver
<1>3. CASE EditSpec
  BY <1>1, <1>3 DEF EditSpec
<1>4. CASE Restart \/ (\E c \in Controller : ChangeInput(c) \/ Resync(c))
  BY <1>4 DEF Restart, ChangeInput, Resync, crVars
<1>5. ASSUME NEW a \in Applier, ApplierStep(a) \/ ApplierFails(a)
      PROVE  \/ UNCHANGED <<server, lister, inflight>>
             \/ /\ server'.rv = server.rv + 1 /\ lister' = lister
                /\ inflight' = Append(inflight, server')
  BY <1>1, <1>5 DEF ApplierStep, ApplierFails, StartApplier, GetApplied, ApplierApplies,
     ApplyOperatorStatus, ApplyFails, crVars
<1>6. CASE StartSync \/ ReadLister \/ ReadLive \/ GetOriginal \/ NextCall \/ StartReport
           \/ GetApplied("report")
  BY <1>6 DEF StartSync, ReadLister, ReadLive, GetOriginal, NextCall, StartReport,
     GetApplied, crVars
<1>7. CASE PutStatus \/ SyncFails
  BY <1>1, <1>7 DEF PutStatus, SyncFails, crVars
<1>8. CASE Report \/ ReportFails
  BY <1>1, <1>8 DEF Report, ReportFails, ApplyOperatorStatus, ApplyFails, crVars
<1>9. CASE UNCHANGED vars
  BY <1>9 DEF vars
<1>10. QED
  BY <1>2, <1>3, <1>4, <1>5, <1>6, <1>7, <1>8, <1>9 DEF Next, SyncStep, Disturb

\* A call of UpdateStatus works on what it had, on what it reads, or on nothing.
LEMMA BaseSteps ==
  ASSUME TypeOK, [Next]_vars
  PROVE  op'.base \in {op.base, lister, server, Unread}
<1>0. op \in Call
  BY DEF TypeOK
<1>1. ASSUME NEW v, Compute(v)
      PROVE  op'.base \in {v, Unread}
  BY <1>0, <1>1 DEF Compute, Return, NoCall, Call
<1>2. CASE UNCHANGED syncVars \/ UNCHANGED op
  BY <1>2 DEF syncVars
<1>3. CASE ReadLister \/ ReadLive
  BY <1>1, <1>3 DEF ReadLister, ReadLive
<1>4. CASE GetOriginal
  BY <1>0, <1>4 DEF GetOriginal, Call
<1>5. CASE PutStatus
  <2>1. /\ NoCall.base = Unread
        /\ [NoCall EXCEPT !.failed = TRUE].base = Unread
        /\ [op EXCEPT !.attempt = @ + 1, !.fetched = 0].base = op.base
    BY <1>0 DEF NoCall, Call
  <2>2. \/ op' = NoCall
        \/ op' = [NoCall EXCEPT !.failed = TRUE]
        \/ op' = [op EXCEPT !.attempt = @ + 1, !.fetched = 0]
    BY <1>5 DEF PutStatus, Return, Fail
  <2>3. QED
    BY <2>1, <2>2
<1>6. CASE StartSync \/ NextCall \/ SyncFails \/ Restart
  <2>1. /\ NoCall.base = Unread
        /\ [NoCall EXCEPT !.failed = TRUE].base = Unread
        /\ \A n \in 1..2 : NewCall(n).base = Unread
    BY DEF NoCall, NewCall
  <2>2. \/ op' = NoCall
        \/ op' = [NoCall EXCEPT !.failed = TRUE]
        \/ \E n \in 1..2 : op' = NewCall(n)
    BY <1>6 DEF StartSync, NextCall, SyncFails, Fail, Restart
  <2>3. QED
    BY <2>1, <2>2
<1>7. CASE Report \/ ReportFails
  BY <1>7 DEF Report, ReportFails, EndSync, NoCall
<1>8. CASE \/ Deliver \/ EditSpec \/ StartReport \/ GetApplied("report")
           \/ \E c \in Controller : ChangeInput(c) \/ Resync(c)
           \/ \E a \in Applier : ApplierStep(a) \/ ApplierFails(a)
  BY <1>8 DEF Deliver, EditSpec, ChangeInput, Resync, StartReport, GetApplied, ApplierStep,
     ApplierFails, StartApplier, ApplierApplies, syncVars
<1>9. CASE UNCHANGED vars
  BY <1>9 DEF vars
<1>10. QED
  BY <1>2, <1>3, <1>4, <1>5, <1>6, <1>7, <1>8, <1>9 DEF Next, SyncStep, Disturb

\* What is on its way to the informer was on its way, or is the server's version.
LEMMA InflightSteps ==
  ASSUME TypeOK, [Next]_vars, NEW i \in DOMAIN inflight'
  PROVE  inflight'[i] = server' \/ \E j \in DOMAIN inflight : inflight'[i] = inflight[j]
<1>0. inflight \in Seq(Version)
  BY DEF TypeOK
<1>1. CASE UNCHANGED inflight
  BY <1>1
<1>2. CASE inflight # <<>> /\ inflight' = Tail(inflight)
  <2>1. i + 1 \in DOMAIN inflight /\ inflight'[i] = inflight[i + 1]
    BY <1>0, <1>2
  <2>2. QED
    BY <2>1
<1>3. CASE inflight' = Append(inflight, server')
  <2>1. i \in 1..Len(inflight) + 1
    BY <1>0, <1>3
  <2>2. CASE i = Len(inflight) + 1
    BY <1>0, <1>3, <2>2
  <2>3. CASE i \in 1..Len(inflight)
    BY <1>0, <1>3, <2>3
  <2>4. QED
    BY <1>0, <2>1, <2>2, <2>3
<1>4. QED
  BY <1>1, <1>2, <1>3, ServerSteps

\* Who holds a copy holds the server's version or an older one (CopiesTrue is
\* inductive).
LEMMA CopiesInv ==
  ASSUME TypeOK, CopiesTrue, [Next]_vars
  PROVE  CopiesTrue'
<1>0. /\ server \in Version /\ lister \in Version /\ op \in Call /\ Unread.rv = 0
      /\ inflight \in Seq(Version)
  BY DEF TypeOK, Unread
<1>1. server' = server \/ server'.rv = server.rv + 1
  BY ServerSteps
<1>2. ASSUME NEW v \in Copies'
      PROVE  v \in Copies \cup {server, server', Unread}
  <2>1. CASE v = lister'
    <3>1. inflight # <<>> => 1 \in DOMAIN inflight /\ Head(inflight) = inflight[1]
      BY <1>0
    <3>2. QED
      BY <2>1, <3>1, ServerSteps DEF Copies
  <2>2. CASE v = op'.base
    BY <2>2, BaseSteps DEF Copies
  <2>3. CASE \E i \in DOMAIN inflight' : v = inflight'[i]
    BY <2>3, InflightSteps DEF Copies
  <2>4. \/ v = lister' \/ v = op'.base
        \/ \E i \in DOMAIN inflight' : v = inflight'[i]
    BY <1>2 DEF Copies
  <2>5. QED
    BY <2>1, <2>2, <2>3, <2>4
<1>3. \A v \in Copies : v.rv \in Nat /\ v.rv <= server.rv /\ (v.rv = server.rv => v = server)
  <2>1. lister.rv \in Nat /\ op.base.rv \in Nat
    BY <1>0 DEF Call, Version
  <2>2. \A i \in DOMAIN inflight : inflight[i].rv \in Nat
    <3>1. \A i \in DOMAIN inflight : inflight[i] \in Version
      BY <1>0
    <3>2. \A v \in Version : v.rv \in Nat
      BY DEF Version
    <3>3. QED
      BY <3>1, <3>2
  <2>3. \A v \in Copies : v.rv \in Nat
    BY <2>1, <2>2 DEF Copies
  <2>4. QED
    BY <2>3 DEF CopiesTrue
<1>4. server.rv \in Nat /\ server.rv > 0
  BY <1>0 DEF CopiesTrue, Version
<1>5. ASSUME NEW v \in Copies'
      PROVE  v.rv <= server'.rv /\ (v.rv = server'.rv => v = server')
  <2>1. CASE v = server'
    <3>1. server'.rv \in Nat
      BY <1>1, <1>4
    <3>2. QED
      BY <2>1, <3>1
  <2>2. CASE v \in Copies \cup {server, Unread}
    <3>1. v.rv \in Nat /\ v.rv <= server.rv /\ (v.rv = server.rv => v = server)
      BY <1>0, <1>3, <1>4, <2>2
    <3>2. QED
      BY <1>1, <1>4, <3>1
  <2>3. QED
    BY <1>2, <1>5, <2>1, <2>2
<1>6. server'.rv > 0
  BY <1>1, <1>4
<1>7. QED
  BY <1>5, <1>6 DEF CopiesTrue

\* A write that changes the status makes it what was written.
LEMMA WriteChanges ==
  ASSUME NEW s, Write(s) \/ Publish(s), server'.status # server.status
  PROVE  server'.status = s
  BY DEF Write, Publish, crVars

\* An apply, be it of an applier or of the report, changes the condition of its
\* writer.
LEMMA ApplyChanges ==
  ASSUME TypeOK, NEW w \in Writer, ApplyOperatorStatus(w) \/ ApplyFails(w),
         NEW o \in Owner, server'.status[o] # server.status[o]
  PROVE  Applies(o)
<1>1. task[w].pc = "apply" /\ Write([server.status EXCEPT ![w] = task[w].value])
  BY DEF ApplyOperatorStatus, ApplyFails, crVars
<1>2. server'.status = [server.status EXCEPT ![w] = task[w].value]
  BY <1>1, WriteChanges
<1>3. server.status \in [Owner -> Condition] /\ w \in Owner
  BY DEF TypeOK, Version, Status, Writer, Owner
<1>4. o = w /\ server'.status[o] = task[o].value
  BY <1>2, <1>3
<1>5. QED
  BY <1>1, <1>4 DEF Applies

\* So does a PUT of the reconciler, except for what it takes from an old version.
LEMMA StoreChanges ==
  ASSUME TypeOK, CopiesTrue, pc = "put", Write(Stored),
         NEW o \in Owner, server'.status[o] # server.status[o]
  PROVE  Stores(o)
<1>1. server'.status = Stored
  BY WriteChanges
<1>2. op.base.status \in [Owner -> Condition] /\ op.base.rv \in Nat /\ server.rv \in Nat
  BY DEF TypeOK, Call, Version, Status
<1>3. CASE o = "reconciler"
  BY <1>1, <1>2, <1>3 DEF Stored, Stores
<1>4. CASE o # "reconciler"
  <2>1. server'.status[o] = op.base.status[o]
    BY <1>1, <1>2, <1>4 DEF Stored
  <2>2. op.base # server
    BY <2>1
  <2>3. op.base.rv < server.rv
    BY <1>2, <2>2 DEF CopiesTrue, Copies
  <2>4. QED
    BY <1>4, <2>1, <2>3 DEF Stores
<1>5. QED
  BY <1>3, <1>4

\* The steps that change a condition are the writes of its owner, or store an
\* old version of it.
LEMMA OwnersStep ==
  ASSUME TypeOK, CopiesTrue, Next,
         NEW o \in Owner, server'.status[o] # server.status[o]
  PROVE  Applies(o) \/ Stores(o)
<1>0. "report" \in Writer /\ Applier \subseteq Writer
  BY DEF Writer
<1>1. CASE Deliver \/ Restart \/ (\E c \in Controller : ChangeInput(c) \/ Resync(c))
  BY <1>1 DEF Deliver, Restart, ChangeInput, Resync, crVars
<1>2. CASE EditSpec
  BY <1>2 DEF EditSpec, Publish
<1>3. ASSUME NEW a \in Applier, ApplierStep(a) \/ ApplierFails(a)
      PROVE  Applies(o)
  <2>1. ApplyOperatorStatus(a) \/ ApplyFails(a)
    BY <1>3 DEF ApplierStep, ApplierFails, StartApplier, GetApplied, ApplierApplies, crVars
  <2>2. QED
    BY <1>0, <2>1, ApplyChanges
<1>4. CASE StartSync \/ ReadLister \/ ReadLive \/ GetOriginal \/ NextCall \/ StartReport
           \/ GetApplied("report")
  BY <1>4 DEF StartSync, ReadLister, ReadLive, GetOriginal, NextCall, StartReport,
     GetApplied, crVars
<1>5. CASE PutStatus \/ SyncFails
  <2>1. pc = "put" /\ Write(Stored)
    BY <1>5 DEF PutStatus, SyncFails, crVars
  <2>2. QED
    BY <2>1, StoreChanges
<1>6. CASE Report \/ ReportFails
  <2>1. ApplyOperatorStatus("report") \/ ApplyFails("report")
    BY <1>6 DEF Report, ReportFails
  <2>2. QED
    BY <1>0, <2>1, ApplyChanges
<1>7. QED
  BY <1>1, <1>2, <1>3, <1>4, <1>5, <1>6 DEF Next, SyncStep, Disturb

\* Whoever holds a copy of the CR, the informer's cache, the events on their way
\* and a call of UpdateStatus, holds the server's version or an older one.
THEOREM CopiesAreVersions == Spec => []CopiesTrue
<1>1. Init => CopiesTrue
  BY DEF Init, CopiesTrue, Copies, NoCall, Unread
<1>2. TypeOK /\ CopiesTrue /\ [Next]_vars => CopiesTrue'
  BY CopiesInv
<1>3. QED
  BY <1>1, <1>2, TypeCorrect, PTL DEF Spec

\* Only its owner changes a condition, unless UpdateOperatorStatus stores what an
\* older version of the CR held: no write of the current version loses anything.
THEOREM ConditionsHaveOwners == Spec => OwnersDecide
<1>1. TypeOK /\ CopiesTrue /\ [Next]_vars =>
         [\A o \in Owner : server'.status[o] # server.status[o] => Applies(o) \/ Stores(o)]_vars
  BY OwnersStep
<1>2. QED
  BY <1>1, TypeCorrect, CopiesAreVersions, PTL DEF Spec, OwnersDecide

=============================================================================
