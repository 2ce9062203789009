--------------------------- MODULE OperatorStatus ---------------------------
(***************************************************************************)
(* The status of the JobSetOperator CR, written by several controllers of  *)
(* one operator at once: call by call what TargetConfigReconciler takes as *)
(* one step. v1helpers.UpdateStatus, used by the reconciler, computes the  *)
(* whole status from a copy and stores it under the resourceVersion of a   *)
(* later GET. ApplyOperatorStatus, used by the static resource controller  *)
(* and by reportDegraded, sets one condition by server-side apply. Stale   *)
(* writes do undo newer ones: the module shows that none stays lost.       *)
(***************************************************************************)
EXTENDS Integers, Sequences

CONSTANTS
    Applier,      \* controllers that apply a Degraded condition of their own
    MaxAttempts,  \* Steps of retry.DefaultBackoff
    Budgets       \* how often each kind of disturbance may happen

Disturbance == {"input", "spec", "resync", "fault", "restart", "stale"}

ASSUME StatusAssumption ==
    /\ Applier \cap {"reconciler", "report"} = {}
    /\ MaxAttempts \in Nat \ {0}
    /\ Budgets \subseteq [Disturbance -> Nat]

\* The controllers with a queue, the writers by server-side apply, and the
\* conditions: one per controller, and TargetConfigControllerDegraded.
Controller == Applier \cup {"reconciler"}
Writer     == Applier \cup {"report"}
Owner      == Applier \cup {"reconciler", "report"}

Known     == {"True", "False"}
Condition == Known \cup {"Unset"}
Status    == [Owner -> Condition]
Version   == [rv : Nat, status : Status]
Unread    == [rv |-> 0, status |-> [o \in Owner |-> "Unset"]]

VARIABLES
    want,      \* per controller: the condition its last look at the cluster asks for
    server,    \* the CR in the API server
    lister,    \* the CR in the informer's cache
    inflight,  \* versions the informer has yet to receive, oldest first
    due,       \* controllers whose key waits in their queue
    task,      \* per writer: its call of ApplyOperatorStatus
    pc,        \* where the reconciler's sync stands
    op,        \* the reconciler's call of UpdateStatus
    left       \* what is left of the budget

vars == <<want, server, lister, inflight, due, task, pc, op, left>>
crVars == <<server, inflight>>
syncVars == <<pc, op>>

NoTask == [pc |-> "idle", value |-> "Unset", equal |-> FALSE]
Call   == [value : Condition, call : 1..2, attempt : 1..MaxAttempts,
           base : Version, fetched : Nat, failed : BOOLEAN]

\* No call of UpdateStatus is running; failed says what became of the last one.
NoCall == [value |-> "Unset", call |-> 1, attempt |-> 1, base |-> Unread,
           fetched |-> 0, failed |-> FALSE]

\* A call of UpdateStatus by the sync: its first writes Available, the last one
\* Available again and what the sync has found out since.
NewCall(n) == [NoCall EXCEPT !.value = want["reconciler"], !.call = n]

Spend(kind) == left[kind] > 0 /\ left' = [left EXCEPT ![kind] = @ - 1]

Init ==
    /\ want \in [Controller -> Known]
    /\ server \in [rv : {1}, status : Status]
    /\ lister = server
    /\ inflight = <<>>
    /\ due = Controller
    /\ task = [w \in Writer |-> NoTask]
    /\ pc = "idle"
    /\ op = NoCall
    /\ left \in Budgets

-----------------------------------------------------------------------------
(* The API server and the informer.                                        *)

Publish(status) ==
    /\ server' = [rv |-> server.rv + 1, status |-> status]
    /\ inflight' = Append(inflight, server')

\* A write that changes nothing leaves the resourceVersion alone.
Write(status) == IF status = server.status THEN UNCHANGED crVars ELSE Publish(status)

\* Somebody edits the spec or the metadata of the CR.
EditSpec ==
    /\ Publish(server.status)
    /\ Spend("spec")
    /\ UNCHANGED <<want, lister, due, task, syncVars>>

\* What a controller looks at changes, and its informers tell it.
ChangeInput(c) ==
    /\ \E v \in Known \ {want[c]} : want' = [want EXCEPT ![c] = v]
    /\ due' = due \cup {c}
    /\ Spend("input")
    /\ UNCHANGED <<lister, crVars, task, syncVars>>

\* Faulty variant of Deliver: only the reconciler watches the CR.
DeliverToReconciler ==
    /\ inflight # <<>>
    /\ lister' = Head(inflight)
    /\ inflight' = Tail(inflight)
    /\ due' = due \cup {"reconciler"}
    /\ UNCHANGED <<want, server, task, syncVars, left>>

\* Nothing of the controller runs.
Idle(c) == IF c = "reconciler" THEN pc = "idle" ELSE task[c].pc = "idle"

\* Faulty variant of Deliver: a key that is being processed is not added again.
DeliverToIdle ==
    /\ inflight # <<>>
    /\ lister' = Head(inflight)
    /\ inflight' = Tail(inflight)
    /\ due' = due \cup {c \in Controller : Idle(c)}
    /\ UNCHANGED <<want, server, task, syncVars, left>>

\* Every controller watches the CR, its own writes included.
Deliver ==
    /\ inflight # <<>>
    /\ lister' = Head(inflight)
    /\ inflight' = Tail(inflight)
    /\ due' = Controller
    /\ UNCHANGED <<want, server, task, syncVars, left>>

Resync(c) ==
    /\ c \notin due
    /\ due' = due \cup {c}
    /\ Spend("resync")
    /\ UNCHANGED <<want, lister, crVars, task, syncVars>>

\* The process ends anywhere; the next one starts with every key queued.
Restart ==
    /\ due' = Controller
    /\ task' = [w \in Writer |-> NoTask]
    /\ pc' = "idle"
    /\ op' = NoCall
    /\ Spend("restart")
    /\ UNCHANGED <<want, lister, crVars>>

-----------------------------------------------------------------------------
(* ApplyOperatorStatus: a live GET, then a server-side apply of the writer's *)
(* own condition, skipped when the fields it owns are as desired.            *)

BeginApply(w, v) == task' = [task EXCEPT ![w] = [pc |-> "get", value |-> v, equal |-> FALSE]]

GetApplied(w) ==
    /\ task[w].pc = "get"
    /\ task' = [task EXCEPT ![w].pc = "apply",
                            ![w].equal = (server.status[w] = task[w].value)]
    /\ UNCHANGED <<want, lister, crVars, due, syncVars, left>>

\* Whether equal fields are skipped depends on the transition time, which is
\* compared as well and not modelled.
ApplyOperatorStatus(w) ==
    /\ task[w].pc = "apply"
    /\ \/ task[w].equal /\ UNCHANGED crVars
       \/ Write([server.status EXCEPT ![w] = task[w].value])
    /\ task' = [task EXCEPT ![w] = NoTask]

\* A call that fails, with or without having taken effect.
ApplyFails(w) ==
    /\ task[w].pc # "idle"
    /\ UNCHANGED crVars \/ (/\ task[w].pc = "apply"
                            /\ Write([server.status EXCEPT ![w] = task[w].value]))
    /\ task' = [task EXCEPT ![w] = NoTask]
    /\ Spend("fault")

(* The static resource controller: one key, one worker.                    *)

StartApplier(a) ==
    /\ task[a].pc = "idle"
    /\ a \in due
    /\ due' = due \ {a}
    /\ BeginApply(a, want[a])
    /\ UNCHANGED <<want, lister, crVars, syncVars, left>>

\* Errors of the sync are in its Degraded condition, and bring it back.
ApplierApplies(a) ==
    /\ ApplyOperatorStatus(a)
    /\ due' = IF task[a].value = "True" THEN due \cup {a} ELSE due
    /\ UNCHANGED <<want, lister, syncVars, left>>

ApplierFails(a) ==
    /\ ApplyFails(a)
    /\ due' = due \cup {a}
    /\ UNCHANGED <<want, lister, syncVars>>

-----------------------------------------------------------------------------
(* The reconciler: a sync with two calls of UpdateStatus, then the report.  *)

StartSync ==
    /\ pc = "idle"
    /\ "reconciler" \in due
    /\ due' = due \ {"reconciler"}
    /\ pc' = "read"
    /\ op' = NewCall(1)
    /\ UNCHANGED <<want, lister, crVars, task, left>>

Return ==
    /\ pc' = IF op.call = 1 THEN "between" ELSE "report"
    /\ op' = NoCall

Fail == pc' = "report" /\ op' = [NoCall EXCEPT !.failed = TRUE]

\* The update functions are applied to a copy; no difference, no write.
Compute(version) ==
    IF version.status["reconciler"] = op.value
    THEN Return
    ELSE pc' = "get" /\ op' = [op EXCEPT !.base = version]

\* GetOperatorState; a lister that stands where the last attempt read is behind.
ReadLister ==
    /\ pc = "read"
    /\ IF lister.rv = op.base.rv
       THEN pc' = "live" /\ UNCHANGED op
       ELSE Compute(lister)
    /\ UNCHANGED <<want, lister, crVars, due, task, left>>

\* GetOperatorStateWithQuorum.
ReadLive ==
    /\ pc = "live"
    /\ Compute(server)
    /\ UNCHANGED <<want, lister, crVars, due, task, left>>

\* UpdateOperatorStatus, the GET: with a resourceVersion the API server may
\* answer from its watch cache, with anything not older.
GetOriginal ==
    /\ pc = "get"
    /\ \/ op' = [op EXCEPT !.fetched = server.rv] /\ UNCHANGED left
       \/ /\ \E rv \in op.base.rv .. server.rv - 1 : op' = [op EXCEPT !.fetched = rv]
          /\ Spend("stale")
    /\ pc' = "put"
    /\ UNCHANGED <<want, lister, crVars, due, task>>

\* Faulty variant of Stored: the conditions of the others are not copied.
StoredAlone == [Unread.status EXCEPT !["reconciler"] = op.value]

Stored == [op.base.status EXCEPT !["reconciler"] = op.value]

MayRetry == op.attempt < MaxAttempts

\* UpdateOperatorStatus, the PUT of the whole status; RetryOnConflict.
PutStatus ==
    /\ pc = "put"
    /\ IF op.fetched = server.rv
       THEN Write(Stored) /\ Return
       ELSE /\ UNCHANGED crVars
            /\ IF MayRetry
               THEN pc' = "read" /\ op' = [op EXCEPT !.attempt = @ + 1, !.fetched = 0]
               ELSE Fail
    /\ UNCHANGED <<want, lister, due, task, left>>

NextCall ==
    /\ pc = "between"
    /\ pc' = "read"
    /\ op' = NewCall(2)
    /\ UNCHANGED <<want, lister, crVars, due, task, left>>

\* Any other error of sync(), the PUT of which the answer is lost included.
SyncFails ==
    /\ pc \in {"read", "live", "get", "put", "between"}
    /\ UNCHANGED crVars \/ (pc = "put" /\ op.fetched = server.rv /\ Write(Stored))
    /\ Fail
    /\ Spend("fault")
    /\ UNCHANGED <<want, lister, due, task>>

Outcome == IF op.failed THEN "True" ELSE "False"

StartReport ==
    /\ pc = "report"
    /\ pc' = "reporting"
    /\ BeginApply("report", Outcome)
    /\ UNCHANGED <<want, lister, crVars, due, op, left>>

\* An error puts the key back, through the rate limiter.
EndSync(failed) ==
    /\ pc' = "idle"
    /\ op' = NoCall
    /\ due' = IF failed THEN due \cup {"reconciler"} ELSE due

Report ==
    /\ ApplyOperatorStatus("report")
    /\ EndSync(op.failed)
    /\ UNCHANGED <<want, lister, left>>

ReportFails ==
    /\ ApplyFails("report")
    /\ EndSync(TRUE)
    /\ UNCHANGED <<want, lister>>

-----------------------------------------------------------------------------

ApplierStep(a) == StartApplier(a) \/ GetApplied(a) \/ ApplierApplies(a)

SyncStep == \/ StartSync \/ ReadLister \/ ReadLive \/ GetOriginal
            \/ PutStatus \/ NextCall \/ StartReport \/ GetApplied("report") \/ Report

Disturb ==
    \/ EditSpec
    \/ \E c \in Controller : ChangeInput(c) \/ Resync(c)
    \/ Restart
    \/ \E a \in Applier : ApplierFails(a)
    \/ SyncFails
    \/ ReportFails

Next == Deliver \/ (\E a \in Applier : ApplierStep(a)) \/ SyncStep \/ Disturb

\* The informer delivers and the workers run; no call has to fail.
Fairness ==
    /\ WF_vars(Deliver)
    /\ WF_vars(SyncStep)
    /\ \A a \in Applier : WF_vars(ApplierStep(a))

Spec == Init /\ [][Next]_vars
FairSpec == Spec /\ Fairness

-----------------------------------------------------------------------------
(* Properties.                                                             *)

TypeOK ==
    /\ want \in [Controller -> Known]
    /\ server \in Version
    /\ lister \in Version
    /\ inflight \in Seq(Version)
    /\ due \subseteq Controller
    /\ task \in [Writer -> [pc : {"idle", "get", "apply"}, value : Condition,
                            equal : BOOLEAN]]
    /\ pc \in {"idle", "read", "live", "get", "put", "between", "report", "reporting"}
    /\ op \in Call
    /\ left \in [Disturbance -> Nat]

Asleep(c) == c \notin due /\ Idle(c)

\* A condition of a controller that sleeps is as it wants it, or the event of
\* the write that lost it is on its way: UpdateOperatorStatus stores a whole
\* status computed from a stale copy, and every loss wakes its victim up.
LossesAreNoticed ==
    inflight = <<>> =>
        /\ \A c \in Controller : Asleep(c) => server.status[c] = want[c]
        /\ Asleep("reconciler") => server.status["report"] = "False"

\* The status settles on what the controllers want, and on no error, however
\* they overwrite each other, fail, restart or lose the answer of a write.
StatusSettles ==
    <>[](/\ \A c \in Controller : server.status[c] = want[c]
         /\ server.status["report"] = "False")

\* Who may change the condition of whom.
Applies(o) == /\ o \in Writer /\ task[o].pc = "apply"
              /\ server'.status[o] = task[o].value
Stores(o)  == /\ pc = "put"
              /\ IF o = "reconciler" THEN server'.status[o] = op.value
                 ELSE /\ op.base.rv < server.rv
                      /\ server'.status[o] = op.base.status[o]

\* A condition changes by a write of its owner, or goes back to what an older
\* version of the CR held, when the reconciler stores a status it has computed
\* from that version: nothing else is lost, and nothing is made up.
OwnersDecide ==
    [][\A o \in Owner : server'.status[o] # server.status[o] => Applies(o) \/ Stores(o)]_vars

(* What comments of the code say and the code does not do.                 *)

\* interfaces.go, UpdateOperatorStatus: "updates the status of the operator,
\* assuming the given resource version".
WritesAssumeVersion == pc = "put" /\ op.fetched = server.rv => op.base.rv = server.rv

-----------------------------------------------------------------------------
(* The inductive invariant behind LossesAreNoticed.                        *)

\* The last version on its way to the informer is the server's.
InformerFollows ==
    IF inflight = <<>> THEN lister = server ELSE inflight[Len(inflight)] = server

\* An applier that is not due works on what it wants now, and has it in the CR
\* when it sleeps or has just seen it there.
ApplierCurrent(a) == a \notin due =>
    /\ task[a].pc # "idle" => task[a].value = want[a]
    /\ inflight = <<>> /\ (task[a].pc = "idle" \/ (task[a].pc = "apply" /\ task[a].equal)) =>
          server.status[a] = want[a]

\* The same for a sync: while it calls UpdateStatus, and when its calls are over.
ReconcilerCurrent == "reconciler" \notin due =>
    /\ pc \in {"read", "live", "get", "put"} => op.value = want["reconciler"]
    /\ inflight = <<>> /\ (pc = "idle" \/ (pc \in {"report", "reporting"} /\ ~op.failed)) =>
          server.status["reconciler"] = want["reconciler"]

\* The report is the last thing a sync does, and is about that sync.
Reporting ==
    /\ pc = "reporting" <=> task["report"].pc # "idle"
    /\ pc = "reporting" => task["report"].value = Outcome

\* What reportDegraded has seen or left in the CR is the outcome of the sync.
ReportCurrent == "reconciler" \notin due /\ inflight = <<>> =>
    /\ pc = "idle" => server.status["report"] = "False"
    /\ task["report"].pc = "apply" /\ task["report"].equal =>
          server.status["report"] = task["report"].value

IInv ==
    /\ InformerFollows
    /\ \A a \in Applier : ApplierCurrent(a)
    /\ ReconcilerCurrent
    /\ Reporting
    /\ ReportCurrent

\* The inductive invariant behind OwnersDecide: whoever holds a copy of the CR
\* holds the server's version or an older one.
Copies == {lister, op.base} \cup {inflight[i] : i \in DOMAIN inflight}
CopiesTrue ==
    /\ server.rv > 0
    /\ \A v \in Copies : v.rv <= server.rv /\ (v.rv = server.rv => v = server)
=============================================================================
