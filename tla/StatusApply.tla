----------------------------- MODULE StatusApply -----------------------------
(***************************************************************************)
(* ApplyOperatorStatus in detail: what OperatorStatus leaves out.  Each    *)
(* manager applies one condition; the generated apply configuration is     *)
(* extracted from the CR first, to skip an apply that changes nothing and  *)
(* to keep the condition's transition time.  The API server knows the      *)
(* conditions as a map by type and keeps track of who owns which.          *)
(***************************************************************************)
EXTENDS Naturals

CONSTANTS
    Manager,      \* field managers, each named like its condition
    Available,    \* the condition written by PUT of the whole status
    Instants,     \* a time is only compared for equality; the clock wraps around
    MaxTrouble    \* how often others may write, the CR may come or go, what a
                  \* manager wants may change, or a call may fail

ASSUME StatusApplyAssumption ==
    /\ Available \notin Manager
    /\ Instants \in Nat \ {0, 1}
    /\ MaxTrouble \in Nat \ {0}

Type  == Manager \cup {Available}
Known == {"True", "False"}

\* A list of conditions, none twice.
Time       == 0..Instants - 1
Unset      == Instants
Conditions == UNION {[S -> [status : Known, time : Time]] : S \in SUBSET Type}
Empty      == [c \in {} |-> Unset]

\* An apply configuration, by the conditions in its status: kind, version and name
\* are the same in all. The constructor leaves the status empty.
Configuration  == Conditions
JobSetOperator == Empty

VARIABLES
    exists,    \* whether there is a CR
    cond,      \* the conditions in its status
    own,       \* the managers with an entry for the status in managedFields
    snap,      \* the conditions as the reconciler has read them
    want,      \* the status each manager's condition should have
    now,       \* the clock
    pc,        \* where each manager's call of ApplyOperatorStatus is
    desired,   \* the configuration it is going to apply
    trouble    \* how often that has happened

crVars == <<exists, cond, own>>
vars   == <<crVars, snap, want, now, pc, desired, trouble>>

-----------------------------------------------------------------------------
(* Apply configurations.                                                   *)

\* The schema the generated parser knows has every list atomic: who owns a part
\* of one gets all of it.
ExtractInto(manager) == IF manager \in own THEN cond ELSE Empty

\* What is added to that is the same in all configurations.
ExtractJobSetOperatorStatus(manager) == ExtractInto(manager)

\* Faulty variant of SetLastTransitionTime: the time is always now.
SetNow(status, old) == [c \in DOMAIN status |-> [status[c] EXCEPT !.time = now]]

\* The old time stays when the status does.
SetLastTransitionTime(status, old) ==
    [c \in DOMAIN status |->
        [status[c] EXCEPT !.time = IF c \in DOMAIN old /\ old[c].status = status[c].status
                                   THEN old[c].time ELSE now]]

\* Faulty variant of Desired: extract, modify in place, apply, as the comment
\* of the extract function proposes.
DesiredInPlace(m) ==
    LET old == ExtractInto(m)
    IN [c \in DOMAIN old \cup {m} |->
           IF c = m THEN [status |-> want[m], time |-> Unset] ELSE old[c]]

Desired(m) == [c \in {m} |-> [status |-> want[m], time |-> Unset]]

-----------------------------------------------------------------------------
(* ApplyOperatorStatus.                                                    *)

Init ==
    /\ exists \in BOOLEAN
    /\ cond = Empty
    /\ own = {}
    /\ snap = Empty
    /\ want \in [Manager -> Known]
    /\ now = 0
    /\ pc = [m \in Manager |-> "idle"]
    /\ desired = [m \in Manager |-> JobSetOperator]
    /\ trouble = 0

\* The GET, and what is computed from its answer.
Get(m) ==
    /\ pc[m] = "idle"
    /\ LET original == IF exists THEN ExtractJobSetOperatorStatus(m) ELSE JobSetOperator
       IN IF exists /\ original = Desired(m)
          THEN UNCHANGED <<pc, desired>>
          ELSE /\ pc' = [pc EXCEPT ![m] = "apply"]
               /\ desired' = [desired EXCEPT ![m] =
                      SetLastTransitionTime(Desired(m), original)]
    /\ UNCHANGED <<crVars, snap, want, now, trouble>>

\* The apply: it is forced, sets what it names, and removes what m applied
\* before and names no longer, which is nothing. There has to be a CR.
ApplyStatus(m) ==
    /\ pc[m] = "apply"
    /\ pc' = [pc EXCEPT ![m] = "idle"]
    /\ IF exists
       THEN /\ cond' = [c \in DOMAIN cond \cup DOMAIN desired[m] |->
                           IF c \in DOMAIN desired[m] THEN desired[m][c]
                           ELSE cond[c]]
            /\ own' = own \cup {m}
       ELSE UNCHANGED <<cond, own>>
    /\ desired' = [desired EXCEPT ![m] = JobSetOperator]
    /\ UNCHANGED <<exists, snap, want, now, trouble>>

-----------------------------------------------------------------------------
(* Everybody else.                                                         *)

Trouble == trouble < MaxTrouble /\ trouble' = trouble + 1

ApplyFails(m) ==
    /\ pc[m] = "apply"
    /\ Trouble
    /\ pc' = [pc EXCEPT ![m] = "idle"]
    /\ desired' = [desired EXCEPT ![m] = JobSetOperator]
    /\ UNCHANGED <<crVars, snap, want, now>>

\* The reconciler's UpdateOperatorStatus stores a whole status computed earlier;
\* a condition it removes is nobody's any more.
ReadStatus ==
    /\ exists
    /\ snap # cond
    /\ snap' = cond
    /\ Trouble
    /\ UNCHANGED <<crVars, want, now, pc, desired>>

PutStatus ==
    /\ exists
    /\ Trouble
    /\ \E s \in Known :
          cond' = [c \in DOMAIN snap \cup {Available} |->
                      IF c = Available THEN [status |-> s, time |-> now] ELSE snap[c]]
    /\ own' = own \cap DOMAIN snap
    /\ UNCHANGED <<exists, snap, want, now, pc, desired>>

CreateOrDeleteCR ==
    /\ Trouble
    /\ exists' = ~exists
    /\ cond' = Empty
    /\ own' = {}
    /\ UNCHANGED <<snap, want, now, pc, desired>>

Want(m) ==
    /\ Trouble
    /\ \E s \in Known \ {want[m]} : want' = [want EXCEPT ![m] = s]
    /\ UNCHANGED <<crVars, snap, now, pc, desired>>

Tick ==
    /\ now' = (now + 1) % Instants
    /\ UNCHANGED <<crVars, snap, want, pc, desired, trouble>>

Next ==
    \/ \E m \in Manager : Get(m) \/ ApplyStatus(m) \/ ApplyFails(m) \/ Want(m)
    \/ ReadStatus \/ PutStatus \/ CreateOrDeleteCR
    \/ Tick

\* Every controller syncs again and again, and time goes by.
Fairness ==
    /\ \A m \in Manager : WF_vars(Get(m)) /\ WF_vars(ApplyStatus(m))
    /\ WF_vars(Tick)

Spec == Init /\ [][Next]_vars /\ Fairness

-----------------------------------------------------------------------------
(* Properties.                                                             *)

TypeOK ==
    /\ exists \in BOOLEAN
    /\ cond \in Conditions /\ snap \in Conditions
    /\ own \in SUBSET (Manager \cap DOMAIN cond)
    /\ want \in [Manager -> Known]
    /\ now \in Time
    /\ pc \in [Manager -> {"idle", "apply"}]
    /\ desired \in [Manager -> Configuration]
    /\ trouble \in Nat

\* An apply leaves every condition but the manager's own as it is, also one that
\* came or changed after the GET, although what was extracted holds all of them.
OnlyOwn ==
    [][\A m \in Manager : ApplyStatus(m) =>
          \A c \in Type \ {m} : /\ c \in DOMAIN cond' <=> c \in DOMAIN cond
                                /\ c \in DOMAIN cond => cond'[c] = cond[c]]_vars

\* The condition of m is what m wants, and what m is about to apply says the same.
SettledFor(m) ==
    /\ exists /\ m \in own
    /\ cond[m].status = want[m]
    /\ pc[m] = "apply" => desired[m][m] = cond[m]

Calls == Tick \/ \E m \in Manager : Get(m) \/ ApplyStatus(m) \/ ApplyFails(m)

\* A condition that is as its manager wants it stays, with the time it has got,
\* whoever applies what at whatever later time.
UnchangedIsKept ==
    [][\A m \in Manager : SettledFor(m) /\ Calls => SettledFor(m)' /\ cond'[m] = cond[m]]_vars

\* Applied again and again at ever later times, an unchanged condition is not
\* written: otherwise the event of each write would bring about the next.
WritesEnd == <>[][cond' = cond]_vars
=============================================================================
