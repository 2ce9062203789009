--------------------------- MODULE StaticResources ---------------------------
(***************************************************************************)
(* The static resource controller: in every sync it goes through the       *)
(* operator's RBAC manifests, the ServiceAccount and the metrics Service,  *)
(* gives each the CR as owner and applies it, and reports the outcome in   *)
(* the condition JobSetOperatorStaticResourcesDegraded.  Meanwhile the CR  *)
(* is edited, deleted and created again, its cache lags, and the garbage   *)
(* collector and administrators delete and change the objects.  The        *)
(* ServiceAccount counts as a role: what apply compares of it is restored. *)
(***************************************************************************)
EXTENDS Naturals, Sequences

CONSTANTS
    Kind,         \* the manifests in their order, each by the kind of its object:
                  \* a clusterbinding is a ClusterRoleBinding
    MaxUid,       \* how often the CR may be created
    MaxTrouble    \* how often a call may fail, an administrator may change or
                  \* delete an object or edit the CR, or the process may end

ClusterScoped == {"clusterrole", "clusterbinding"}
Binding       == {"binding", "clusterbinding"}

ASSUME StaticResourcesAssumption ==
    /\ Kind \in Seq({"role", "service"} \cup Binding \cup ClusterScoped)
    /\ Len(Kind) > 0
    /\ {MaxUid, MaxTrouble} \subseteq Nat \ {0}

File == 1..Len(Kind)

State == {"Managed", "Unmanaged", "Removed", "Force"}

\* uid 0: there is no CR.
CRVal == [uid : Nat, state : State]

\* What an object may have become: drifted, where apply compares it; ports, of a
\* Service whose selector and type are as required; roleRef, of a binding that
\* was created with another role.
Content == {"desired", "drifted", "ports", "roleRef"}
ObjectVal == [exists : BOOLEAN, owner : Nat, spec : Content]
Absent == [exists |-> FALSE, owner |-> 0, spec |-> "drifted"]

VARIABLES
    cr,        \* the CR
    created,   \* the UID given last
    cached,    \* the CR in the informer's cache
    obj,       \* the object of each manifest
    degraded,  \* the condition in the CR's status
    pc,        \* where Sync is
    loc,       \* its locals: the manifest it is at, the owner put into it,
               \* whether there were errors
    kept,      \* history: the manifests passed whose object nobody else has
               \* changed since
    trouble    \* how often that has happened

world == <<cr, created, cached>>
vars  == <<world, obj, degraded, pc, loc, kept, trouble>>

Init ==
    /\ \E s \in State : cr = [uid |-> 1, state |-> s]
    /\ created = 1
    /\ cached = cr
    /\ obj = [f \in File |-> Absent]
    /\ degraded = "Unknown"
    /\ pc = "idle"
    /\ loc = [at |-> 1, owner |-> 0, failed |-> FALSE]
    /\ kept = {}
    /\ trouble = 0

-----------------------------------------------------------------------------
(* A sync.                                                                 *)

IsOperatorManaged(s) == s \notin {"Unmanaged", "Removed"}

\* Whether Sync goes on after its check. A Removed CR is worked on: nothing
\* calls SetOperatorNotRemovable.
Works(c) == c.uid # 0 /\ (IsOperatorManaged(c.state) \/ c.state = "Removed")

\* The key is queued at least every minute, by the periodic resync.
Sync ==
    /\ pc = "idle"
    /\ Works(cached)
    /\ pc' = "asset"
    /\ loc' = [at |-> 1, owner |-> 0, failed |-> FALSE]
    /\ kept' = {}
    /\ UNCHANGED <<world, obj, degraded, trouble>>

\* Faulty variant of Advance: ApplyDirectly returns the first error.
AdvanceOrStop(l) ==
    IF l.at < Len(Kind) /\ ~l.failed
    THEN pc' = "asset" /\ loc' = [l EXCEPT !.at = @ + 1]
    ELSE pc' = "report" /\ loc' = l

\* On to the next manifest, or to the report.
Advance(l) ==
    IF l.at < Len(Kind)
    THEN pc' = "asset" /\ loc' = [l EXCEPT !.at = @ + 1]
    ELSE pc' = "report" /\ loc' = l

\* Faulty variant of Failed: Sync keeps the error of the last manifest only.
FailedLast(failure) == [loc EXCEPT !.failed = failure]

\* The errors are collected.
Failed(failure) == [loc EXCEPT !.failed = @ \/ failure]

\* The asset function puts the CR's UID into the manifest; when the CR is gone
\* from the cache, that is the error of this manifest.
Asset ==
    /\ pc = "asset"
    /\ IF cached.uid = 0
       THEN Advance(Failed(TRUE))
       ELSE /\ pc' = "apply"
            /\ loc' = [loc EXCEPT !.owner = cached.uid]
    /\ UNCHANGED <<world, obj, degraded, kept, trouble>>

\* What the apply functions compare: the owner reference, a role's rules, a
\* binding's role and subjects, a Service's selector and type.
Satisfies(x, owner) == x.exists /\ x.owner = owner /\ x.spec \in {"desired", "ports"}

\* Faulty variant of Required: the manifest gets no owner.
RequiredAlone(owner) == [exists |-> TRUE, owner |-> 0, spec |-> "desired"]

Required(owner) == [exists |-> TRUE, owner |-> owner, spec |-> "desired"]

\* The API server refuses to change a binding's role.
Refused(x) == x.exists /\ x.spec = "roleRef"

\* What a write leaves, if there is one.
Applied(x, owner) == IF Refused(x) \/ Satisfies(x, owner) THEN x ELSE Required(owner)

\* GET, comparison, and create or update; the update goes with the version that
\* was read.
ApplyFile ==
    /\ pc = "apply"
    /\ obj' = [obj EXCEPT ![loc.at] = Applied(@, loc.owner)]
    /\ kept' = kept \cup {loc.at}
    /\ Advance(Failed(Refused(obj[loc.at])))
    /\ UNCHANGED <<world, degraded, trouble>>

\* ApplyOperatorStatus; of a CR that is gone it fails.
ReportDegraded ==
    /\ pc = "report"
    /\ pc' = "idle"
    /\ degraded' = IF cr.uid = 0 THEN degraded
                   ELSE IF loc.failed THEN "True" ELSE "False"
    /\ UNCHANGED <<world, obj, loc, kept, trouble>>

-----------------------------------------------------------------------------
(* The world around it.                                                    *)

Trouble == trouble < MaxTrouble /\ trouble' = trouble + 1

\* A call fails; a write that reports failure may have taken effect.
ApplyFails ==
    /\ pc = "apply"
    /\ Trouble
    /\ obj' \in {obj, [obj EXCEPT ![loc.at] = Applied(@, loc.owner)]}
    /\ Advance(Failed(TRUE))
    /\ UNCHANGED <<world, degraded, kept>>

ReportFails ==
    /\ pc = "report"
    /\ Trouble
    /\ pc' = "idle"
    /\ UNCHANGED <<world, obj, degraded, loc, kept>>

Restart ==
    /\ pc # "idle"
    /\ Trouble
    /\ pc' = "idle"
    /\ UNCHANGED <<world, obj, degraded, loc, kept>>

Deliver ==
    /\ cached # cr
    /\ cached' = cr
    /\ UNCHANGED <<cr, created, obj, degraded, pc, loc, kept, trouble>>

EditCR ==
    /\ cr.uid # 0
    /\ Trouble
    /\ \E s \in State \ {cr.state} : cr' = [cr EXCEPT !.state = s]
    /\ UNCHANGED <<created, cached, obj, degraded, pc, loc, kept>>

DeleteCR ==
    /\ cr.uid # 0
    /\ cr' = [cr EXCEPT !.uid = 0]
    /\ degraded' = "Unknown"
    /\ UNCHANGED <<created, cached, obj, pc, loc, kept, trouble>>

CreateCR ==
    /\ cr.uid = 0
    /\ created < MaxUid
    /\ created' = created + 1
    /\ cr' = [cr EXCEPT !.uid = created']
    /\ UNCHANGED <<cached, obj, degraded, pc, loc, kept, trouble>>

\* Somebody else changes or deletes an object.
Disturb(f, x) ==
    /\ obj[f].exists
    /\ obj' = [obj EXCEPT ![f] = x]
    /\ kept' = kept \ {f}
    /\ UNCHANGED <<world, degraded, pc, loc>>

Collect(f) ==
    /\ obj[f].owner \notin {0, cr.uid}
    /\ Disturb(f, Absent)
    /\ UNCHANGED trouble

Tamper(f) ==
    /\ Trouble
    /\ \/ Disturb(f, Absent)
       \/ Disturb(f, [obj[f] EXCEPT !.spec = "drifted"])
       \/ Kind[f] = "service" /\ Disturb(f, [obj[f] EXCEPT !.spec = "ports"])
       \/ Kind[f] \in Binding /\ Disturb(f, [obj[f] EXCEPT !.spec = "roleRef"])

Controller == Sync \/ Asset \/ ApplyFile \/ ReportDegraded

Next ==
    \/ Controller
    \/ ApplyFails \/ ReportFails \/ Restart
    \/ Deliver
    \/ EditCR \/ DeleteCR \/ CreateCR
    \/ \E f \in File : Collect(f) \/ Tamper(f)

\* The controller's goroutine runs and is woken up by the resync; watch and
\* garbage collector do their work in the end.
Fairness ==
    /\ WF_vars(Controller)
    /\ WF_vars(Deliver)
    /\ \A f \in File : WF_vars(Collect(f))

Spec == Init /\ [][Next]_vars /\ Fairness

-----------------------------------------------------------------------------
(* Properties.                                                             *)

TypeOK ==
    /\ cr \in CRVal /\ cached \in CRVal
    /\ {created, trouble} \subseteq Nat
    /\ obj \in [File -> ObjectVal]
    /\ degraded \in {"Unknown", "True", "False"}
    /\ pc \in {"idle", "asset", "apply", "report"}
    /\ loc \in [at : File, owner : Nat, failed : BOOLEAN]
    /\ kept \in SUBSET File

\* A sync that is about to report success has found or made every object as its
\* manifest requires it, for a UID the CR has had, except those that somebody
\* else has changed behind its back; no error of an earlier manifest is forgotten.
SuccessIsTrue ==
    pc = "report" /\ ~loc.failed
        => \A f \in kept : \E uid \in 1..created : Satisfies(obj[f], uid)

\* The states in which ARCHITECTURE.md and the e2e tests have the operator work, and
\* Force, which management_state.go counts among them.
Working == cr.uid # 0 /\ IsOperatorManaged(cr.state)

\* The apply functions take edited ports of a Service for the required ones, and
\* cannot change the role of a binding.
Repairable(f) == obj[f].spec \notin {"ports", "roleRef"}

\* ARCHITECTURE.md gives every object an owner, except the ClusterRoles and
\* ClusterRoleBindings.
Owned(f) == Kind[f] \notin ClusterScoped

\* When a CR to be worked on stays, every object comes to be as its manifest requires
\* it, and those that are to have an owner are owned by this CR, not by one of its
\* name that was deleted. An object that cannot be applied does not keep the others
\* from it, and the condition then says whether there is one.
Converges ==
    <>[]Working =>
        <>[](/\ \A f \in File : Repairable(f) =>
                    /\ obj[f].exists /\ obj[f].spec = "desired"
                    /\ Owned(f) => obj[f].owner = cr.uid
             /\ degraded = IF \E f \in File : Refused(obj[f]) THEN "True" ELSE "False")

\* When the CR stays deleted, every object that is to have an owner goes and none of
\* them comes back, although the cache still had the CR; when it stays Unmanaged,
\* the controller stops.
LetsGo ==
    /\ <>[](cr.uid = 0) => <>[](\A f \in File : Owned(f) => ~obj[f].exists)
    /\ <>[](cr.uid # 0 /\ cr.state = "Unmanaged") => <>[](pc = "idle")

-----------------------------------------------------------------------------
(* The steps to it.                                                        *)

\* No apply for this CR changes the object any more.
Final(f) == Refused(obj[f]) \/ Satisfies(obj[f], cr.uid)

\* The work for this CR is done, wherever the present sync is.
Settled ==
    /\ cr.uid # 0 /\ cached.uid = cr.uid
    /\ pc = "apply" => loc.owner = cr.uid
    /\ \A f \in File : Final(f)

\* Syncs of which any call may fail and any may be the last of the process.
Syncs == Controller \/ ApplyFails \/ ReportFails \/ Restart

\* Once the work is done, the controller writes no object.
WorkIsDoneOnce == [][Settled /\ (Syncs \/ Deliver) => UNCHANGED obj /\ Settled']_vars

\* Once the CR is gone from the cache as well, and no apply is under way, no object
\* comes back until there is another CR.
Forgotten == cr.uid = 0 /\ cached.uid = 0 /\ pc # "apply"
NothingComesBack ==
    [][Forgotten /\ ~CreateCR =>
          Forgotten' /\ \A f \in File : obj'[f].exists => obj[f].exists]_vars

\* A sync that nobody disturbs leaves its work done as far as it is, and has an
\* error to report exactly when an object was refused.
DoneSoFar ==
    /\ cr.uid # 0 /\ cached = cr
    /\ pc = "apply" => loc.owner = cr.uid
    /\ pc # "idle" =>
          LET done == IF pc = "report" THEN File ELSE 1..(loc.at - 1)
          IN /\ \A f \in done : Final(f)
             /\ loc.failed <=> \E f \in done : Refused(obj[f])

\* Every object, those excepted by ARCHITECTURE.md as well, has a CR for an owner.
EverythingIsOwned == \A f \in File : obj[f].exists => obj[f].owner \in 1..created
=============================================================================
