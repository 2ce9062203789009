----------------------------- MODULE AtomicApply -----------------------------
(***************************************************************************)
(* What an apply promises the sync that calls it: in one step the object   *)
(* is as required, and the CA bundle that cert-manager keeps in it is the  *)
(* one it had just then. Between these steps others change the objects as  *)
(* they like. Left out is everything an apply is made of: the GET, the     *)
(* comparison, the conditional write and the resource cache. The           *)
(* reconciler's module takes its apply functions to be these.              *)
(***************************************************************************)
EXTENDS Naturals

VARIABLES
    obj,     \* the webhook configuration and the CRD
    uid,     \* the CR's UID
    issued,  \* the CA bundle cert-manager has issued last
    phase,   \* what the sync applies next
    owner,   \* the owner it requires
    copied   \* the CA bundle it requires of the CRD

absVars == <<obj, uid, issued, phase, owner, copied>>

Object == {"webhook", "crd"}
Absent == [exists |-> FALSE, owner |-> 0, spec |-> "drifted", inject |-> FALSE, ca |-> 0]

AsRequired(ca) ==
    [exists |-> TRUE, owner |-> owner, spec |-> "desired", inject |-> TRUE, ca |-> ca]

Change(o, x) == obj' = [obj EXCEPT ![o] = x]

Init ==
    /\ obj = [o \in Object |-> Absent]
    /\ uid = 1
    /\ issued = 1
    /\ phase = "idle"
    /\ owner = 0
    /\ copied = 0

Sync ==
    /\ phase = "idle"
    /\ phase' = "webhook"
    /\ owner' = uid
    /\ UNCHANGED <<obj, uid, issued, copied>>

\* A sync may end early, having applied what it has applied.
GiveUp ==
    /\ phase' = "idle"
    /\ UNCHANGED <<obj, uid, issued, owner, copied>>

EnsureWebhook ==
    /\ phase = "webhook"
    /\ Change("webhook", AsRequired(obj["webhook"].ca))
    /\ phase' = "copy"
    /\ UNCHANGED <<uid, issued, owner, copied>>

\* The CRD's CA bundle is part of what is required of it, and copied before.
Copy ==
    /\ phase = "copy"
    /\ copied' = obj["crd"].ca
    /\ phase' = "crd"
    /\ UNCHANGED <<obj, uid, issued, owner>>

EnsureCRD ==
    /\ phase = "crd"
    /\ Change("crd", AsRequired(copied))
    /\ phase' = "idle"
    /\ UNCHANGED <<uid, issued, owner, copied>>

\* cert-manager and everybody else.
Inject(o) ==
    /\ obj[o].exists /\ obj[o].inject
    /\ Change(o, [obj[o] EXCEPT !.ca = issued])
    /\ UNCHANGED <<uid, issued, phase, owner, copied>>

Meddle(o) ==
    /\ \/ Change(o, [obj[o] EXCEPT !.spec = "drifted"])
       \/ Change(o, [obj[o] EXCEPT !.inject = FALSE, !.ca = 0])
       \/ Change(o, Absent)
    /\ UNCHANGED <<uid, issued, phase, owner, copied>>

Recreate ==
    /\ uid' = uid + 1
    /\ UNCHANGED <<obj, issued, phase, owner, copied>>

Rotate ==
    /\ issued' = issued + 1
    /\ UNCHANGED <<obj, uid, phase, owner, copied>>

Next ==
    \/ Sync \/ GiveUp \/ EnsureWebhook \/ Copy \/ EnsureCRD
    \/ Recreate \/ Rotate
    \/ \E o \in Object : Inject(o) \/ Meddle(o)

Spec == Init /\ [][Next]_absVars
=============================================================================
