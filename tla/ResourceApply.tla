---------------------------- MODULE ResourceApply ----------------------------
(***************************************************************************)
(* How a sync of the reconciler applies a webhook configuration and the    *)
(* JobSet CRD while others write them too: every GET and every write is a  *)
(* step of its own.  The CA bundle in both objects is written by           *)
(* cert-manager, which the operator asks for it with an annotation.  The   *)
(* resource cache lets an apply be skipped when neither the object nor     *)
(* what is required of it has changed.                                     *)
(***************************************************************************)
EXTENDS Naturals

CONSTANTS
    MaxUid,        \* how often the CR may be created
    MaxCA,         \* how many CA bundles cert-manager may issue
    MaxTrouble     \* how often somebody else may change or delete an object, a
                   \* call may fail or the operator's process may end

ASSUME ResourceApplyAssumption == {MaxUid, MaxCA, MaxTrouble} \subseteq Nat \ {0}

Object == {"webhook", "crd"}

\* A resourceVersion is only ever compared for equality. In place of the
\* number, same says which of the versions a reader remembers are the object's
\* current one: that of the last GET, that of the last write's response, and
\* the one in the resource cache.
Remembered == {"got", "actual", "cached"}

\* ca: the CA bundle, 0 when there is none. inject: the annotation is there.
ObjectVal == [exists : BOOLEAN, owner : Nat, spec : {"desired", "drifted"},
              inject : BOOLEAN, ca : Nat]
Absent == [exists |-> FALSE, owner |-> 0, spec |-> "drifted", inject |-> FALSE, ca |-> 0]

VARIABLES
    obj,      \* the two objects
    same,     \* see Remembered
    uid,      \* the CR's UID
    issued,   \* the CA bundle cert-manager has issued last
    cache,    \* the resource cache's entry for the webhook: the hash of what
              \* was required, which depends on the owner only; 0: no entry
    pc,       \* where the sync is
    loc,      \* its locals: the owner it requires, the CA bundle manageCRD
              \* read, and the object as the last GET returned it
    trouble   \* how often that has happened

vars == <<obj, same, uid, issued, cache, pc, loc, trouble>>

PC  == {"idle", "getWebhook", "writeWebhook", "cacheWebhook", "readCRD", "getCRD", "writeCRD"}
Loc == [owner : Nat, ca : Nat, got : ObjectVal]

Init ==
    /\ obj = [o \in Object |-> Absent]
    /\ same = [o \in Object |-> {}]
    /\ uid = 1
    /\ issued = 1
    /\ cache = 0
    /\ pc = "idle"
    /\ loc = [owner |-> 0, ca |-> 0, got |-> Absent]
    /\ trouble = 0

\* What is compared: metadata and spec, without the CA bundle.
Satisfies(x, owner) == x.exists /\ x.owner = owner /\ x.spec = "desired" /\ x.inject

Desired(owner, ca) ==
    [exists |-> TRUE, owner |-> owner, spec |-> "desired", inject |-> TRUE, ca |-> ca]

\* An object changes; known are the remembered versions that are its new one.
Put(o, x, known) ==
    /\ obj' = [obj EXCEPT ![o] = x]
    /\ same' = [same EXCEPT ![o] = known]

\* A GET whose version is remembered.
Got(o) ==
    /\ loc' = [loc EXCEPT !.got = obj[o]]
    /\ same' = [same EXCEPT ![o] = @ \cup {"got"}]

\* Faulty variant of CacheVersion: the object's version of now is cached, not
\* that of the write's response.
CacheLatest ==
    /\ cache' = loc.owner
    /\ same' = [same EXCEPT !["webhook"] = @ \cup {"cached"}]

\* The version of the write's response is remembered as the cached one.
CacheVersion ==
    /\ cache' = loc.owner
    /\ same' = [same EXCEPT !["webhook"] =
                   (@ \ {"cached"}) \cup (IF "actual" \in @ THEN {"cached"} ELSE {})]

-----------------------------------------------------------------------------
(* The webhook configurations.                                             *)

Sync ==
    /\ pc = "idle"
    /\ pc' = "getWebhook"
    /\ loc' = [loc EXCEPT !.owner = uid]
    /\ UNCHANGED <<obj, same, uid, issued, cache, trouble>>

Trouble == trouble < MaxTrouble /\ trouble' = trouble + 1

\* A call fails, which ends the sync; there will be another one.
Fails ==
    /\ pc # "idle"
    /\ pc' = "idle"
    /\ Trouble
    /\ UNCHANGED <<obj, same, uid, issued, cache, loc>>

\* The API server refuses an update of an object that has changed.
Conflict ==
    /\ \/ pc = "writeWebhook" /\ "got" \notin same["webhook"]
       \/ pc = "writeCRD" /\ "got" \notin same["crd"]
    /\ pc' = "idle"
    /\ UNCHANGED <<obj, same, uid, issued, cache, loc, trouble>>

\* Faulty variant of SafeToSkipApply: what is required is not looked at.
SameVersion == "cached" \in same["webhook"] /\ cache # 0

SafeToSkipApply == "cached" \in same["webhook"] /\ cache = loc.owner

\* The GET of an apply. An object that is not there is created, without a CA
\* bundle, one that needs no change has its version cached.
CreateWebhook ==
    /\ pc = "getWebhook"
    /\ ~obj["webhook"].exists
    /\ Put("webhook", Desired(loc.owner, 0), {"actual"})
    /\ pc' = "cacheWebhook"
    /\ UNCHANGED <<uid, issued, cache, loc, trouble>>

SkipWebhook ==
    /\ pc = "getWebhook"
    /\ obj["webhook"].exists
    /\ SafeToSkipApply
    /\ pc' = "readCRD"
    /\ UNCHANGED <<obj, same, uid, issued, cache, loc, trouble>>

KeepWebhook ==
    /\ pc = "getWebhook"
    /\ ~SafeToSkipApply
    /\ Satisfies(obj["webhook"], loc.owner)
    /\ cache' = loc.owner
    /\ same' = [same EXCEPT !["webhook"] = @ \cup {"cached"}]
    /\ pc' = "readCRD"
    /\ UNCHANGED <<obj, uid, issued, loc, trouble>>

GetWebhook ==
    /\ pc = "getWebhook"
    /\ obj["webhook"].exists
    /\ ~SafeToSkipApply
    /\ ~Satisfies(obj["webhook"], loc.owner)
    /\ Got("webhook")
    /\ pc' = "writeWebhook"
    /\ UNCHANGED <<obj, uid, issued, cache, trouble>>

\* Faulty variant of WriteWebhook: the update is sent without the version.
WriteUnconditionally ==
    /\ pc = "writeWebhook"
    /\ obj["webhook"].exists
    /\ Put("webhook", Desired(loc.owner, loc.got.ca), {"actual"})
    /\ pc' = "cacheWebhook"
    /\ UNCHANGED <<uid, issued, cache, loc, trouble>>

\* The update carries the CA bundle of the object the GET returned, and its
\* version.
WriteWebhook ==
    /\ pc = "writeWebhook"
    /\ "got" \in same["webhook"]
    /\ Put("webhook", Desired(loc.owner, loc.got.ca), {"actual"})
    /\ pc' = "cacheWebhook"
    /\ UNCHANGED <<uid, issued, cache, loc, trouble>>

CacheWebhook ==
    /\ pc = "cacheWebhook"
    /\ CacheVersion
    /\ pc' = "readCRD"
    /\ UNCHANGED <<obj, uid, issued, loc, trouble>>

-----------------------------------------------------------------------------
(* The CRD.                                                                *)

\* Faulty variant of ReadCRD: the CA bundle of the CRD is not copied.
ReadCRDOnly ==
    /\ pc = "readCRD"
    /\ loc' = [loc EXCEPT !.ca = 0]
    /\ pc' = "getCRD"
    /\ UNCHANGED <<obj, same, uid, issued, cache, trouble>>

\* manageCRD reads the CRD to copy its CA bundle into the one it requires.
ReadCRD ==
    /\ pc = "readCRD"
    /\ loc' = [loc EXCEPT !.ca = obj["crd"].ca]
    /\ pc' = "getCRD"
    /\ UNCHANGED <<obj, same, uid, issued, cache, trouble>>

\* ApplyCustomResourceDefinitionV1 reads it again, compares all of the spec,
\* the CA bundle included, and writes with the version of this second GET.
CreateCRD ==
    /\ pc = "getCRD"
    /\ ~obj["crd"].exists
    /\ Put("crd", Desired(loc.owner, loc.ca), {})
    /\ pc' = "idle"
    /\ UNCHANGED <<uid, issued, cache, loc, trouble>>

KeepCRD ==
    /\ pc = "getCRD"
    /\ obj["crd"] = Desired(loc.owner, loc.ca)
    /\ pc' = "idle"
    /\ UNCHANGED <<obj, same, uid, issued, cache, loc, trouble>>

GetCRD ==
    /\ pc = "getCRD"
    /\ obj["crd"].exists
    /\ obj["crd"] # Desired(loc.owner, loc.ca)
    /\ Got("crd")
    /\ pc' = "writeCRD"
    /\ UNCHANGED <<obj, uid, issued, cache, trouble>>

WriteCRD ==
    /\ pc = "writeCRD"
    /\ "got" \in same["crd"]
    /\ Put("crd", Desired(loc.owner, loc.ca), {})
    /\ pc' = "idle"
    /\ UNCHANGED <<uid, issued, cache, loc, trouble>>

-----------------------------------------------------------------------------
(* Everybody else.                                                         *)

\* The process starts again, with an empty cache.
Restart ==
    /\ pc' = "idle"
    /\ cache' = 0
    /\ Trouble
    /\ UNCHANGED <<obj, same, uid, issued, loc>>

RecreateCR ==
    /\ uid < MaxUid
    /\ uid' = uid + 1
    /\ UNCHANGED <<obj, same, issued, cache, pc, loc, trouble>>

RotateCA ==
    /\ issued < MaxCA
    /\ issued' = issued + 1
    /\ UNCHANGED <<obj, same, uid, cache, pc, loc, trouble>>

\* cert-manager's CA injector; its writes are conditional as well.
InjectCA(o) ==
    /\ obj[o].exists /\ obj[o].inject
    /\ obj[o].ca # issued
    /\ Put(o, [obj[o] EXCEPT !.ca = issued], {})
    /\ UNCHANGED <<uid, issued, cache, pc, loc, trouble>>

Meddle(o) ==
    /\ Trouble
    /\ obj[o].exists
    /\ \/ Put(o, [obj[o] EXCEPT !.spec = "drifted"], {})
       \/ Put(o, [obj[o] EXCEPT !.inject = FALSE, !.ca = 0], {})
       \/ Put(o, Absent, {})
    /\ UNCHANGED <<uid, issued, cache, pc, loc>>

Reconcile ==
    \/ CreateWebhook \/ SkipWebhook \/ KeepWebhook \/ GetWebhook
    \/ WriteWebhook \/ CacheWebhook \/ Conflict
    \/ ReadCRD \/ CreateCRD \/ KeepCRD \/ GetCRD \/ WriteCRD

Next ==
    \/ Sync \/ Fails \/ Reconcile
    \/ Restart \/ RecreateCR \/ RotateCA
    \/ \E o \in Object : InjectCA(o) \/ Meddle(o)

\* Syncs go on: there is a resync every five minutes. Because they are that far
\* apart, cert-manager also gets to write between two of them, not always in
\* the middle of one.
Fairness ==
    /\ WF_vars(Sync)
    /\ WF_vars(Reconcile)
    /\ \A o \in Object : SF_vars(pc = "idle" /\ InjectCA(o))

Spec     == Init /\ [][Next]_vars
FairSpec == Spec /\ Fairness

-----------------------------------------------------------------------------
(* Properties.                                                             *)

TypeOK ==
    /\ obj \in [Object -> ObjectVal]
    /\ same \in [Object -> SUBSET Remembered]
    /\ {uid, issued, cache, trouble} \subseteq Nat
    /\ pc \in PC
    /\ loc \in Loc
    /\ \A o \in Object : obj[o].exists \/ same[o] = {}

\* An apply that the resource cache skips would have changed nothing: neither
\* the object nor the requirement has changed since it was found or made right.
SkippedIsApplied ==
    pc = "getWebhook" /\ obj["webhook"].exists /\ SafeToSkipApply
        => Satisfies(obj["webhook"], loc.owner)

\* The operator's writes never touch the CA bundle a webhook has, though it
\* changes between any two calls of a sync.
WebhookCAKept ==
    [][WriteWebhook => obj'["webhook"].ca = obj["webhook"].ca]_vars

\* What the sync applies next, when an apply is taken for one step: the step is
\* the write, or the GET after which none is needed.
Phase == [idle |-> "idle",
          getWebhook |-> "webhook", writeWebhook |-> "webhook",
          cacheWebhook |-> "copy", readCRD |-> "copy",
          getCRD |-> "crd", writeCRD |-> "crd"][pc]

Atomically == INSTANCE AtomicApply
    WITH phase <- Phase, owner <- loc.owner, copied <- loc.ca

\* Although an apply is a GET and a conditional write, or skipped because of what
\* the resource cache says, and although others change the object in between, it
\* has the effect of one step: whoever calls it may take it for one.
AppliesAtomically == Atomically!Spec

\* When the CR and the CA bundle stay as they are, both objects come to be as
\* required, with the bundle issued last, although manageCRD may have written an
\* older one over it. Then nobody writes any more: the operator and cert-manager
\* do not fight.
Settles ==
    /\ <>[](\A o \in Object : Satisfies(obj[o], uid) /\ obj[o].ca = issued)
    /\ <>[][obj' = obj]_vars

\* Both objects are right with the bundle issued last, and no sync under way is about
\* to require anything else.
Peaceful ==
    /\ \A o \in Object : Satisfies(obj[o], uid) /\ obj[o].ca = issued
    /\ pc # "idle" => loc.owner = uid
    /\ pc \in {"getCRD", "writeCRD"} => loc.ca = issued

\* From then on neither the operator, whatever fails and however often it starts
\* again, nor cert-manager changes an object: they do not fight.
NobodyFights ==
    [][Peaceful /\ (Sync \/ Fails \/ Reconcile \/ Restart \/ \E o \in Object : InjectCA(o))
          => Peaceful' /\ UNCHANGED obj]_vars
=============================================================================
