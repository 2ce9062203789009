------------------------- MODULE ResourceApplyProofs -------------------------
(***************************************************************************)
(* The resource cache never skips an apply that was needed, whatever       *)
(* others do to the object and however often CR and CA bundle change.      *)
(***************************************************************************)
EXTENDS ResourceApply, TLAPS

\* The cached version is one in which the object was as required.
CacheTrue ==
    "cached" \in same["webhook"] /\ cache # 0 => Satisfies(obj["webhook"], cache)

\* So is the version in the response of the last write, until the sync has
\* cached it.
ResponseTrue ==
    pc = "cacheWebhook" /\ "actual" \in same["webhook"]
        => Satisfies(obj["webhook"], loc.owner)

\* The CR has a UID, and so has what a sync requires.
OwnerSet == uid # 0 /\ (pc # "idle" => loc.owner # 0)

IInv == TypeOK /\ CacheTrue /\ ResponseTrue /\ OwnerSet

LEMMA InitInv == Init => IInv
  BY DEF Init, IInv, TypeOK, CacheTrue, ResponseTrue, OwnerSet, Object, ObjectVal,
     Absent, Remembered, PC, Loc

LEMMA ObjectTypes ==
    /\ Absent \in ObjectVal
    /\ \A owner, ca \in Nat : /\ Desired(owner, ca) \in ObjectVal
                              /\ Desired(owner, ca).exists
                              /\ Satisfies(Desired(owner, ca), owner)
    /\ "webhook" \in Object /\ "crd" \in Object
  BY DEF Absent, Desired, ObjectVal, Satisfies, Object

\* Writing an object keeps the types, if what is known of an absent one is
\* nothing.
LEMMA PutType ==
    ASSUME TypeOK, NEW o \in Object, NEW x \in ObjectVal, NEW known \in SUBSET Remembered,
           x.exists \/ known = {}, Put(o, x, known)
    PROVE  /\ obj' \in [Object -> ObjectVal]
           /\ same' \in [Object -> SUBSET Remembered]
           /\ \A p \in Object : obj'[p].exists \/ same'[p] = {}
           /\ obj'[o] = x /\ same'[o] = known
           /\ \A p \in Object : p # o => obj'[p] = obj[p] /\ same'[p] = same[p]
  BY DEF Put, TypeOK

\* Whoever else writes the webhook configuration leaves the invariant true.
LEMMA ForeignPut ==
    ASSUME IInv, NEW o \in Object, NEW x \in ObjectVal, Put(o, x, {}),
           UNCHANGED <<cache, pc, loc>>
    PROVE  CacheTrue' /\ ResponseTrue'
  <1>1. CASE o = "webhook"
    BY <1>1, PutType DEF IInv, CacheTrue, ResponseTrue, Remembered
  <1>2. CASE o # "webhook"
    <2>1. obj'["webhook"] = obj["webhook"] /\ same'["webhook"] = same["webhook"]
      BY <1>2, PutType, ObjectTypes DEF IInv, Remembered
    <2>2. QED
      BY <2>1 DEF IInv, CacheTrue, ResponseTrue
  <1>3. QED
    BY <1>1, <1>2

\* The steps that only move the sync, or change what it has not read yet.
LEMMA MoveInv ==
    ASSUME IInv, UNCHANGED <<obj, same, cache>>, TypeOK', OwnerSet', pc' # "cacheWebhook"
    PROVE  IInv'
  BY DEF IInv, CacheTrue, ResponseTrue

LEMMA WriteWebhookInv ==
    ASSUME IInv, CreateWebhook \/ WriteWebhook
    PROVE  IInv'
  <1> USE DEF IInv
  <1>1. PICK ca \in Nat : Put("webhook", Desired(loc.owner, ca), {"actual"})
    BY DEF CreateWebhook, WriteWebhook, TypeOK, Loc, ObjectVal
  <1>2. loc.owner \in Nat /\ {"actual"} \in SUBSET Remembered
    BY DEF TypeOK, Loc, Remembered
  <1>3. /\ obj' \in [Object -> ObjectVal]
        /\ same' \in [Object -> SUBSET Remembered]
        /\ \A p \in Object : obj'[p].exists \/ same'[p] = {}
        /\ obj'["webhook"] = Desired(loc.owner, ca)
        /\ same'["webhook"] = {"actual"}
    BY <1>1, <1>2, PutType, ObjectTypes
  <1>4. UNCHANGED <<uid, issued, cache, loc, trouble>> /\ pc' = "cacheWebhook" /\ pc # "idle"
    BY DEF CreateWebhook, WriteWebhook
  <1>5. TypeOK'
    BY <1>3, <1>4 DEF TypeOK, PC
  <1>6. CacheTrue' /\ ResponseTrue'
    BY <1>2, <1>3, <1>4, ObjectTypes DEF CacheTrue, ResponseTrue
  <1>7. OwnerSet'
    BY <1>4 DEF OwnerSet
  <1>8. QED
    BY <1>5, <1>6, <1>7

LEMMA WriteCRDInv ==
    ASSUME IInv, CreateCRD \/ WriteCRD
    PROVE  IInv'
  <1> USE DEF IInv
  <1>1. Put("crd", Desired(loc.owner, loc.ca), {})
    BY DEF CreateCRD, WriteCRD
  <1>2. Desired(loc.owner, loc.ca) \in ObjectVal
    BY ObjectTypes DEF TypeOK, Loc
  <1>3. /\ obj' \in [Object -> ObjectVal]
        /\ same' \in [Object -> SUBSET Remembered]
        /\ \A p \in Object : obj'[p].exists \/ same'[p] = {}
        /\ obj'["webhook"] = obj["webhook"] /\ same'["webhook"] = same["webhook"]
    BY <1>1, <1>2, PutType, ObjectTypes
  <1>4. UNCHANGED <<uid, issued, cache, loc, trouble>> /\ pc' = "idle"
    BY DEF CreateCRD, WriteCRD
  <1>5. TypeOK'
    BY <1>3, <1>4 DEF TypeOK, PC
  <1>6. CacheTrue' /\ ResponseTrue' /\ OwnerSet'
    BY <1>3, <1>4 DEF CacheTrue, ResponseTrue, OwnerSet
  <1>7. QED
    BY <1>5, <1>6

\* Remembering the version of a GET.
LEMMA GotInv ==
    ASSUME IInv, NEW o \in Object, Got(o), obj[o].exists, pc # "idle",
           pc' \in {"writeWebhook", "writeCRD"}, UNCHANGED <<obj, uid, issued, cache, trouble>>
    PROVE  IInv'
  <1> USE DEF IInv
  <1>1. /\ same' \in [Object -> SUBSET Remembered]
        /\ \A p \in Object : same'[p] = same[p] \/ (p = o /\ same'[p] = same[p] \cup {"got"})
    BY DEF Got, TypeOK, Remembered
  <1>2. "cached" \in same'["webhook"] => "cached" \in same["webhook"]
    BY <1>1, ObjectTypes
  <1>3. loc' \in Loc /\ loc'.owner = loc.owner
    BY DEF Got, TypeOK, Loc
  <1>4. TypeOK'
    BY <1>1, <1>3 DEF TypeOK, PC
  <1>5. CacheTrue' /\ ResponseTrue' /\ OwnerSet'
    BY <1>2, <1>3 DEF CacheTrue, ResponseTrue, OwnerSet
  <1>6. QED
    BY <1>4, <1>5

LEMMA KeepWebhookInv ==
    ASSUME IInv, KeepWebhook
    PROVE  IInv'
  <1> USE DEF IInv
  <1>1. /\ same' = [same EXCEPT !["webhook"] = @ \cup {"cached"}]
        /\ cache' = loc.owner /\ pc' = "readCRD" /\ pc = "getWebhook"
        /\ UNCHANGED <<obj, uid, issued, loc, trouble>>
        /\ Satisfies(obj["webhook"], loc.owner)
    BY DEF KeepWebhook
  <1>2. TypeOK'
    BY <1>1 DEF TypeOK, PC, Remembered, Satisfies, Object, Loc
  <1>3. CacheTrue' /\ ResponseTrue' /\ OwnerSet'
    BY <1>1 DEF CacheTrue, ResponseTrue, OwnerSet
  <1>4. QED
    BY <1>2, <1>3

LEMMA CacheWebhookInv ==
    ASSUME IInv, CacheWebhook
    PROVE  IInv'
  <1> USE DEF IInv
  <1>1. /\ cache' = loc.owner /\ pc' = "readCRD" /\ pc = "cacheWebhook"
        /\ UNCHANGED <<obj, uid, issued, loc, trouble>>
        /\ same' = [same EXCEPT !["webhook"] =
                (@ \ {"cached"}) \cup (IF "actual" \in @ THEN {"cached"} ELSE {})]
    BY DEF CacheWebhook, CacheVersion
  <1>2. /\ same' \in [Object -> SUBSET Remembered]
        /\ \A p \in Object : p # "webhook" => same'[p] = same[p]
        /\ "cached" \in same'["webhook"] => "actual" \in same["webhook"]
        /\ same["webhook"] = {} => same'["webhook"] = {}
    BY <1>1 DEF TypeOK, Remembered, Object
  <1>3. TypeOK'
    <2>1. \A p \in Object : obj'[p].exists \/ same'[p] = {}
      BY <1>1, <1>2 DEF TypeOK
    <2>2. cache' \in Nat
      BY <1>1 DEF TypeOK, Loc
    <2>3. QED
      BY <1>1, <1>2, <2>1, <2>2 DEF TypeOK, PC
  <1>4. CacheTrue' /\ ResponseTrue' /\ OwnerSet'
    BY <1>1, <1>2 DEF CacheTrue, ResponseTrue, OwnerSet
  <1>5. QED
    BY <1>3, <1>4

\* cert-manager and everybody else.
LEMMA OthersInv ==
    ASSUME IInv, NEW o \in Object, InjectCA(o) \/ Meddle(o)
    PROVE  IInv'
  <1> USE DEF IInv
  <1>0. obj[o] \in ObjectVal
    BY DEF TypeOK
  <1>1. PICK x \in ObjectVal : Put(o, x, {})
    <2>1. /\ [obj[o] EXCEPT !.ca = issued] \in ObjectVal
          /\ [obj[o] EXCEPT !.spec = "drifted"] \in ObjectVal
          /\ [obj[o] EXCEPT !.inject = FALSE, !.ca = 0] \in ObjectVal
          /\ Absent \in ObjectVal
      BY <1>0, ObjectTypes DEF ObjectVal, TypeOK
    <2>2. QED
      BY <2>1 DEF InjectCA, Meddle
  <1>2. /\ UNCHANGED <<uid, issued, cache, pc, loc>>
        /\ trouble' \in Nat
    BY DEF InjectCA, Meddle, Trouble, TypeOK
  <1>3. TypeOK'
    <2>1. /\ obj' \in [Object -> ObjectVal]
          /\ same' \in [Object -> SUBSET Remembered]
          /\ \A p \in Object : obj'[p].exists \/ same'[p] = {}
      BY <1>1, PutType DEF Remembered
    <2>2. QED
      BY <2>1, <1>2 DEF TypeOK
  <1>4. CacheTrue' /\ ResponseTrue'
    BY <1>1, <1>2, ForeignPut
  <1>5. OwnerSet'
    BY <1>2 DEF OwnerSet
  <1>6. QED
    BY <1>3, <1>4, <1>5

LEMMA NextInv == IInv /\ [Next]_vars => IInv'
  <1> SUFFICES ASSUME IInv, [Next]_vars PROVE IInv'
    OBVIOUS
  <1>0. TypeOK /\ OwnerSet
    BY DEF IInv
  <1>1. CASE Sync
    BY <1>0, <1>1, MoveInv DEF Sync, TypeOK, OwnerSet, PC, Loc
  <1>2. CASE Fails
    BY <1>0, <1>2, MoveInv DEF Fails, Trouble, TypeOK, OwnerSet, PC
  <1>3. CASE Conflict \/ SkipWebhook \/ KeepCRD
    BY <1>0, <1>3, MoveInv DEF Conflict, SkipWebhook, KeepCRD, TypeOK, OwnerSet, PC
  <1>4. CASE CreateWebhook \/ WriteWebhook
    BY <1>4, WriteWebhookInv
  <1>5. CASE KeepWebhook
    BY <1>5, KeepWebhookInv
  <1>6. CASE GetWebhook
    BY <1>6, GotInv, ObjectTypes DEF GetWebhook
  <1>7. CASE CacheWebhook
    BY <1>7, CacheWebhookInv
  <1>8. CASE ReadCRD
    <2>1. obj["crd"].ca \in Nat
      BY <1>0, ObjectTypes DEF TypeOK, ObjectVal
    <2>2. QED
      BY <1>0, <1>8, <2>1, MoveInv DEF ReadCRD, TypeOK, OwnerSet, PC, Loc
  <1>9. CASE CreateCRD \/ WriteCRD
    BY <1>9, WriteCRDInv
  <1>10. CASE GetCRD
    BY <1>10, GotInv, ObjectTypes DEF GetCRD
  <1>11. CASE Restart
    <2>1. TypeOK' /\ OwnerSet'
      BY <1>0, <1>11 DEF Restart, Trouble, TypeOK, OwnerSet, PC
    <2>2. CacheTrue' /\ ResponseTrue'
      BY <1>11 DEF Restart, CacheTrue, ResponseTrue
    <2>3. QED
      BY <2>1, <2>2 DEF IInv
  <1>12. CASE RecreateCR \/ RotateCA
    <2>1. UNCHANGED <<obj, same, cache, pc, loc, trouble>> /\ uid' \in Nat /\ issued' \in Nat
          /\ uid' # 0
      BY <1>0, <1>12 DEF RecreateCR, RotateCA, TypeOK, OwnerSet
    <2>2. QED
      BY <1>0, <2>1 DEF IInv, TypeOK, CacheTrue, ResponseTrue, OwnerSet
  <1>13. ASSUME NEW o \in Object, InjectCA(o) \/ Meddle(o) PROVE IInv'
    BY <1>13, OthersInv
  <1>14. CASE UNCHANGED vars
    BY <1>14 DEF vars, IInv, TypeOK, CacheTrue, ResponseTrue, OwnerSet
  <1>15. QED
    BY <1>1, <1>2, <1>3, <1>4, <1>5, <1>6, <1>7, <1>8, <1>9, <1>10, <1>11, <1>12,
       <1>13, <1>14 DEF Next, Reconcile

\* What every reachable state of the applies satisfies.
THEOREM Invariant == Spec => []IInv
  BY InitInv, NextInv, PTL DEF Spec

\* The state keeps its types; nobody remembers the version of an object that
\* is not there.
THEOREM TypeCorrect == Spec => []TypeOK
  <1>1. IInv => TypeOK
    BY DEF IInv
  <1>2. QED
    BY <1>1, Invariant, PTL

\* SafeToSkipApply lives up to its comment: what is skipped has been applied.
THEOREM SkipIsSafe == Spec => []SkippedIsApplied
  <1>1. IInv => SkippedIsApplied
    BY DEF IInv, CacheTrue, OwnerSet, SkippedIsApplied, SafeToSkipApply
  <1>2. QED
    BY <1>1, Invariant, PTL

\* As long as the version of the last GET is the current one, the object still
\* is what the GET returned.
GotTrue == pc = "writeWebhook" /\ "got" \in same["webhook"] => loc.got = obj["webhook"]

LEMMA GotTrueNext == TypeOK /\ GotTrue /\ [Next]_vars => GotTrue'
  <1> SUFFICES ASSUME TypeOK, GotTrue, [Next]_vars, pc' = "writeWebhook",
                      "got" \in same'["webhook"]
               PROVE  loc'.got = obj'["webhook"]
    BY DEF GotTrue
  <1>1. CASE GetWebhook
    BY <1>1 DEF GetWebhook, Got, TypeOK, Loc
  <1>2. ASSUME NEW o \in Object, InjectCA(o) \/ Meddle(o) PROVE loc'.got = obj'["webhook"]
    <2>1. /\ \E x : Put(o, x, {})
          /\ UNCHANGED <<pc, loc>>
      BY <1>2 DEF InjectCA, Meddle
    <2>2. CASE o = "webhook"
      BY <2>1, <2>2 DEF Put, TypeOK, Object
    <2>3. CASE o # "webhook"
      BY <2>1, <2>3 DEF Put, TypeOK, Object, GotTrue
    <2>4. QED
      BY <2>2, <2>3
  <1>3. CASE RecreateCR \/ RotateCA \/ UNCHANGED vars
    BY <1>3 DEF RecreateCR, RotateCA, vars, GotTrue
  <1>4. CASE Sync \/ Fails \/ Restart \/ Conflict
    BY <1>4 DEF Sync, Fails, Restart, Conflict
  <1>5. CASE \/ CreateWebhook \/ SkipWebhook \/ KeepWebhook \/ WriteWebhook \/ CacheWebhook
             \/ ReadCRD \/ CreateCRD \/ KeepCRD \/ GetCRD \/ WriteCRD
    BY <1>5 DEF CreateWebhook, SkipWebhook, KeepWebhook, WriteWebhook, CacheWebhook,
       ReadCRD, CreateCRD, KeepCRD, GetCRD, WriteCRD
  <1>6. QED
    BY <1>1, <1>2, <1>3, <1>4, <1>5 DEF Next, Reconcile

\* The update of a webhook configuration is one of the object that the GET
\* returned, so it keeps whatever CA bundle the object has by then.
THEOREM CAIsKept == Spec => WebhookCAKept
  <1>1. Init => GotTrue
    BY DEF Init, GotTrue
  <1>2. TypeOK /\ GotTrue /\ [Next]_vars
            => [WriteWebhook => obj'["webhook"].ca = obj["webhook"].ca]_vars
    <2>1. ASSUME TypeOK, GotTrue, WriteWebhook
          PROVE  obj'["webhook"].ca = obj["webhook"].ca
      <3>1. obj' = [obj EXCEPT !["webhook"] = Desired(loc.owner, loc.got.ca)]
            /\ loc.got = obj["webhook"]
        BY <2>1 DEF WriteWebhook, Put, GotTrue
      <3>2. QED
        BY <2>1, <3>1, ObjectTypes DEF TypeOK, Desired
    <2>2. QED
      BY <2>1
  <1>3. QED
    BY <1>1, <1>2, GotTrueNext, TypeCorrect, PTL DEF Spec, WebhookCAKept

-----------------------------------------------------------------------------
(* Each apply has the effect of one step.                                  *)

\* Of an object that is not there nothing is left, no CA bundle either.
AbsentTrue == \A o \in Object : obj[o].exists \/ obj[o] = Absent

LEMMA AbsentNext == TypeOK /\ AbsentTrue /\ [Next]_vars => AbsentTrue'
  <1> SUFFICES ASSUME TypeOK, AbsentTrue, [Next]_vars, NEW p \in Object
               PROVE  obj'[p].exists \/ obj'[p] = Absent
    BY DEF AbsentTrue
  <1>0. obj[p] \in ObjectVal /\ (obj[p].exists \/ obj[p] = Absent)
    BY DEF TypeOK, AbsentTrue
  <1>1. ASSUME NEW o \in Object, NEW x, NEW known, Put(o, x, known), x.exists \/ x = Absent
        PROVE  obj'[p].exists \/ obj'[p] = Absent
    BY <1>0, <1>1 DEF Put, TypeOK
  <1>2. CASE CreateWebhook \/ WriteWebhook \/ CreateCRD \/ WriteCRD
    BY <1>1, <1>2 DEF CreateWebhook, WriteWebhook, CreateCRD, WriteCRD, Desired, Object
  <1>3. ASSUME NEW o \in Object, InjectCA(o) \/ Meddle(o)
        PROVE  obj'[p].exists \/ obj'[p] = Absent
    <2>1. obj[o].exists /\ obj[o] \in ObjectVal
      BY <1>3 DEF InjectCA, Meddle, TypeOK
    <2>a. /\ [obj[o] EXCEPT !.ca = issued].exists
          /\ [obj[o] EXCEPT !.spec = "drifted"].exists
          /\ [obj[o] EXCEPT !.inject = FALSE, !.ca = 0].exists
      BY <2>1 DEF ObjectVal
    <2>2. \E x : Put(o, x, {}) /\ (x.exists \/ x = Absent)
      <3>1. CASE InjectCA(o)
        BY <2>a, <3>1 DEF InjectCA
      <3>2. CASE Meddle(o)
        BY <2>a, <3>2 DEF Meddle
      <3>3. QED
        BY <1>3, <3>1, <3>2
    <2>3. QED
      BY <1>1, <2>2
  <1>4. CASE UNCHANGED obj
    BY <1>0, <1>4
  <1>5. QED
    BY <1>2, <1>3, <1>4 DEF Next, Reconcile, Sync, Fails, Conflict, SkipWebhook, KeepWebhook,
       GetWebhook, CacheWebhook, ReadCRD, KeepCRD, GetCRD, Restart, RecreateCR, RotateCA, vars

\* An object that satisfies what is required of it is, with its CA bundle, the
\* required one.
LEMMA SatisfiedIsDesired ==
    ASSUME NEW x \in ObjectVal, NEW owner, Satisfies(x, owner)
    PROVE  x = Desired(owner, x.ca)
  BY DEF Satisfies, Desired, ObjectVal

\* The required objects of the two specifications are the same.
LEMMA SameRequirement == \A ca : Atomically!AsRequired(ca) = Desired(loc.owner, ca)
  BY DEF Atomically!AsRequired, Desired

LEMMA PhaseOf ==
    /\ pc = "idle" => Phase = "idle"
    /\ pc \in {"getWebhook", "writeWebhook"} => Phase = "webhook"
    /\ pc \in {"cacheWebhook", "readCRD"} => Phase = "copy"
    /\ pc \in {"getCRD", "writeCRD"} => Phase = "crd"
  BY DEF Phase

LEMMA PhaseOfNext ==
    /\ pc' = "idle" => Phase' = "idle"
    /\ pc' \in {"getWebhook", "writeWebhook"} => Phase' = "webhook"
    /\ pc' \in {"cacheWebhook", "readCRD"} => Phase' = "copy"
    /\ pc' \in {"getCRD", "writeCRD"} => Phase' = "crd"
  BY DEF Phase

\* The steps of an apply of the webhook configuration that decide what it will
\* have been: creation, update, nothing to change, nothing to do at all.
LEMMA WebhookEnsured ==
    ASSUME IInv, GotTrue, AbsentTrue,
           CreateWebhook \/ SkipWebhook \/ KeepWebhook \/ WriteWebhook
    PROVE  Atomically!EnsureWebhook
  <1> DEFINE x == obj["webhook"]
  <1>0. TypeOK /\ CacheTrue /\ OwnerSet /\ x \in ObjectVal
    BY ObjectTypes DEF IInv, TypeOK
  <1>1. Phase = "webhook" /\ Phase' = "copy"
    BY PhaseOf, PhaseOfNext DEF CreateWebhook, SkipWebhook, KeepWebhook, WriteWebhook
  <1>2. UNCHANGED <<uid, issued, loc>>
    BY DEF CreateWebhook, SkipWebhook, KeepWebhook, WriteWebhook
  <1>3. obj' = [obj EXCEPT !["webhook"] = Desired(loc.owner, x.ca)]
    <2>1. CASE CreateWebhook
      <3>1. x.ca = 0
        BY <2>1, ObjectTypes DEF CreateWebhook, AbsentTrue, Absent
      <3>2. QED
        BY <2>1, <3>1 DEF CreateWebhook, Put
    <2>2. CASE WriteWebhook
      BY <2>2 DEF WriteWebhook, Put, GotTrue
    <2>3. CASE SkipWebhook \/ KeepWebhook
      <3>1. Satisfies(x, loc.owner)
        BY <1>0, <2>3 DEF SkipWebhook, KeepWebhook, SafeToSkipApply, CacheTrue, OwnerSet
      <3>2. x = Desired(loc.owner, x.ca)
        BY <1>0, <3>1, SatisfiedIsDesired
      <3>3. obj' = obj
        BY <2>3 DEF SkipWebhook, KeepWebhook
      <3>4. QED
        BY <1>0, <3>2, <3>3 DEF TypeOK
    <2>4. QED
      BY <2>1, <2>2, <2>3
  <1>4. QED
    BY <1>1, <1>2, <1>3, SameRequirement DEF Atomically!EnsureWebhook, Atomically!Change

\* The same of the CRD.
LEMMA CRDEnsured ==
    ASSUME TypeOK, CreateCRD \/ KeepCRD \/ WriteCRD
    PROVE  Atomically!EnsureCRD
  <1>1. Phase = "crd" /\ Phase' = "idle"
    BY PhaseOf, PhaseOfNext DEF CreateCRD, KeepCRD, WriteCRD
  <1>2. UNCHANGED <<uid, issued, loc>>
    BY DEF CreateCRD, KeepCRD, WriteCRD
  <1>3. obj' = [obj EXCEPT !["crd"] = Desired(loc.owner, loc.ca)]
    <2>1. CASE KeepCRD
      BY <2>1 DEF KeepCRD, TypeOK
    <2>2. CASE CreateCRD \/ WriteCRD
      BY <2>2 DEF CreateCRD, WriteCRD, Put
    <2>3. QED
      BY <2>1, <2>2
  <1>4. QED
    BY <1>1, <1>2, <1>3, SameRequirement DEF Atomically!EnsureCRD, Atomically!Change

\* Everybody else does the same to both.
LEMMA OthersAtomic ==
    ASSUME NEW o \in Object, InjectCA(o) \/ Meddle(o)
    PROVE  Atomically!Inject(o) \/ Atomically!Meddle(o)
  <1>1. UNCHANGED <<uid, issued, Phase, loc>>
    BY DEF InjectCA, Meddle, Phase
  <1>2. CASE InjectCA(o)
    BY <1>1, <1>2 DEF InjectCA, Put, Atomically!Inject, Atomically!Change
  <1>3. CASE Meddle(o)
    BY <1>1, <1>3 DEF Meddle, Put, Absent, Atomically!Meddle, Atomically!Change, Atomically!Absent
  <1>4. QED
    BY <1>2, <1>3

\* Every call of a sync is a step of the atomic specification or invisible to it.
LEMMA StepsAreAtomic ==
    IInv /\ GotTrue /\ AbsentTrue /\ [Next]_vars => [Atomically!Next]_(Atomically!absVars)
  <1> SUFFICES ASSUME IInv, GotTrue, AbsentTrue, [Next]_vars
               PROVE  Atomically!Next \/ UNCHANGED Atomically!absVars
    OBVIOUS
  <1> USE DEF Atomically!Next
  <1>0. TypeOK
    BY DEF IInv
  <1>1. CASE Sync
    BY <1>0, <1>1, PhaseOf, PhaseOfNext DEF Sync, TypeOK, Loc, Atomically!Sync
  <1>2. CASE Fails \/ Conflict \/ Restart
    BY <1>2, PhaseOfNext DEF Fails, Conflict, Restart, Atomically!GiveUp
  <1>3. CASE CreateWebhook \/ SkipWebhook \/ KeepWebhook \/ WriteWebhook
    BY <1>3, WebhookEnsured
  <1>4. CASE CreateCRD \/ KeepCRD \/ WriteCRD
    BY <1>0, <1>4, CRDEnsured
  <1>5. CASE ReadCRD
    BY <1>0, <1>5, PhaseOf, PhaseOfNext DEF ReadCRD, TypeOK, Loc, Atomically!Copy
  <1>6. CASE GetWebhook \/ GetCRD \/ CacheWebhook
    <2>1. UNCHANGED <<obj, uid, issued, Phase>>
      BY <1>6, PhaseOf, PhaseOfNext DEF GetWebhook, GetCRD, CacheWebhook
    <2>2. loc'.owner = loc.owner /\ loc'.ca = loc.ca
      BY <1>0, <1>6 DEF GetWebhook, GetCRD, CacheWebhook, Got, TypeOK, Loc
    <2>3. QED
      BY <2>1, <2>2 DEF Atomically!absVars
  <1>7. CASE RecreateCR \/ RotateCA
    BY <1>7 DEF RecreateCR, RotateCA, Phase, Atomically!Recreate, Atomically!Rotate
  <1>8. ASSUME NEW o \in Object, InjectCA(o) \/ Meddle(o)
        PROVE  Atomically!Next
    BY <1>8, OthersAtomic DEF Object, Atomically!Object
  <1>9. CASE UNCHANGED vars
    BY <1>9 DEF vars, Phase, Atomically!absVars
  <1>10. QED
    BY <1>1, <1>2, <1>3, <1>4, <1>5, <1>6, <1>7, <1>8, <1>9 DEF Next, Reconcile

\* An apply has the effect of one step, taken between its first call and its
\* return: the reconciler's module may take it for one.
THEOREM AppliesAreAtomic == Spec => AppliesAtomically
  <1>1. Init => GotTrue /\ AbsentTrue
    BY DEF Init, GotTrue, AbsentTrue, Absent
  <1>2. Init => Atomically!Init
    BY PhaseOf DEF Init, Absent, Object, Atomically!Init, Atomically!Absent, Atomically!Object
  <1>3. IInv => TypeOK
    BY DEF IInv
  <1>4. QED
    BY <1>1, <1>2, <1>3, GotTrueNext, AbsentNext, StepsAreAtomic, Invariant, PTL
    DEF Spec, AppliesAtomically, Atomically!Spec

-----------------------------------------------------------------------------
(* Nobody fights.                                                          *)

LEMMA PeaceHolds ==
    IInv /\ GotTrue /\ Peaceful
         /\ (Sync \/ Fails \/ Reconcile \/ Restart \/ \E o \in Object : InjectCA(o))
        => Peaceful' /\ UNCHANGED obj
  <1> SUFFICES ASSUME IInv, GotTrue, Peaceful,
                      Sync \/ Fails \/ Reconcile \/ Restart \/ \E o \in Object : InjectCA(o)
               PROVE  Peaceful' /\ UNCHANGED obj
    OBVIOUS
  <1>0. TypeOK
    BY DEF IInv
  <1>1. \A o \in Object : /\ obj[o] \in ObjectVal /\ obj[o].exists
                          /\ obj[o] = Desired(uid, issued)
    BY <1>0, SatisfiedIsDesired DEF TypeOK, Peaceful, Satisfies
  <1>2. UNCHANGED <<uid, issued>>
    BY <1>1 DEF Sync, Fails, Reconcile, Restart, CreateWebhook, SkipWebhook, KeepWebhook,
       GetWebhook, WriteWebhook, CacheWebhook, Conflict, ReadCRD, CreateCRD, KeepCRD, GetCRD,
       WriteCRD, InjectCA
  <1>3. UNCHANGED obj
    <2>1. CASE WriteWebhook
      <3>1. loc.owner = uid /\ loc.got.ca = issued
        BY <2>1, ObjectTypes DEF WriteWebhook, GotTrue, Peaceful
      <3>2. QED
        BY <1>0, <1>1, <2>1, <3>1, ObjectTypes DEF WriteWebhook, Put, TypeOK
    <2>2. CASE WriteCRD
      <3>1. loc.owner = uid /\ loc.ca = issued
        BY <2>2 DEF WriteCRD, Peaceful
      <3>2. QED
        BY <1>0, <1>1, <2>2, <3>1, ObjectTypes DEF WriteCRD, Put, TypeOK
    <2>3. CASE CreateWebhook \/ CreateCRD \/ \E o \in Object : InjectCA(o)
      BY <1>1, <2>3, ObjectTypes DEF CreateWebhook, CreateCRD, InjectCA, Peaceful
    <2>4. QED
      BY <2>1, <2>2, <2>3 DEF Sync, Fails, Reconcile, Restart, SkipWebhook, KeepWebhook,
         GetWebhook, CacheWebhook, Conflict, ReadCRD, KeepCRD, GetCRD
  <1>4. pc' # "idle" => loc'.owner = uid
    BY <1>0 DEF Sync, Fails, Reconcile, Restart, CreateWebhook, SkipWebhook, KeepWebhook,
       GetWebhook, Got, WriteWebhook, CacheWebhook, Conflict, ReadCRD, CreateCRD, KeepCRD, GetCRD,
       WriteCRD, InjectCA, Peaceful, TypeOK, Loc
  <1>5. pc' \in {"getCRD", "writeCRD"} => loc'.ca = issued
    BY <1>0, ObjectTypes DEF Sync, Fails, Reconcile, Restart, CreateWebhook, SkipWebhook,
       KeepWebhook, GetWebhook, Got, WriteWebhook, CacheWebhook, Conflict, ReadCRD, CreateCRD,
       KeepCRD, GetCRD, WriteCRD, InjectCA, Peaceful, TypeOK, Loc
  <1>6. QED
    BY <1>2, <1>3, <1>4, <1>5 DEF Peaceful, Satisfies

\* Once both objects are right, an operator that goes on with its syncs and a
\* cert-manager that goes on with its injections leave them alone.
THEOREM PeaceLasts == Spec => NobodyFights
  <1>1. Init => GotTrue
    BY DEF Init, GotTrue
  <1>2. IInv => TypeOK
    BY DEF IInv
  <1>3. QED
    BY <1>1, <1>2, GotTrueNext, PeaceHolds, Invariant, PTL DEF Spec, NobodyFights
=============================================================================
