------------------------ MODULE StaticResourcesProofs ------------------------
(***************************************************************************)
(* A sync of the static resource controller that is about to report        *)
(* success has found or made every object right, whatever happens to the   *)
(* CR and to the objects meanwhile.                                        *)
(***************************************************************************)
EXTENDS StaticResources, TLAPS

\* Every UID that is in use was given to a CR.
UidsGiven ==
    /\ cr.uid \in 0..created /\ cached.uid \in 0..created
    /\ pc = "apply" => loc.owner \in 1..created

\* SuccessIsTrue at every point of a sync.
SuccessSoFar ==
    pc # "idle" /\ ~loc.failed
        => \A f \in kept : \E uid \in 1..created : Satisfies(obj[f], uid)

IInv == TypeOK /\ UidsGiven /\ SuccessSoFar

LEMMA FileType == File \subseteq Nat /\ 1 \in File /\ Len(Kind) \in Nat
  BY StaticResourcesAssumption DEF File

LEMMA InitInv == Init => IInv
  BY FileType DEF Init, IInv, TypeOK, UidsGiven, SuccessSoFar, CRVal, ObjectVal, Absent,
     State, Content

\* The locals a sync goes on with.
LEMMA AdvanceType ==
    ASSUME NEW l \in [at : File, owner : Nat, failed : BOOLEAN], Advance(l)
    PROVE  /\ loc' \in [at : File, owner : Nat, failed : BOOLEAN]
           /\ loc'.failed = l.failed
           /\ pc' \in {"asset", "report"}
  BY FileType DEF Advance, File

LEMMA RequiredType ==
    ASSUME NEW owner \in Nat
    PROVE  Required(owner) \in ObjectVal /\ Satisfies(Required(owner), owner)
  BY DEF Required, ObjectVal, Satisfies, Content

\* What an apply leaves is right, unless it was refused, which changes nothing.
LEMMA AppliedRight ==
    ASSUME NEW x \in ObjectVal, NEW owner \in Nat
    PROVE  /\ Applied(x, owner) \in ObjectVal
           /\ Refused(Applied(x, owner)) <=> Refused(x)
           /\ Refused(x) \/ Satisfies(Applied(x, owner), owner)
  BY RequiredType DEF Applied, Refused, Required

LEMMA SyncInv ==
    ASSUME IInv, Sync
    PROVE  IInv'
  BY FileType DEF IInv, Sync, TypeOK, UidsGiven, SuccessSoFar, world, CRVal

LEMMA AssetInv ==
    ASSUME IInv, Asset
    PROVE  IInv'
  <1> USE DEF IInv
  <1>1. UNCHANGED <<cr, created, cached, obj, degraded, kept, trouble>>
    BY DEF Asset, world
  <1>2. CASE cached.uid = 0
    <2>1. Failed(TRUE) \in [at : File, owner : Nat, failed : BOOLEAN] /\ Failed(TRUE).failed
      BY DEF TypeOK, Failed
    <2>2. Advance(Failed(TRUE))
      BY <1>2 DEF Asset
    <2>3. /\ loc' \in [at : File, owner : Nat, failed : BOOLEAN]
          /\ loc'.failed /\ pc' \in {"asset", "report"}
      BY <2>1, <2>2, AdvanceType
    <2>4. QED
      BY <1>1, <2>3 DEF TypeOK, UidsGiven, SuccessSoFar
  <1>3. CASE cached.uid # 0
    <2>1. pc = "asset" /\ pc' = "apply" /\ loc' = [loc EXCEPT !.owner = cached.uid]
      BY <1>3 DEF Asset
    <2>2. cached.uid \in 1..created /\ cached.uid \in Nat
      BY <1>3 DEF TypeOK, UidsGiven, CRVal
    <2>3. loc' \in [at : File, owner : Nat, failed : BOOLEAN]
          /\ loc'.failed = loc.failed /\ loc'.owner = cached.uid
      BY <2>1, <2>2 DEF TypeOK
    <2>4. TypeOK' /\ UidsGiven'
      BY <1>1, <2>1, <2>2, <2>3 DEF TypeOK, UidsGiven
    <2>5. SuccessSoFar'
      BY <1>1, <2>1, <2>3 DEF SuccessSoFar, Satisfies
    <2>6. QED
      BY <2>4, <2>5
  <1>4. QED
    BY <1>2, <1>3

LEMMA ApplyFileInv ==
    ASSUME IInv, ApplyFile
    PROVE  IInv'
  <1> USE DEF IInv
  <1> DEFINE f == loc.at
             refused == Refused(obj[f])
  <1>1. /\ pc = "apply"
        /\ obj' = [obj EXCEPT ![f] = Applied(obj[f], loc.owner)]
        /\ kept' = kept \cup {f}
        /\ Advance(Failed(refused))
        /\ UNCHANGED <<cr, created, cached, degraded, trouble>>
    BY DEF ApplyFile, world
  <1>2. f \in File /\ loc.owner \in Nat /\ loc.owner \in 1..created
    BY <1>1 DEF TypeOK, UidsGiven
  <1>3. /\ Failed(refused) \in [at : File, owner : Nat, failed : BOOLEAN]
        /\ Failed(refused).failed = (loc.failed \/ refused)
    BY DEF TypeOK, Failed, Refused
  <1>4. /\ loc' \in [at : File, owner : Nat, failed : BOOLEAN]
        /\ loc'.failed = (loc.failed \/ refused)
        /\ pc' \in {"asset", "report"}
    BY <1>1, <1>3, AdvanceType
  <1>5. obj' \in [File -> ObjectVal]
    BY <1>1, <1>2, AppliedRight DEF TypeOK
  <1>6. TypeOK' /\ UidsGiven'
    BY <1>1, <1>2, <1>4, <1>5 DEF TypeOK, UidsGiven
  <1>7. SuccessSoFar'
    <2> SUFFICES ASSUME ~loc'.failed, NEW g \in kept'
                 PROVE  \E uid \in 1..created' : Satisfies(obj'[g], uid)
      BY DEF SuccessSoFar
    <2>1. ~loc.failed /\ ~refused
      BY <1>4
    <2>2. CASE g = f
      <3>1. Satisfies(obj'[g], loc.owner)
        BY <1>1, <1>2, <2>1, <2>2, AppliedRight DEF TypeOK
      <3>2. QED
        BY <1>1, <1>2, <3>1
    <2>3. CASE g # f
      <3>1. g \in kept /\ obj'[g] = obj[g]
        BY <1>1, <1>2, <2>3 DEF TypeOK
      <3>2. QED
        BY <1>1, <2>1, <3>1 DEF SuccessSoFar
    <2>4. QED
      BY <2>2, <2>3
  <1>8. QED
    BY <1>6, <1>7

LEMMA ApplyFailsInv ==
    ASSUME IInv, ApplyFails
    PROVE  IInv'
  <1> USE DEF IInv
  <1>1. /\ Advance(Failed(TRUE))
        /\ UNCHANGED <<cr, created, cached, degraded, kept>>
        /\ trouble' = trouble + 1
        /\ obj' = obj \/ obj' = [obj EXCEPT ![loc.at] = Applied(obj[loc.at], loc.owner)]
    BY DEF ApplyFails, Trouble, world
  <1>2. Failed(TRUE) \in [at : File, owner : Nat, failed : BOOLEAN] /\ Failed(TRUE).failed
    BY DEF TypeOK, Failed
  <1>3. /\ loc' \in [at : File, owner : Nat, failed : BOOLEAN]
        /\ loc'.failed /\ pc' \in {"asset", "report"}
    BY <1>1, <1>2, AdvanceType
  <1>4. loc.owner \in Nat /\ loc.at \in File
    BY DEF TypeOK
  <1>5. obj' \in [File -> ObjectVal]
    BY <1>1, <1>4, AppliedRight DEF TypeOK
  <1>6. QED
    BY <1>1, <1>3, <1>5 DEF TypeOK, UidsGiven, SuccessSoFar

\* Report and restart end the sync.
LEMMA EndInv ==
    ASSUME IInv, ReportDegraded \/ ReportFails \/ Restart
    PROVE  IInv'
  BY DEF IInv, ReportDegraded, ReportFails, Restart, Trouble, TypeOK, UidsGiven,
     SuccessSoFar, world

\* The CR and its cache.
LEMMA CRInv ==
    ASSUME IInv, Deliver \/ EditCR \/ DeleteCR \/ CreateCR
    PROVE  IInv'
  <1> USE DEF IInv
  <1>1. UNCHANGED <<obj, pc, loc, kept>> /\ created \in Nat /\ created' \in {created, created + 1}
    BY DEF Deliver, EditCR, DeleteCR, CreateCR, TypeOK
  <1>2. /\ cr' \in CRVal /\ cached' \in CRVal
        /\ cr'.uid \in 0..created' /\ cached'.uid \in 0..created'
    <2>1. CASE Deliver
      BY <2>1 DEF Deliver, TypeOK, UidsGiven
    <2>2. CASE EditCR
      BY <2>2 DEF EditCR, TypeOK, UidsGiven, CRVal
    <2>3. CASE DeleteCR
      BY <2>3 DEF DeleteCR, TypeOK, UidsGiven, CRVal
    <2>4. CASE CreateCR
      BY <2>4 DEF CreateCR, TypeOK, UidsGiven, CRVal
    <2>5. QED
      BY <2>1, <2>2, <2>3, <2>4
  <1>3. trouble' \in Nat /\ degraded' \in {"Unknown", "True", "False"}
    BY DEF Deliver, EditCR, DeleteCR, CreateCR, TypeOK, Trouble
  <1>4. TypeOK'
    BY <1>1, <1>2, <1>3 DEF TypeOK
  <1>5. 1..created \subseteq 1..created'
    BY <1>1
  <1>6. UidsGiven'
    BY <1>1, <1>2, <1>5 DEF UidsGiven
  <1>7. SuccessSoFar'
    BY <1>1, <1>5 DEF SuccessSoFar, Satisfies
  <1>8. QED
    BY <1>4, <1>6, <1>7

\* Somebody else's change takes the object out of the account.
LEMMA DisturbInv ==
    ASSUME IInv, NEW f \in File, NEW x \in ObjectVal, Disturb(f, x), trouble' \in Nat
    PROVE  IInv'
  <1> USE DEF IInv
  <1>1. /\ obj' = [obj EXCEPT ![f] = x] /\ kept' = kept \ {f}
        /\ UNCHANGED <<cr, created, cached, degraded, pc, loc>>
    BY DEF Disturb, world
  <1>2. TypeOK' /\ UidsGiven'
    BY <1>1 DEF TypeOK, UidsGiven
  <1>3. \A g \in kept' : g \in kept /\ obj'[g] = obj[g]
    BY <1>1 DEF TypeOK
  <1>4. SuccessSoFar'
    BY <1>1, <1>3 DEF SuccessSoFar
  <1>5. QED
    BY <1>2, <1>4

LEMMA OthersInv ==
    ASSUME IInv, NEW f \in File, Collect(f) \/ Tamper(f)
    PROVE  IInv'
  <1>1. trouble' \in Nat
    BY DEF Collect, Tamper, Trouble, IInv, TypeOK
  <1>2. Absent \in ObjectVal
    BY DEF Absent, ObjectVal, Content
  <1>3. \A s \in Content : [obj[f] EXCEPT !.spec = s] \in ObjectVal
    BY DEF IInv, TypeOK, ObjectVal
  <1>4. \E x \in ObjectVal : Disturb(f, x)
    BY <1>2, <1>3 DEF Collect, Tamper, Content
  <1>5. QED
    BY <1>1, <1>4, DisturbInv

LEMMA NextInv == IInv /\ [Next]_vars => IInv'
  <1> SUFFICES ASSUME IInv, [Next]_vars PROVE IInv'
    OBVIOUS
  <1>1. CASE Controller
    BY <1>1, SyncInv, AssetInv, ApplyFileInv, EndInv DEF Controller
  <1>2. CASE ApplyFails \/ ReportFails \/ Restart
    BY <1>2, ApplyFailsInv, EndInv
  <1>3. CASE Deliver \/ EditCR \/ DeleteCR \/ CreateCR
    BY <1>3, CRInv
  <1>4. CASE \E f \in File : Collect(f) \/ Tamper(f)
    BY <1>4, OthersInv
  <1>5. CASE UNCHANGED vars
    BY <1>5 DEF vars, world, IInv, TypeOK, UidsGiven, SuccessSoFar
  <1>6. QED
    BY <1>1, <1>2, <1>3, <1>4, <1>5 DEF Next

\* The invariant holds of every behaviour, for any manifests and any number of
\* disturbances.
THEOREM Invariant == Spec => []IInv
  BY InitInv, NextInv, PTL DEF Spec

\* The controller's state has its types; it never goes past the last manifest.
THEOREM TypeCorrect == Spec => []TypeOK
  BY Invariant, PTL DEF IInv

\* StaticResourceController.Sync reports success only of objects that it found or
\* made as their manifests require, for a UID the CR has had.
THEOREM SuccessMeansApplied == Spec => []SuccessIsTrue
  <1>1. IInv => SuccessIsTrue
    BY DEF IInv, SuccessSoFar, SuccessIsTrue
  <1>2. QED
    BY <1>1, Invariant, PTL

-----------------------------------------------------------------------------
(* Work that is done.                                                      *)

LEMMA SettledStays == TypeOK /\ Settled /\ (Syncs \/ Deliver) => UNCHANGED obj /\ Settled'
  <1> SUFFICES ASSUME TypeOK, Settled, Syncs \/ Deliver PROVE UNCHANGED obj /\ Settled'
    OBVIOUS
  <1>1. \A f \in File : Applied(obj[f], cr.uid) = obj[f]
    BY DEF Settled, Final, Applied
  <1>2. UNCHANGED cr.uid /\ cached'.uid \in {cached.uid, cr.uid}
    BY DEF Syncs, Controller, Sync, Asset, ApplyFile, ReportDegraded, ApplyFails, ReportFails,
       Restart, Deliver, world
  <1>3. UNCHANGED obj
    <2>1. CASE ApplyFile \/ ApplyFails
      <3>1. /\ loc.at \in File /\ loc.owner = cr.uid
            /\ obj' \in {obj, [obj EXCEPT ![loc.at] = Applied(obj[loc.at], loc.owner)]}
        BY <2>1 DEF ApplyFile, ApplyFails, Settled, TypeOK
      <3>2. QED
        BY <1>1, <3>1 DEF TypeOK
    <2>2. CASE ~(ApplyFile \/ ApplyFails)
      BY <2>2 DEF Syncs, Controller, Sync, Asset, ReportDegraded, ReportFails, Restart, Deliver
    <2>3. QED
      BY <2>1, <2>2
  <1>4. pc' = "apply" => loc'.owner = cr.uid
    BY DEF Syncs, Controller, Sync, Asset, ApplyFile, ReportDegraded, ApplyFails, ReportFails,
       Restart, Deliver, Advance, Settled, TypeOK
  <1>5. QED
    BY <1>2, <1>3, <1>4 DEF Settled, Final

\* A controller whose work is done writes no object, whatever fails and whenever
\* the process ends: the applies are idempotent.
THEOREM WritesOnce == Spec => WorkIsDoneOnce
  <1>1. TypeOK /\ [Next]_vars => [Settled /\ (Syncs \/ Deliver) => UNCHANGED obj /\ Settled']_vars
    BY SettledStays
  <1>2. QED
    BY <1>1, TypeCorrect, PTL DEF Spec, WorkIsDoneOnce

-----------------------------------------------------------------------------
(* A CR that is gone.                                                      *)

LEMMA ForgottenStays ==
    TypeOK /\ Forgotten /\ Next /\ ~CreateCR
        => Forgotten' /\ \A f \in File : obj'[f].exists => obj[f].exists
  <1> SUFFICES ASSUME TypeOK, Forgotten, Next, ~CreateCR
               PROVE  Forgotten' /\ \A f \in File : obj'[f].exists => obj[f].exists
    OBVIOUS
  <1>1. CASE Controller \/ ApplyFails \/ ReportFails \/ Restart
    <2>1. UNCHANGED <<cr, cached, obj>> /\ pc' # "apply"
      BY <1>1 DEF Controller, Sync, Asset, ApplyFile, ReportDegraded, ApplyFails, ReportFails,
         Restart, Forgotten, Works, Advance, world
    <2>2. QED
      BY <2>1 DEF Forgotten
  <1>2. CASE Deliver \/ EditCR \/ DeleteCR
    BY <1>2 DEF Deliver, EditCR, DeleteCR, Forgotten
  <1>3. ASSUME NEW f \in File, Collect(f) \/ Tamper(f)
        PROVE  Forgotten' /\ \A g \in File : obj'[g].exists => obj[g].exists
    <2>1. /\ obj[f].exists /\ UNCHANGED <<cr, cached, pc>>
          /\ \E x : obj' = [obj EXCEPT ![f] = x]
      BY <1>3 DEF Collect, Tamper, Disturb, world
    <2>2. QED
      BY <2>1 DEF Forgotten, TypeOK
  <1>4. QED
    BY <1>1, <1>2, <1>3 DEF Next

\* Without a CR in cluster and cache nothing is created, so that what the garbage
\* collector has removed stays away.
THEOREM GoneForGood == Spec => NothingComesBack
  <1>1. TypeOK /\ [Next]_vars =>
            [Forgotten /\ ~CreateCR
                => Forgotten' /\ \A f \in File : obj'[f].exists => obj[f].exists]_vars
    BY ForgottenStays
  <1>2. QED
    BY <1>1, TypeCorrect, PTL DEF Spec, NothingComesBack

-----------------------------------------------------------------------------
(* One sync is enough.                                                     *)

\* Where a sync goes on.
LEMMA AdvanceWhere ==
    ASSUME NEW l \in [at : File, owner : Nat, failed : BOOLEAN], Advance(l)
    PROVE  \/ l.at < Len(Kind) /\ pc' = "asset" /\ loc'.at = l.at + 1
           \/ ~(l.at < Len(Kind)) /\ pc' = "report"
  BY DEF Advance

\* On from a manifest that has been worked on.
LEMMA OneMoreDone ==
    ASSUME TypeOK, DoneSoFar, pc \in {"asset", "apply"},
           NEW failure \in BOOLEAN, Advance(Failed(failure)),
           UNCHANGED <<cr, cached>>,
           \A f \in File \ {loc.at} : obj'[f] = obj[f],
           Refused(obj'[loc.at]) \/ Satisfies(obj'[loc.at], cr.uid),
           failure <=> Refused(obj'[loc.at])
    PROVE  DoneSoFar'
  <1>1. loc.at \in Nat /\ 1 <= loc.at /\ loc.at <= Len(Kind) /\ Len(Kind) \in Nat
    BY FileType DEF TypeOK, File
  <1>2. /\ \A f \in 1..(loc.at - 1) : Final(f)
        /\ loc.failed <=> \E f \in 1..(loc.at - 1) : Refused(obj[f])
    BY DEF DoneSoFar
  <1>3. \A f \in 1..(loc.at - 1) : f \in File \ {loc.at} /\ obj'[f] = obj[f]
    BY <1>1 DEF File
  <1>4. 1..loc.at = (1..(loc.at - 1)) \cup {loc.at}
    BY <1>1
  <1>5. \A f \in 1..loc.at : Final(f)'
    <2>1. Refused(obj'[loc.at]) \/ Satisfies(obj'[loc.at], cr'.uid)
      OBVIOUS
    <2>2. QED
      BY <1>2, <1>3, <1>4, <2>1 DEF Final
  <1>6. loc.failed \/ failure <=> \E f \in 1..loc.at : Refused(obj'[f])
    <2>1. (\E f \in 1..loc.at : Refused(obj'[f]))
              <=> (\E f \in 1..(loc.at - 1) : Refused(obj'[f])) \/ Refused(obj'[loc.at])
      BY <1>4
    <2>2. \A f \in 1..(loc.at - 1) : Refused(obj'[f]) <=> Refused(obj[f])
      BY <1>3
    <2>3. QED
      BY <1>2, <2>1, <2>2
  <1>7. /\ \/ pc' = "asset" /\ loc'.at = loc.at + 1
           \/ pc' = "report" /\ 1..loc.at = File
        /\ loc'.failed = (loc.failed \/ failure)
    <2>1. /\ Failed(failure) \in [at : File, owner : Nat, failed : BOOLEAN]
          /\ Failed(failure).at = loc.at
          /\ Failed(failure).failed = (loc.failed \/ failure)
      BY DEF Failed, TypeOK
    <2>2. CASE loc.at < Len(Kind)
      BY <2>1, <2>2, AdvanceType, AdvanceWhere
    <2>3. CASE ~(loc.at < Len(Kind))
      <3>1. loc.at = Len(Kind)
        BY <1>1, <2>3
      <3>2. QED
        BY <2>1, <2>3, <3>1, AdvanceType, AdvanceWhere DEF File
    <2>4. QED
      BY <2>2, <2>3
  <1>8. (loc.at + 1) - 1 = loc.at
    BY <1>1
  <1>9. QED
    BY <1>5, <1>6, <1>7, <1>8 DEF DoneSoFar

LEMMA ControllerDone ==
    TypeOK /\ DoneSoFar /\ [Controller]_vars => DoneSoFar'
  <1> SUFFICES ASSUME TypeOK, DoneSoFar, [Controller]_vars PROVE DoneSoFar'
    OBVIOUS
  <1>1. CASE Sync
    BY <1>1, FileType DEF Sync, DoneSoFar, world
  <1>2. CASE Asset
    BY <1>2 DEF Asset, DoneSoFar, world, Final, TypeOK
  <1>3. CASE ApplyFile
    <2>1. /\ loc.at \in File /\ loc.owner = cr.uid /\ cr.uid \in Nat
          /\ obj' = [obj EXCEPT ![loc.at] = Applied(obj[loc.at], cr.uid)]
          /\ Advance(Failed(Refused(obj[loc.at])))
          /\ UNCHANGED <<cr, cached>> /\ pc = "apply"
      BY <1>3 DEF ApplyFile, DoneSoFar, TypeOK, CRVal, world
    <2>2. obj[loc.at] \in ObjectVal
      BY <2>1 DEF TypeOK
    <2>3. obj'[loc.at] = Applied(obj[loc.at], cr.uid)
      BY <2>1 DEF TypeOK
    <2>4. /\ Refused(obj'[loc.at]) \/ Satisfies(obj'[loc.at], cr.uid)
          /\ Refused(obj[loc.at]) <=> Refused(obj'[loc.at])
      BY <2>1, <2>2, <2>3, AppliedRight
    <2>5. \A f \in File \ {loc.at} : obj'[f] = obj[f]
      BY <2>1 DEF TypeOK
    <2>6. Refused(obj[loc.at]) \in BOOLEAN
      BY DEF Refused
    <2>7. QED
      BY <2>1, <2>4, <2>5, <2>6, OneMoreDone
  <1>4. CASE ReportDegraded
    BY <1>4 DEF ReportDegraded, DoneSoFar, world
  <1>5. CASE UNCHANGED vars
    BY <1>5 DEF vars, world, DoneSoFar, Final
  <1>6. QED
    BY <1>1, <1>2, <1>3, <1>4, <1>5 DEF Controller

\* One sync is enough: begun with the CR in the cache and not disturbed, it comes to
\* its report with every object right or refused, and an error exactly if one
\* was refused. The CR may be Removed: that does not end a sync, nor keep one from
\* beginning.
THEOREM OneSyncIsEnough ==
    Spec => [](pc = "idle" /\ cr.uid # 0 /\ cached = cr /\ [][Controller]_vars
                  => [](pc = "report" =>
                            /\ Settled
                            /\ loc.failed <=> \E f \in File : Refused(obj[f])))
  <1>1. pc = "idle" /\ cr.uid # 0 /\ cached = cr => DoneSoFar
    BY DEF DoneSoFar
  <1>2. DoneSoFar /\ pc = "report" =>
            Settled /\ (loc.failed <=> \E f \in File : Refused(obj[f]))
    BY DEF DoneSoFar, Settled
  <1>3. IInv /\ [Controller]_vars => IInv'
    BY NextInv DEF Next
  <1>4. IInv => TypeOK
    BY DEF IInv
  <1>5. QED
    BY <1>1, <1>2, <1>3, <1>4, ControllerDone, Invariant, PTL

-----------------------------------------------------------------------------
(* Owners.                                                                 *)

LEMMA OwnedStays ==
    IInv /\ EverythingIsOwned /\ [Next]_vars => EverythingIsOwned'
  <1> SUFFICES ASSUME IInv, EverythingIsOwned, [Next]_vars
               PROVE  EverythingIsOwned'
    OBVIOUS
  <1> USE DEF EverythingIsOwned
  <1>1. CASE ApplyFile \/ ApplyFails
    <2>1. /\ loc.at \in File /\ loc.owner \in 1..created /\ created' = created
          /\ obj' \in {obj, [obj EXCEPT ![loc.at] = Applied(obj[loc.at], loc.owner)]}
      BY <1>1 DEF ApplyFile, ApplyFails, IInv, UidsGiven, TypeOK, world
    <2>2. Applied(obj[loc.at], loc.owner).owner \in {obj[loc.at].owner, loc.owner}
      BY DEF Applied, Required
    <2>3. Applied(obj[loc.at], loc.owner).owner = loc.owner \/ obj[loc.at].exists
      BY DEF Applied, Required, Refused, Satisfies
    <2>4. QED
      BY <2>1, <2>2, <2>3 DEF IInv, TypeOK
  <1>2. CASE Sync \/ Asset \/ ReportDegraded \/ ReportFails \/ Restart
    BY <1>2 DEF Sync, Asset, ReportDegraded, ReportFails, Restart, world
  <1>3. CASE Deliver \/ EditCR \/ DeleteCR \/ CreateCR
    <2>1. created \in Nat /\ created' \in {created, created + 1} /\ UNCHANGED obj
      BY <1>3 DEF Deliver, EditCR, DeleteCR, CreateCR, IInv, TypeOK
    <2>2. QED
      BY <2>1
  <1>4. ASSUME NEW f \in File, Collect(f) \/ Tamper(f)
        PROVE  EverythingIsOwned'
    <2>1. PICK x : /\ Disturb(f, x)
                   /\ x.exists => x.owner = obj[f].owner
      BY <1>4 DEF Collect, Tamper, Absent, IInv, TypeOK, ObjectVal
    <2>2. QED
      BY <2>1 DEF Disturb, world, IInv, TypeOK
  <1>5. CASE UNCHANGED vars
    BY <1>5 DEF vars, world
  <1>6. QED
    BY <1>1, <1>2, <1>3, <1>4, <1>5 DEF Next, Controller

\* Every object carries the UID of a CR as its owner, the ClusterRoles and
\* ClusterRoleBindings too, of which ARCHITECTURE.md says (line 387) that they have
\* no owner references: the asset function makes no difference between the kinds.
THEOREM EverythingOwned == Spec => []EverythingIsOwned
  <1>1. Init => EverythingIsOwned
    BY DEF Init, EverythingIsOwned, Absent
  <1>2. QED
    BY <1>1, OwnedStays, Invariant, PTL DEF Spec
=============================================================================
