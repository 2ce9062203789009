-------------------------- MODULE StatusApplyProofs --------------------------
(***************************************************************************)
(* ApplyOperatorStatus writes the manager's own condition and no other,    *)
(* for any number of managers and any interleaving of their calls with     *)
(* whole-status writes.                                                    *)
(***************************************************************************)
EXTENDS StatusApply, TLAPS

\* What is about to be applied is one condition.
AppliesOwn == \A m \in Manager : pc[m] = "apply" => DOMAIN desired[m] = {m}

IInv == TypeOK /\ AppliesOwn

Value == [status : Known, time : Time]

LEMMA TimeType == 0 \in Time /\ (\A t \in Time : (t + 1) % Instants \in Time)
  BY StatusApplyAssumption DEF Time

\* A list of conditions, spelled out.
LEMMA ConditionsType ==
    ASSUME NEW S \in SUBSET Type, NEW F \in [S -> Value]
    PROVE  F \in Conditions
  BY DEF Conditions, Value

LEMMA ConditionsAre ==
    ASSUME NEW F \in Conditions
    PROVE  DOMAIN F \in SUBSET Type /\ F \in [DOMAIN F -> Value]
  BY DEF Conditions, Value

LEMMA EmptyType == Empty \in Conditions /\ DOMAIN Empty = {}
  <1>1. Empty \in [{} -> Value]
    BY DEF Empty
  <1>2. QED
    BY <1>1, ConditionsType DEF Empty

LEMMA JobSetOperatorType == JobSetOperator \in Configuration
  BY EmptyType DEF JobSetOperator, Configuration

LEMMA InitInv == Init => IInv
  BY TimeType, EmptyType, JobSetOperatorType DEF Init, IInv, TypeOK, AppliesOwn

\* What a manager applies holds its condition, with a time.
LEMMA TransitionType ==
    ASSUME TypeOK, NEW m \in Manager, NEW old \in Conditions
    PROVE  LET s == SetLastTransitionTime(Desired(m), old)
           IN DOMAIN s = {m} /\ s \in Conditions
  <1> DEFINE s == SetLastTransitionTime(Desired(m), old)
  <1>1. Desired(m) = [c \in {m} |-> [status |-> want[m], time |-> Unset]]
    BY DEF Desired
  <1>2. DOMAIN s = {m}
    BY <1>1 DEF SetLastTransitionTime
  <1>3. s[m] = [Desired(m)[m] EXCEPT !.time =
                   IF m \in DOMAIN old /\ old[m].status = Desired(m)[m].status
                   THEN old[m].time ELSE now]
    BY <1>1 DEF SetLastTransitionTime
  <1>4. m \in DOMAIN old => old[m] \in Value
    BY ConditionsAre
  <1>5. s[m] \in Value
    BY <1>1, <1>3, <1>4 DEF TypeOK, Value
  <1>6. s \in [{m} -> Value]
    BY <1>2, <1>5 DEF SetLastTransitionTime
  <1>7. s \in Conditions
    BY <1>6, ConditionsType DEF Type
  <1>8. QED
    BY <1>2, <1>7

LEMMA GetInv ==
    ASSUME IInv, NEW m \in Manager, Get(m)
    PROVE  IInv'
  <1> USE DEF IInv
  <1>1. UNCHANGED <<exists, cond, own, snap, want, now, trouble>>
    BY DEF Get, crVars
  <1>2. CASE UNCHANGED <<pc, desired>>
    BY <1>1, <1>2 DEF TypeOK, AppliesOwn
  <1>3. CASE ~UNCHANGED <<pc, desired>>
    <2> DEFINE original == IF exists THEN ExtractJobSetOperatorStatus(m) ELSE JobSetOperator
               s == SetLastTransitionTime(Desired(m), original)
    <2>1. /\ pc' = [pc EXCEPT ![m] = "apply"]
          /\ desired' = [desired EXCEPT ![m] = s]
      BY <1>3 DEF Get
    <2>2. original \in Conditions
      BY EmptyType DEF ExtractJobSetOperatorStatus, JobSetOperator, ExtractInto, TypeOK
    <2>3. DOMAIN s = {m} /\ s \in Conditions
      BY <2>2, TransitionType
    <2>4. s \in Configuration
      BY <2>3 DEF Configuration
    <2>5. pc' \in [Manager -> {"idle", "apply"}]
      BY <2>1 DEF TypeOK
    <2>6. desired' \in [Manager -> Configuration]
      BY <2>1, <2>4 DEF TypeOK
    <2>7. AppliesOwn'
      <3> SUFFICES ASSUME NEW n \in Manager, pc'[n] = "apply"
                   PROVE  DOMAIN desired'[n] = {n}
        BY DEF AppliesOwn
      <3>1. CASE n = m
        BY <2>1, <2>3, <2>4, <3>1 DEF TypeOK
      <3>2. CASE n # m
        BY <2>1, <3>2 DEF TypeOK, AppliesOwn
      <3>3. QED
        BY <3>1, <3>2
    <2>8. QED
      BY <1>1, <2>5, <2>6, <2>7 DEF TypeOK
  <1>4. QED
    BY <1>2, <1>3

LEMMA ApplyStatusInv ==
    ASSUME IInv, NEW m \in Manager, ApplyStatus(m)
    PROVE  IInv'
  <1> USE DEF IInv
  <1> DEFINE d == desired[m]
  <1>1. /\ pc[m] = "apply" /\ pc' = [pc EXCEPT ![m] = "idle"]
        /\ desired' = [desired EXCEPT ![m] = JobSetOperator]
        /\ UNCHANGED <<exists, snap, want, now, trouble>>
    BY DEF ApplyStatus
  <1>2. d \in Conditions /\ DOMAIN d = {m}
    BY <1>1 DEF TypeOK, AppliesOwn, Configuration
  <1>3. cond' \in Conditions /\ own' \in SUBSET (Manager \cap DOMAIN cond')
    <2>1. CASE exists
      <3>1. /\ cond' = [c \in DOMAIN cond \cup DOMAIN d |-> IF c \in DOMAIN d THEN d[c] ELSE cond[c]]
            /\ own' = own \cup {m}
        BY <2>1 DEF ApplyStatus
      <3>2. DOMAIN cond \cup DOMAIN d \in SUBSET Type
        BY <1>2, ConditionsAre DEF TypeOK
      <3>3. \A c \in DOMAIN cond \cup DOMAIN d : (IF c \in DOMAIN d THEN d[c] ELSE cond[c]) \in Value
        BY <1>2, ConditionsAre DEF TypeOK
      <3>4. cond' \in [DOMAIN cond \cup DOMAIN d -> Value]
        BY <3>1, <3>3
      <3>5. QED
        BY <1>2, <3>1, <3>2, <3>4, ConditionsType DEF TypeOK
    <2>2. CASE ~exists
      BY <2>2 DEF ApplyStatus, TypeOK
    <2>3. QED
      BY <2>1, <2>2
  <1>4. /\ pc' \in [Manager -> {"idle", "apply"}]
        /\ desired' \in [Manager -> Configuration]
    BY <1>1, JobSetOperatorType DEF TypeOK
  <1>5. AppliesOwn'
    BY <1>1 DEF TypeOK, AppliesOwn
  <1>6. QED
    BY <1>1, <1>3, <1>4, <1>5 DEF TypeOK

LEMMA FailsInv ==
    ASSUME IInv, NEW m \in Manager, ApplyFails(m)
    PROVE  IInv'
  <1> USE DEF IInv
  <1>1. /\ pc' = [pc EXCEPT ![m] = "idle"]
        /\ desired' = [desired EXCEPT ![m] = JobSetOperator]
        /\ UNCHANGED <<exists, cond, own, snap, want, now>> /\ trouble' = trouble + 1
    BY DEF ApplyFails, Trouble, crVars
  <1>2. TypeOK'
    BY <1>1, JobSetOperatorType DEF TypeOK
  <1>3. AppliesOwn'
    BY <1>1 DEF TypeOK, AppliesOwn
  <1>4. QED
    BY <1>2, <1>3

\* The other writers of the CR.
LEMMA OthersInv ==
    ASSUME IInv, ReadStatus \/ PutStatus \/ CreateOrDeleteCR
    PROVE  IInv'
  <1> USE DEF IInv
  <1>1. UNCHANGED <<want, now, pc, desired>> /\ trouble' \in Nat
    BY DEF ReadStatus, PutStatus, CreateOrDeleteCR, Trouble, TypeOK
  <1>2. /\ exists' \in BOOLEAN /\ cond' \in Conditions /\ snap' \in Conditions
        /\ own' \in SUBSET (Manager \cap DOMAIN cond')
    <2>1. CASE ReadStatus
      BY <2>1 DEF ReadStatus, crVars, TypeOK
    <2>2. CASE PutStatus
      <3>1. PICK s \in Known :
                cond' = [c \in DOMAIN snap \cup {Available} |->
                            IF c = Available THEN [status |-> s, time |-> now] ELSE snap[c]]
        BY <2>2 DEF PutStatus
      <3>2. \A c \in DOMAIN snap : snap[c] \in Value
        BY ConditionsAre DEF TypeOK
      <3>3. [status |-> s, time |-> now] \in Value
        BY DEF Value, TypeOK
      <3>4. DOMAIN snap \cup {Available} \in SUBSET Type
        BY ConditionsAre DEF TypeOK, Type
      <3>5. cond' \in [DOMAIN snap \cup {Available} -> Value]
        BY <3>1, <3>2, <3>3
      <3>6. cond' \in Conditions
        BY <3>4, <3>5, ConditionsType
      <3>7. QED
        BY <2>2, <3>5, <3>6 DEF PutStatus, TypeOK
    <2>3. CASE CreateOrDeleteCR
      BY <2>3, EmptyType DEF CreateOrDeleteCR, TypeOK
    <2>4. QED
      BY <2>1, <2>2, <2>3
  <1>3. QED
    BY <1>1, <1>2 DEF TypeOK, AppliesOwn

LEMMA WantInv ==
    ASSUME IInv, (\E m \in Manager : Want(m)) \/ Tick
    PROVE  IInv'
  <1> USE DEF IInv
  <1>1. CASE \E m \in Manager : Want(m)
    BY <1>1 DEF Want, Trouble, crVars, TypeOK, AppliesOwn
  <1>2. CASE Tick
    BY <1>2, TimeType DEF Tick, crVars, TypeOK, AppliesOwn
  <1>3. QED
    BY <1>1, <1>2

LEMMA NextInv == IInv /\ [Next]_vars => IInv'
  <1> SUFFICES ASSUME IInv, [Next]_vars PROVE IInv'
    OBVIOUS
  <1>1. CASE \E m \in Manager : Get(m) \/ ApplyStatus(m) \/ ApplyFails(m)
    BY <1>1, GetInv, ApplyStatusInv, FailsInv
  <1>2. CASE ReadStatus \/ PutStatus \/ CreateOrDeleteCR
    BY <1>2, OthersInv
  <1>3. CASE (\E m \in Manager : Want(m)) \/ Tick
    BY <1>3, WantInv
  <1>4. CASE UNCHANGED vars
    BY <1>4 DEF vars, crVars, IInv, TypeOK, AppliesOwn
  <1>5. QED
    BY <1>1, <1>2, <1>3, <1>4 DEF Next

\* The invariant holds of every behaviour, for any managers.
THEOREM Invariant == Spec => []IInv
  BY InitInv, NextInv, PTL DEF Spec

\* Every condition that is stored or about to be applied has a status and a time,
\* and belongs to one of the managers that set it.
THEOREM TypeCorrect == Spec => []TypeOK
  BY Invariant, PTL DEF IInv

\* ApplyOperatorStatus leaves every condition but the manager's own as it finds
\* it at the time of the apply.
THEOREM WritesOwnOnly == Spec => OnlyOwn
  <1> DEFINE Step == \A m \in Manager : ApplyStatus(m) =>
                        \A c \in Type \ {m} : /\ c \in DOMAIN cond' <=> c \in DOMAIN cond
                                              /\ c \in DOMAIN cond => cond'[c] = cond[c]
  <1>1. IInv => Step
    <2> SUFFICES ASSUME IInv, NEW m \in Manager, ApplyStatus(m), NEW c \in Type \ {m}
                 PROVE  /\ c \in DOMAIN cond' <=> c \in DOMAIN cond
                        /\ c \in DOMAIN cond => cond'[c] = cond[c]
      OBVIOUS
    <2>1. DOMAIN desired[m] = {m}
      BY DEF ApplyStatus, IInv, AppliesOwn
    <2>2. QED
      BY <2>1 DEF ApplyStatus
  <1>2. IInv /\ [Next]_vars => [Step]_vars
    BY <1>1
  <1>3. QED
    BY <1>2, Invariant, PTL DEF Spec, OnlyOwn

-----------------------------------------------------------------------------
(* What is as it should be.                                                *)

\* A manager that looks at its condition and finds it as it wants it computes
\* the very same condition, time included.
LEMMA GetKeeps ==
    ASSUME IInv, NEW m \in Manager, SettledFor(m), Get(m)
    PROVE  SettledFor(m)'
  <1> DEFINE original == IF exists THEN ExtractJobSetOperatorStatus(m) ELSE JobSetOperator
             s == SetLastTransitionTime(Desired(m), original)
  <1>0. TypeOK
    BY DEF IInv
  <1>1. UNCHANGED <<exists, cond, own, want>>
    BY DEF Get, crVars
  <1>2. CASE UNCHANGED <<pc, desired>>
    BY <1>1, <1>2 DEF SettledFor
  <1>3. CASE ~UNCHANGED <<pc, desired>>
    <2>1. desired' = [desired EXCEPT ![m] = s]
      BY <1>3 DEF Get
    <2>2. original = cond
      BY DEF ExtractJobSetOperatorStatus, ExtractInto, SettledFor
    <2>3. Desired(m) = [c \in {m} |-> [status |-> want[m], time |-> Unset]]
      BY DEF Desired
    <2>4. m \in DOMAIN cond /\ cond[m] \in Value
      BY <1>0, ConditionsAre DEF SettledFor, TypeOK
    <2>5. s[m] = [[status |-> want[m], time |-> Unset] EXCEPT !.time = cond[m].time]
      BY <2>2, <2>3, <2>4 DEF SetLastTransitionTime, SettledFor
    <2>6. s[m] = cond[m]
      BY <2>4, <2>5 DEF SettledFor, Value
    <2>7. desired'[m][m] = cond[m]
      BY <1>0, <2>1, <2>6 DEF TypeOK
    <2>8. QED
      BY <1>1, <2>7 DEF SettledFor
  <1>4. QED
    BY <1>2, <1>3

\* An apply of one's own writes the same again.
LEMMA ApplyKeeps ==
    ASSUME IInv, NEW m \in Manager, SettledFor(m), ApplyStatus(m)
    PROVE  SettledFor(m)' /\ cond'[m] = cond[m]
  <1>1. /\ pc[m] = "apply" /\ pc' = [pc EXCEPT ![m] = "idle"]
        /\ UNCHANGED <<exists, want>>
        /\ cond' = [c \in DOMAIN cond \cup DOMAIN desired[m] |->
                       IF c \in DOMAIN desired[m] THEN desired[m][c] ELSE cond[c]]
        /\ own' = own \cup {m}
    BY DEF ApplyStatus, SettledFor
  <1>2. DOMAIN desired[m] = {m} /\ desired[m][m] = cond[m]
    BY <1>1 DEF IInv, AppliesOwn, SettledFor
  <1>3. cond'[m] = cond[m]
    BY <1>1, <1>2
  <1>4. pc'[m] = "idle"
    BY <1>1 DEF IInv, TypeOK
  <1>5. QED
    BY <1>1, <1>3, <1>4 DEF SettledFor

\* A call of another manager does not touch it.
LEMMA OthersKeep ==
    ASSUME IInv, NEW m \in Manager, SettledFor(m), NEW n \in Manager \ {m},
           Get(n) \/ ApplyStatus(n)
    PROVE  SettledFor(m)' /\ cond'[m] = cond[m]
  <1>1. TypeOK /\ UNCHANGED <<exists, want>>
    BY DEF IInv, Get, ApplyStatus, crVars
  <1>2. pc'[m] = pc[m] /\ desired'[m] = desired[m]
    BY <1>1 DEF TypeOK, Get, ApplyStatus
  <1>3. cond'[m] = cond[m] /\ m \in own'
    <2>1. CASE Get(n)
      BY <2>1 DEF Get, crVars, SettledFor
    <2>2. CASE ApplyStatus(n)
      <3>1. DOMAIN desired[n] = {n}
        BY <2>2 DEF ApplyStatus, IInv, AppliesOwn
      <3>2. m \in DOMAIN cond
        BY <1>1 DEF SettledFor, TypeOK
      <3>3. QED
        BY <2>2, <3>1, <3>2 DEF ApplyStatus, SettledFor
    <2>3. QED
      BY <2>1, <2>2
  <1>4. QED
    BY <1>1, <1>2, <1>3 DEF SettledFor

LEMMA FailureKeeps ==
    ASSUME IInv, NEW m \in Manager, SettledFor(m),
           Tick \/ \E n \in Manager : ApplyFails(n)
    PROVE  SettledFor(m)' /\ cond'[m] = cond[m]
  <1>1. CASE Tick
    BY <1>1 DEF Tick, crVars, SettledFor
  <1>2. ASSUME NEW n \in Manager, ApplyFails(n)
        PROVE  SettledFor(m)' /\ cond'[m] = cond[m]
    <2>1. UNCHANGED <<exists, own, cond, want>>
      BY <1>2 DEF ApplyFails, crVars
    <2>2. pc'[m] = "apply" => pc[m] = "apply" /\ desired'[m] = desired[m]
      BY <1>2 DEF ApplyFails, IInv, TypeOK
    <2>3. QED
      BY <2>1, <2>2 DEF SettledFor
  <1>3. QED
    BY <1>1, <1>2

\* A condition that is as its manager wants it is never written again with
\* another time, so that no write of it brings about the next.
THEOREM NothingIsRewritten == Spec => UnchangedIsKept
  <1> DEFINE Step == \A m \in Manager :
                        SettledFor(m) /\ Calls => SettledFor(m)' /\ cond'[m] = cond[m]
  <1>1. IInv => Step
    <2> SUFFICES ASSUME IInv, NEW m \in Manager, SettledFor(m), Calls
                 PROVE  SettledFor(m)' /\ cond'[m] = cond[m]
      OBVIOUS
    <2>1. CASE Get(m)
      BY <2>1, GetKeeps DEF Get, crVars
    <2>2. CASE ApplyStatus(m)
      BY <2>2, ApplyKeeps
    <2>3. CASE \E n \in Manager \ {m} : Get(n) \/ ApplyStatus(n)
      BY <2>3, OthersKeep
    <2>4. CASE Tick \/ \E n \in Manager : ApplyFails(n)
      BY <2>4, FailureKeeps
    <2>5. QED
      BY <2>1, <2>2, <2>3, <2>4 DEF Calls
  <1>2. IInv /\ [Next]_vars => [Step]_vars
    BY <1>1
  <1>3. QED
    BY <1>2, Invariant, PTL DEF Spec, UnchangedIsKept
=============================================================================
