-------------------------- MODULE MCOperatorStatus --------------------------
(***************************************************************************)
(* Model checking instances of OperatorStatus: the controllers of the      *)
(* operator, a CR with the status of an earlier operator or with none, and *)
(* the budgets of disturbances that meet in it.                            *)
(***************************************************************************)
EXTENDS OperatorStatus

Times(n, kind) == [d \in Disturbance |-> IF d = kind THEN n ELSE 0]
And(b, kind) == [b EXCEPT ![kind] = @ + 1]

Undisturbed == Times(0, "input")

\* Two changes of what the controllers look at, met by up to two other
\* disturbances, and what failures do to one change.
StatusBudgets ==
    {And(And(Times(2, "input"), j), k) :
        j \in {"spec", "resync", "restart", "stale"}, k \in {"spec", "restart", "stale"}} \cup
    {And(Times(1, "input"), "fault"), And(Times(1, "spec"), "fault"), Undisturbed}

\* A change, and two edits of the CR during one call of UpdateStatus.
ConflictBudgets == {And(Times(2, "spec"), "input")}

Conditions(v) == server.status = [o \in Owner |-> v]

\* A CR whose status an operator left behind; a new one where nothing disturbs.
SettledOrFresh ==
    /\ Init
    /\ want = [c \in Controller |-> "False"]
    /\ Conditions("False") \/ (Conditions("Unset") /\ left = Undisturbed)

StatusSpec == SettledOrFresh /\ [][Next]_vars
FairStatusSpec == StatusSpec /\ Fairness

=============================================================================
