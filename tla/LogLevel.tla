------------------------------ MODULE LogLevel ------------------------------
(***************************************************************************)
(* The log level controller: it gives the process's own logger the         *)
(* verbosity that the CR's operatorLogLevel asks for.  The CR it finds is  *)
(* a parameter of its sync; events and caches come with Startup.           *)
(***************************************************************************)
EXTENDS Naturals

CONSTANTS
    OperatorLogLevel,  \* what the CR may say; "" is tolerated
    Flag,              \* what the flag -v may be when the process starts
    NoCR

Verbosity == [Normal |-> 2, Debug |-> 4, Trace |-> 6, TraceAll |-> 8]

ASSUME LogLevelAssumption ==
    /\ OperatorLogLevel \subseteq {""} \cup DOMAIN Verbosity
    /\ NoCR \notin {""} \cup DOMAIN Verbosity
    /\ Flag \subseteq Nat

VARIABLES
    verbosity,  \* klog's
    due,        \* whether the controller's key is queued
    desired     \* the level a sync is about to set; NoCR between two syncs

logVars == <<verbosity, due, desired>>

LogInit ==
    /\ verbosity \in Flag
    /\ due = FALSE
    /\ desired = NoCR

\* The default is Normal, also for a level that is not valid.
DesiredLogLevel(level) == IF level \in DOMAIN Verbosity THEN level ELSE "Normal"

\* klog is asked whether it is enabled at the verbosity of each level.
Enabled(level) == verbosity >= Verbosity[level]

Unknown == ~Enabled("Normal")

\* The highest level that is enabled.
CurrentLogLevel ==
    IF Unknown THEN "Normal"
    ELSE CHOOSE l \in DOMAIN Verbosity :
             /\ Enabled(l)
             /\ \A k \in DOMAIN Verbosity : Enabled(k) => Verbosity[k] <= Verbosity[l]

\* Get, and GetOperatorState: found is NoCR or the level in the spec. Without
\* the CR, sync returns nil and the verbosity stays.
ReadLogLevel(found) ==
    /\ due
    /\ desired = NoCR
    /\ due' = FALSE
    /\ desired' = IF found = NoCR THEN NoCR ELSE DesiredLogLevel(found)
    /\ UNCHANGED verbosity

\* Faulty variant of SetLogLevel: a verbosity of less than 2 is taken for Normal.
SetChangedLogLevel ==
    /\ desired # NoCR
    /\ desired' = NoCR
    /\ verbosity' = IF CurrentLogLevel = desired THEN verbosity ELSE Verbosity[desired]
    /\ UNCHANGED due

\* A verbosity between those of two levels is left as it is.
SetLogLevel ==
    /\ desired # NoCR
    /\ desired' = NoCR
    /\ verbosity' = IF ~Unknown /\ CurrentLogLevel = desired THEN verbosity
                    ELSE Verbosity[desired]
    /\ UNCHANGED due

\* An event of the CR.
Enqueue == due' = TRUE /\ UNCHANGED <<verbosity, desired>>

LogTypeOK ==
    /\ verbosity \in Nat
    /\ due \in BOOLEAN
    /\ desired \in DOMAIN Verbosity \cup {NoCR}

\* What the CR asks for is logged and nothing of the next level.
Follows(level) == ~Unknown /\ CurrentLogLevel = DesiredLogLevel(level)
=============================================================================
