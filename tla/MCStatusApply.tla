---------------------------- MODULE MCStatusApply ----------------------------
(***************************************************************************)
(* The two managers the operator has, the static resource controller and   *)
(* reportDegraded, and four acts of others: enough for a whole-status      *)
(* write from an old read in the middle of a manager's call.               *)
(***************************************************************************)
EXTENDS StatusApply
=============================================================================
