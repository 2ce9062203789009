------------------------------ MODULE MCStartup ------------------------------
(***************************************************************************)
(* Two kinds of manifests, so that a GET can fail for one of them only,    *)
(* and a kind the reconciler has for itself.  RunOperator calls none of    *)
(* the factory's blocking functions: there is no Caller.  The process      *)
(* starts with a verbosity that is no level, or with one between two       *)
(* levels and above that of the CR.                                        *)
(***************************************************************************)
EXTENDS Startup
=============================================================================
