-------------------------- MODULE MCStaticResources --------------------------
(***************************************************************************)
(* One manifest of each kind that apply treats in its own way, one of them *)
(* cluster-scoped, in the order they have in starter.go.                   *)
(***************************************************************************)
EXTENDS StaticResources

MCKind == <<"clusterbinding", "role", "service">>
=============================================================================
