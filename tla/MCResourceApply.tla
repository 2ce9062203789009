--------------------------- MODULE MCResourceApply ---------------------------
(***************************************************************************)
(* Two UIDs, three CA bundles and three acts of meddling: an object        *)
(* changes between any two calls of a sync, and again while that is        *)
(* mended.                                                                 *)
(***************************************************************************)
EXTENDS ResourceApply
=============================================================================
