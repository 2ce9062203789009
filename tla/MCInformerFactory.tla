-------------------------- MODULE MCInformerFactory --------------------------
(***************************************************************************)
(* Two types, two contexts and two callers: a Start with a fresh context   *)
(* while a Shutdown waits, two concurrent Shutdowns, an informer created   *)
(* while another goroutine waits for the caches.                           *)
(***************************************************************************)
EXTENDS InformerFactory
=============================================================================
