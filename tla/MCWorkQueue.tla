---------------------------- MODULE MCWorkQueue ----------------------------
(***************************************************************************)
(* Three keys and three workers: keys wait behind each other, and several  *)
(* workers sleep and are woken while another is on its way to work.        *)
(***************************************************************************)
EXTENDS WorkQueue
=============================================================================
