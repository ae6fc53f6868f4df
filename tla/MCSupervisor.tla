---------------------------- MODULE MCSupervisor ----------------------------
(***************************************************************************)
(* The loop with a few rewrites of the file and a few SIGHUPs.             *)
(***************************************************************************)
EXTENDS Supervisor
=============================================================================
