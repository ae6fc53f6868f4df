------------------------- MODULE MCReconnectClient -------------------------
(***************************************************************************)
(* Interchangeable requests that share the upstream connection.            *)
(***************************************************************************)
EXTENDS ReconnectClient, TLC

CallerSymmetry == Permutations(Caller)
=============================================================================
