---------------------------- MODULE MCTelemetry ----------------------------
(***************************************************************************)
(* Two clients and one upstream call at a time, around the ready report    *)
(* and any number of periodic ones.                                        *)
(***************************************************************************)
EXTENDS Telemetry, TLC

Clients == Permutations(Client)
=============================================================================
