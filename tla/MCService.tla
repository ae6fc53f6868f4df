----------------------------- MODULE MCService -----------------------------
(***************************************************************************)
(* Any sequence of commands on either platform; or, while nothing is done, *)
(* the systemd unit of any paths, as systemd and Status read it.           *)
(***************************************************************************)
EXTENDS Service, Definitions

Both    == {"systemd", "launchd"}
Launchd == {"launchd"}

allVars == <<vars, executable, cfgPath>>

Command == NoDefinition /\ Next /\ UNCHANGED <<executable, cfgPath>>

Begin == Init /\ (NoDefinition \/ DefinitionInputs)

CommandsOrUnit == Begin /\ [][Command]_allVars
=============================================================================
