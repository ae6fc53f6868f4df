------------------------- MODULE MCSocketOwnership -------------------------
(***************************************************************************)
(* Two proxies that list the same two sockets in different orders; or,     *)
(* while none starts, any configuration of two groups in any file system   *)
(* of two directories and two names.                                       *)
(***************************************************************************)
EXTENDS SocketOwnership, MCConfiguration

CONSTANTS p1, p2

MCSockets == [p \in {p1, p2} |-> IF p = p1 THEN <<1, 2>> ELSE <<2, 1>>]

-----------------------------------------------------------------------------
configuration == <<dirs, there, link, upstream, socket, enabled>>
allVars       == <<vars, configuration>>

ProxyStep == NoConfiguration /\ Next /\ UNCHANGED configuration

Begin == Init /\ (NoConfiguration \/ ConfigurationInputs)

ProxiesOrConfiguration == Begin /\ [][ProxyStep]_allVars
=============================================================================
