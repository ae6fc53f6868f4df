------------------------- MODULE MCServerLifecycle -------------------------
(***************************************************************************)
(* Two groups, so that a listener that fails takes another one's clients   *)
(* with it, and two clients, which may come to the same socket or not.     *)
(***************************************************************************)
EXTENDS ServerLifecycle
=============================================================================
