------------------------ MODULE MCGroupAuthorization ------------------------
(***************************************************************************)
(* Two clients, and the startup listing, of a group with two selectors,    *)
(* one by comment and one by fingerprint.  Two of the keys share a blob    *)
(* (the same key loaded under another comment), and one key is selected    *)
(* by both.                                                                *)
(*                                                                         *)
(* Or, while nothing is asked, keys.Resolve of any listing and selectors,  *)
(* step by step.                                                           *)
(***************************************************************************)
EXTENDS GroupAuthorization, KeyResolve, TLC

CONSTANTS work, workAgain, home, blobW, blobH, byComment, byPrint

MCBlobOf == work :> blobW @@ workAgain :> blobW @@ home :> blobH

MCSelects == byComment :> {work} @@ byPrint :> {work, workAgain}

\* The key set shrinks, loses every key (a locked agent) and comes back with a
\* different identity for the same blob.
MCOffers == << {work, home}, {}, {workAgain, home} >>

-----------------------------------------------------------------------------
allVars == <<vars, resolveVars>>

GroupStep   == NoKeys /\ Next /\ UNCHANGED resolveVars
ResolveStep == Resolve /\ UNCHANGED vars
Resolved    == ~NoKeys /\ Returned /\ UNCHANGED allVars

Start == Init /\ KeyInputs /\ Begin
Step  == GroupStep \/ ResolveStep \/ Resolved

GroupOrResolve == Start /\ [][Step]_allVars /\ Fairness
=============================================================================
