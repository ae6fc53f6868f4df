--------------------------- MODULE MCCachedAgent ---------------------------
(***************************************************************************)
(* A few interchangeable callers: client requests of any group, and the    *)
(* startup listing.                                                        *)
(***************************************************************************)
EXTENDS CachedAgent, TLC

CallerSymmetry == Permutations(Caller)
=============================================================================
