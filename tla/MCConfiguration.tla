-------------------------- MODULE MCConfiguration --------------------------
(***************************************************************************)
(* Configurations of two groups over two directories and two names.        *)
(***************************************************************************)
EXTENDS Configuration

\* All paths look alike before links are made.
OnePath == {<<"d", "s">>}
=============================================================================
