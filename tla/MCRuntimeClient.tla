--------------------------- MODULE MCRuntimeClient --------------------------
(***************************************************************************)
(* RuntimeClient for TLC.                                                  *)
(***************************************************************************)
EXTENDS RuntimeClient
=============================================================================
