--------------------------- MODULE MCFileStorage ----------------------------
(***************************************************************************)
(* FileStorage for TLC: two processes over one path.                       *)
(***************************************************************************)
EXTENDS FileStorage

CONSTANTS p1, p2

MCProcesses == {p1, p2}

\* The batch with text that splits its line; whoever saves it, and to which
\* file, is up to the run.
MCSplitting == {2}
=============================================================================
