-------------------------------- MODULE MCDialFS -------------------------------
(***************************************************************************)
(* Values of the constants for the runs of DialFS.                         *)
(***************************************************************************)
EXTENDS DialFS

CONSTANTS A1, A2, A3

\* With blocks of 2 bytes, files of 1 and 3 blocks.  A relocated file has as
\* many bytes as it had blocks, and so 1 or 2 blocks.
TamaniosPosibles == {0, 6}

===============================================================================
