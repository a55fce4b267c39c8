--------------------------------- MODULE MCMmu ---------------------------------
(***************************************************************************)
(* Values of the constants for the runs of Paginacion and Mmu.             *)
(***************************************************************************)
EXTENDS Mmu

CONSTANTS P1, P2

\* Pages of 2 bytes and 3 frames: nothing, half a page, the limits of a page, and
\* more than the memory when the other process has a page.
TamaniosPosibles == {0, 1, 4, 5}

===============================================================================
