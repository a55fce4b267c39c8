--------------------------------- MODULE Disco ---------------------------------
(***************************************************************************)
(* What a disk of files promises, whatever its bitmap and its metadata are *)
(* made of: a file has a set of blocks, and an operation changes the       *)
(* blocks of one file at a time and never gives it another file's.         *)
(***************************************************************************)
CONSTANT Archivos

VARIABLES
    existentes,    \* the files there are
    extension      \* file -> its blocks

discoVars == <<existentes, extension>>

\* No two files share a block.
Disjuntos == \A f, g \in Archivos : f # g => extension[f] \cap extension[g] = {}

DiscoInit ==
    /\ existentes = {}
    /\ extension = [f \in Archivos |-> {}]

\* The other files keep their blocks, and f has none of theirs.
SoloCambia(f) ==
    \A g \in Archivos \ {f} : /\ extension'[g] = extension[g]
                              /\ extension'[f] \cap extension[g] = {}

CrearVacio(f) ==
    /\ f \notin existentes
    /\ existentes' = existentes \cup {f}
    /\ extension' = extension

CambiarBloques(f) ==
    /\ f \in existentes
    /\ SoloCambia(f)
    /\ existentes' = existentes

Eliminar(f) ==
    /\ f \in existentes
    /\ existentes' = existentes \ {f}
    /\ extension' = [extension EXCEPT ![f] = {}]

DiscoNext ==
    \E f \in Archivos : CrearVacio(f) \/ CambiarBloques(f) \/ Eliminar(f)

DiscoSpec == DiscoInit /\ [][DiscoNext]_discoVars

===============================================================================
