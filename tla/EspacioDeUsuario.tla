---------------------------- MODULE EspacioDeUsuario ----------------------------
(***************************************************************************)
(* memoria/src/paginacion.c: the bytes of the user space.  A read or a     *)
(* write is given a physical address, and goes on in the page that follows *)
(* in the table of the process.                                            *)
(*                                                                         *)
(* A copy of a negative number of bytes, a page that is not there, or an   *)
(* address outside the array is undefined: the model takes it for a crash. *)
(***************************************************************************)
EXTENDS Paginacion, Registros

CONSTANTS
    Asterisco,   \* '*', which new pages are filled with
    Basura,      \* the bytes that may lie past the end of a buffer
    Sobra        \* how many of them strlen may count when there is no '\0'

ASSUME ConstantesDelEspacio ==
    /\ Asterisco \in Byte \ {0}
    /\ Basura \subseteq Byte /\ Basura # {}
    /\ Sobra \subseteq Nat /\ 0 \in Sobra

VARIABLE mainMemory

Direcciones == 0 .. CantFrames * PageLength - 1

EspacioTypeOK ==
    /\ PaginacionTypeOK
    /\ mainMemory \in [Direcciones -> Byte]

\* malloc of a whole region: the system gives zeros.
EspacioInit ==
    /\ PaginacionInit
    /\ mainMemory = [x \in Direcciones |-> 0]

-------------------------------------------------------------------------------
(* Addresses. *)

\* getFrame: -1 if the process has no such page, or no table.
GetFrame(p, page) ==
    IF page < Len(PagesOf(p)) THEN PagesOf(p)[page + 1].frame_ppal ELSE -1

NumeroDeMarco(dir) == dir \div PageLength

Desplazamiento(dir) == dir % PageLength

\* Where the frame of an address is in the table of p, 0 if it is not there.
Lugar(p, dir) ==
    IF \E i \in 1 .. Len(PagesOf(p)) : PagesOf(p)[i].frame_ppal = NumeroDeMarco(dir)
      THEN CHOOSE i \in 1 .. Len(PagesOf(p)) : PagesOf(p)[i].frame_ppal = NumeroDeMarco(dir)
      ELSE 0

\* Mutant of PagSig: the page that is found, and not the one that follows.
PagSigLaMisma(p, dir, j) == Lugar(p, dir) + j - 1

\* obtener_pagsig_de_dirfisica, j times: the place of the page it arrives at.
PagSig(p, dir, j) == Lugar(p, dir) + j

HayPagSig(p, dir, j) == Lugar(p, dir) # 0 /\ PagSig(p, dir, j) <= Len(PagesOf(p))

\* recalcular_direccion_fisica: where that page begins.
RecalcularDireccion(p, dir, j) == PagesOf(p)[PagSig(p, dir, j)].frame_ppal * PageLength

-------------------------------------------------------------------------------
(* ocupyPhysicalAddress *)

Cruza(dir, size) == size > PageLength - Desplazamiento(dir)

\* The pages after the first that a write that crosses looks for: one at least.
PaginasRestantes(size) ==
    IF size <= 2 * PageLength THEN 1 ELSE CeilPages(size - PageLength)

\* Where the byte k of what is written goes: the first copy is of a whole page
\* wherever it starts, and the others start where a page does.
Destino(p, dir, k) ==
    IF k < PageLength THEN dir + k
    ELSE RecalcularDireccion(p, dir, k \div PageLength) + (k % PageLength)

\* A write that crosses leaves size - PageLength bytes for the next pages: a
\* negative number if it was smaller than a page.
EscrituraCae(p, dir, size) ==
    \/ dir \notin Direcciones
    \/ Cruza(dir, size) /\ (size < PageLength \/ ~HayPagSig(p, dir, PaginasRestantes(size)))
    \/ \E k \in 0 .. size - 1 : Destino(p, dir, k) \notin Direcciones

\* It writes over the frame that follows in memory, whoever has it.
EscrituraDerrama(dir, size) == Cruza(dir, size) /\ Desplazamiento(dir) # 0

\* The copies follow each other: the last one to reach a byte stays.
Escrita(p, dir, s) ==
    [x \in Direcciones |->
        LET ks == {k \in 0 .. Len(s) - 1 : Destino(p, dir, k) = x}
        IN  IF ks = {} THEN mainMemory[x]
            ELSE s[1 + (CHOOSE k \in ks : \A j \in ks : j <= k)]]

-------------------------------------------------------------------------------
(* leer_a_partir_de_direccion *)

\* Where the byte k of what is read comes from.
Origen(p, dir, k) ==
    LET l == Desplazamiento(dir) + k
    IN  IF l < PageLength THEN dir + k
        ELSE RecalcularDireccion(p, dir, l \div PageLength) + (l % PageLength)

\* A read that does not start where a page does begins by the rest of its page: if
\* it asked for less, what is left is negative, and goes to memcpy.
LecturaCae(p, dir, size) ==
    LET off == Desplazamiento(dir)
    IN  \/ dir \notin Direcciones
        \/ off # 0 /\ size < PageLength - off
        \/ off + size > PageLength /\ ~HayPagSig(p, dir, (off + size - 1) \div PageLength)

Leida(p, dir, size) == [k \in 1 .. size |-> mainMemory[Origen(p, dir, k - 1)]]

-------------------------------------------------------------------------------
(* The bytes that a RESIZE writes. *)

\* resize asks for '*' in what is missing, playingGod in whole pages.
Pedido(p, bytes) ==
    IF pageTable[p] = NULL THEN CeilPages(bytes) * PageLength ELSE bytes - CurrentSize(p)

PaginasNuevas(p) ==
    IF pageTable'[p] = NULL THEN <<>>
    ELSE SubSeq(pageTable'[p].pages, Len(PagesOf(p)) + 1, Len(pageTable'[p].pages))

\* saveInPage copies what strlen counted: the '*' that were asked for, and what
\* follows them in the heap if there is a page for it.
LlenarPaginas(p, bytes) ==
    LET nuevas == PaginasNuevas(p)
        En(x) == {i \in 1 .. Len(nuevas) : nuevas[i].frame_ppal = NumeroDeMarco(x)}
        Byte0(x) == ((CHOOSE i \in En(x) : TRUE) - 1) * PageLength + Desplazamiento(x)
    IN  \E sobra \in Sobra, b \in Basura :
          mainMemory' = [x \in Direcciones |->
              IF En(x) # {} /\ Byte0(x) < Pedido(p, bytes) THEN Asterisco
              ELSE IF En(x) # {} /\ Byte0(x) < Pedido(p, bytes) + sobra THEN b
              ELSE mainMemory[x]]

ResizeYLlenar(p, bytes) == Resize(p, bytes) /\ LlenarPaginas(p, bytes)

-------------------------------------------------------------------------------
(* What the process should see: its pages one after the other. *)

\* The logical address l of p, byte by byte through its table.
Traducida(p, l) ==
    PagesOf(p)[l \div PageLength + 1].frame_ppal * PageLength + (l % PageLength)

Plana(p) == [l \in 0 .. CurrentSize(p) - 1 |-> mainMemory[Traducida(p, l)]]

===============================================================================
