-------------------------------- MODULE DialFS ---------------------------------
(***************************************************************************)
(* entradasalida/src/utils_io.c: the file system of a DIALFS interface.    *)
(*                                                                         *)
(* The interface attends one request at a time.  A step is one write to    *)
(* what the disk keeps: a loop over the bitmap or the rewriting of a       *)
(* metadata file.  The content of the blocks is left out, and so is        *)
(* globalOpenFiles, which no operation on the disk reads.                  *)
(*                                                                         *)
(* bitmap is the set of the bits that are 1.  bitarray_test_bit and        *)
(* bitarray_set_bit check no bound: a bit past BLOCK_COUNT is one of the   *)
(* page that bitmap.dat is mapped on, 0 until it is set.                   *)
(***************************************************************************)
EXTENDS Integers, FiniteSets

CONSTANTS
    Archivos,      \* the file names the processes use
    BLOCK_COUNT,   \* of the configuration, a multiple of 8
    BLOCK_SIZE,    \* of the configuration, in bytes
    Tamanios,      \* the sizes that IO_FS_TRUNCATE is asked for, in bytes
    NULL           \* no metadata file

ASSUME ConstantesDeDialFS ==
    /\ BLOCK_COUNT \in Nat \ {0} /\ BLOCK_SIZE \in Nat \ {0}
    /\ Tamanios \subseteq Nat
    /\ NULL \notin [bloque : Int, tamanio : Nat]
    /\ IsFiniteSet(Archivos)

VARIABLES
    bitmap,     \* bitmap.dat
    metadata,   \* file -> BLOQUE_INICIAL and TAMANIO_ARCHIVO, or NULL
    op,         \* the request in course: program counter and locals
    reubico     \* history: some file has been relocated

dialfsVars == <<bitmap, metadata, op, reubico>>

\* Where the request is: in fsTruncate, in realocate, in compaction, in fsDelete.
PcsTruncar == {"ubicar", "anotarPrimero", "comparar", "anotarTamanio"}
PcsReubicar == {"soltar", "anotarDestino", "ocupar", "anotarBytes"}
Pcs == {"libre", "compactar", "quitar"} \cup PcsTruncar \cup PcsReubicar

Metadatos == [bloque : Nat \cup {-1}, tamanio : Nat]

Operaciones ==
    [pc : Pcs,
     archivo : Archivos \cup {NULL},   \* the file of the request
     tamanio : Nat,                    \* newSize of fsTruncate
     falta : Nat,                      \* blocksNeededToAdd
     mueve : Archivos \cup {NULL},     \* the file that realocate moves
     destino : Nat,                    \* its newInitialBlock
     bytes : Nat,                      \* its newSize
     pendientes : SUBSET Archivos,     \* the files compaction has not reached
     newPosition : Nat]

Libre == [pc |-> "libre", archivo |-> NULL, tamanio |-> 0, falta |-> 0, mueve |-> NULL,
          destino |-> 0, bytes |-> 0, pendientes |-> {}, newPosition |-> 0]

DialFSTypeOK ==
    /\ bitmap \in SUBSET Nat
    /\ metadata \in [Archivos -> Metadatos \cup {NULL}]
    /\ op \in Operaciones
    /\ op.pc # "libre" => op.archivo \in Archivos /\ metadata[op.archivo] # NULL
    /\ op.pc \in PcsReubicar => op.mueve \in Archivos /\ metadata[op.mueve] # NULL
    /\ reubico \in BOOLEAN

DialFSInit ==
    /\ bitmap = {}
    /\ metadata = [f \in Archivos |-> NULL]
    /\ op = Libre
    /\ reubico = FALSE

-------------------------------------------------------------------------------
(* Sizes and extents. *)

\* blocksPerBits: a file takes a block at least.
BlocksPerBits(bytes) ==
    IF bytes = 0 THEN 1 ELSE (bytes + BLOCK_SIZE - 1) \div BLOCK_SIZE

Rango(b, n) == b .. b + n - 1

Existentes == {f \in Archivos : metadata[f] # NULL}

ConBloques(f) == metadata[f] # NULL /\ metadata[f].bloque # -1

UsedBlocks(f) == BlocksPerBits(metadata[f].tamanio)

Extension(f) == IF ConBloques(f) THEN Rango(metadata[f].bloque, UsedBlocks(f)) ELSE {}

\* Mutant of NextBlocksAvaiable: the last of the blocks is not looked at.
NextBlocksAvaiableMenosUno(desde, n) ==
    \A i \in desde .. desde + n - 2 : i \notin bitmap

NextBlocksAvaiable(desde, n) == \A i \in Rango(desde, n) : i \notin bitmap

\* canRelocate, which is called for a file with no block: every turn of its inner
\* loop tests the same bit, so that it answers the first free block.
EsPrimerLibre(b) ==
    /\ b \in 0 .. BLOCK_COUNT - 1 /\ b \notin bitmap
    /\ \A i \in 0 .. b - 1 : i \in bitmap

HayLibre == \E b \in 0 .. BLOCK_COUNT - 1 : b \notin bitmap

\* canRelocateAtTheEnd: n free blocks in a row inside the disk, that do not end in
\* a block of the file; the search goes down from the last block.
SirveAlFinal(f, n, b) ==
    /\ b \in Nat /\ b + n <= BLOCK_COUNT
    /\ NextBlocksAvaiable(b, n)
    /\ b + n - 1 \notin Extension(f)

EsUltimoHueco(f, n, b) ==
    /\ SirveAlFinal(f, n, b)
    /\ \A c \in b + 1 .. BLOCK_COUNT : ~SirveAlFinal(f, n, c)

HayHueco(f, n) == \E b \in 0 .. BLOCK_COUNT : SirveAlFinal(f, n, b)

-------------------------------------------------------------------------------
(* fsCreate and fsDelete. *)

Anotar(f, m) == metadata' = [metadata EXCEPT ![f] = m]

FsCreate(f) ==
    /\ op.pc = "libre"
    /\ metadata[f] = NULL
    /\ Anotar(f, [bloque |-> -1, tamanio |-> 0])
    /\ UNCHANGED <<bitmap, op, reubico>>

\* Mutant of FsDelete: remove() before the loop over the bitmap.
FsDeleteAlReves(f) ==
    /\ op.pc = "libre"
    /\ metadata[f] # NULL
    /\ Anotar(f, NULL)
    /\ op' = [Libre EXCEPT !.pc = "quitar", !.archivo = f]
    /\ UNCHANGED <<bitmap, reubico>>

\* The loop over the extent does nothing for a file with no block.
FsDelete(f) ==
    /\ op.pc = "libre"
    /\ metadata[f] # NULL
    /\ bitmap' = bitmap \ Extension(f)
    /\ op' = [Libre EXCEPT !.pc = "quitar", !.archivo = f]
    /\ UNCHANGED <<metadata, reubico>>

QuitarMetadata ==
    /\ op.pc = "quitar"
    /\ Anotar(op.archivo, NULL)
    /\ op' = Libre
    /\ UNCHANGED <<bitmap, reubico>>

-------------------------------------------------------------------------------
(* fsTruncate. *)

FsTruncate(f, s) ==
    /\ op.pc = "libre"
    /\ metadata[f] # NULL
    /\ op' = [Libre EXCEPT !.pc = IF metadata[f].bloque = -1 THEN "ubicar" ELSE "comparar",
                           !.archivo = f, !.tamanio = s]
    /\ UNCHANGED <<bitmap, metadata, reubico>>

UbicarPrimero ==
    /\ op.pc = "ubicar"
    /\ \E b \in 0 .. BLOCK_COUNT - 1 :
         /\ EsPrimerLibre(b)
         /\ bitmap' = bitmap \cup {b}
         /\ op' = [op EXCEPT !.pc = "anotarPrimero", !.destino = b]
    /\ UNCHANGED <<metadata, reubico>>

\* "No hay lugar para truncar": the answer is an error.
SinPrimero ==
    /\ op.pc = "ubicar"
    /\ ~HayLibre
    /\ op' = Libre
    /\ UNCHANGED <<bitmap, metadata, reubico>>

AnotarPrimero ==
    /\ op.pc = "anotarPrimero"
    /\ Anotar(op.archivo, [metadata[op.archivo] EXCEPT !.bloque = op.destino])
    /\ op' = [op EXCEPT !.pc = "comparar"]
    /\ UNCHANGED <<bitmap, reubico>>

Usados == UsedBlocks(op.archivo)
Pedidos == BlocksPerBits(op.tamanio)
Siguiente == metadata[op.archivo].bloque + Usados

\* "Sumamos Bloques", in place.
Sumar ==
    /\ op.pc = "comparar"
    /\ Usados <= Pedidos
    /\ NextBlocksAvaiable(Siguiente, Pedidos - Usados)
    /\ bitmap' = bitmap \cup Rango(Siguiente, Pedidos - Usados)
    /\ op' = [op EXCEPT !.pc = "anotarTamanio"]
    /\ UNCHANGED <<metadata, reubico>>

\* Mutant of Sacar: the loop stops one block early.
SacarDeMenos ==
    /\ op.pc = "comparar"
    /\ Usados > Pedidos
    /\ bitmap' = bitmap \ Rango(metadata[op.archivo].bloque + Pedidos + 1, Usados - Pedidos - 1)
    /\ op' = [op EXCEPT !.pc = "anotarTamanio"]
    /\ UNCHANGED <<metadata, reubico>>

\* "Sacamos Bloques": the tail of the extent is freed.
Sacar ==
    /\ op.pc = "comparar"
    /\ Usados > Pedidos
    /\ bitmap' = bitmap \ Rango(metadata[op.archivo].bloque + Pedidos, Usados - Pedidos)
    /\ op' = [op EXCEPT !.pc = "anotarTamanio"]
    /\ UNCHANGED <<metadata, reubico>>

AnotarTamanio ==
    /\ op.pc = "anotarTamanio"
    /\ Anotar(op.archivo, [metadata[op.archivo] EXCEPT !.tamanio = op.tamanio])
    /\ op' = Libre
    /\ UNCHANGED <<bitmap, reubico>>

NoSigue ==
    /\ op.pc = "comparar"
    /\ Usados <= Pedidos
    /\ ~NextBlocksAvaiable(Siguiente, Pedidos - Usados)

\* "HAY QUE COMPACTAR": the file goes to the last hole its blocks fit in.  The
\* size that realocate is given is the number of blocks.
HayQueCompactar ==
    /\ NoSigue
    /\ \E b \in 0 .. BLOCK_COUNT :
         /\ EsUltimoHueco(op.archivo, Usados, b)
         /\ op' = [op EXCEPT !.pc = "soltar", !.falta = Pedidos - Usados,
                             !.mueve = op.archivo, !.destino = b, !.bytes = Usados,
                             !.pendientes = Existentes, !.newPosition = 0]
    /\ reubico' = TRUE
    /\ UNCHANGED <<bitmap, metadata>>

\* No hole: fsTruncate returns 1 and has done nothing.
SinHueco ==
    /\ NoSigue
    /\ ~HayHueco(op.archivo, Usados)
    /\ op' = Libre
    /\ UNCHANGED <<bitmap, metadata, reubico>>

-------------------------------------------------------------------------------
(* realocate(op.mueve, op.destino, op.bytes), called by both. *)

\* The condition of the loop, i > lastCurrentBlock - usedBlocksFcb, is unsigned:
\* for a file that starts in block 0 it is false at once, and its bits stay.
\* For a file with no block, whose initialBlock is 2^32 - 1, the bit it clears is
\* -1, which is none of the map.
Soltar ==
    /\ op.pc = "soltar"
    /\ bitmap' = IF metadata[op.mueve].bloque = 0 THEN bitmap ELSE bitmap \ Extension(op.mueve)
    /\ op' = [op EXCEPT !.pc = "anotarDestino"]
    /\ UNCHANGED <<metadata, reubico>>

AnotarDestino ==
    /\ op.pc = "anotarDestino"
    /\ Anotar(op.mueve, [metadata[op.mueve] EXCEPT !.bloque = op.destino])
    /\ op' = [op EXCEPT !.pc = "ocupar"]
    /\ UNCHANGED <<bitmap, reubico>>

\* Mutant of Ocupar: the loop stops one block early.
OcuparDeMenos ==
    /\ op.pc = "ocupar"
    /\ bitmap' = bitmap \cup Rango(op.destino, BlocksPerBits(op.bytes) - 1)
    /\ op' = [op EXCEPT !.pc = "anotarBytes"]
    /\ UNCHANGED <<metadata, reubico>>

Ocupar ==
    /\ op.pc = "ocupar"
    /\ bitmap' = bitmap \cup Rango(op.destino, BlocksPerBits(op.bytes))
    /\ op' = [op EXCEPT !.pc = "anotarBytes"]
    /\ UNCHANGED <<metadata, reubico>>

AnotarBytes ==
    /\ op.pc = "anotarBytes"
    /\ Anotar(op.mueve, [metadata[op.mueve] EXCEPT !.tamanio = op.bytes])
    /\ op' = [op EXCEPT !.pc = "compactar"]
    /\ UNCHANGED <<bitmap, reubico>>

-------------------------------------------------------------------------------
(* compaction, and the end of fsTruncate after it. *)

\* The order of list_sort: by BLOQUE_INICIAL, a uint32_t, so that the files with
\* no block are the last.
Antes(f, g) ==
    \/ metadata[g].bloque = -1
    \/ metadata[f].bloque # -1 /\ metadata[f].bloque <= metadata[g].bloque

\* Mutant of Compactar: a file that stays where it is does not move newPosition.
CompactarSinAvanzar ==
    /\ op.pc = "compactar"
    /\ \E f \in op.pendientes :
         /\ \A g \in op.pendientes : Antes(f, g)
         /\ \/ /\ metadata[f].bloque = op.newPosition
               /\ op' = [op EXCEPT !.pendientes = @ \ {f}]
            \/ /\ metadata[f].bloque # op.newPosition
               /\ op' = [op EXCEPT !.pc = "soltar", !.mueve = f, !.destino = op.newPosition,
                                   !.bytes = metadata[f].tamanio, !.pendientes = @ \ {f},
                                   !.newPosition = @ + UsedBlocks(f)]
    /\ UNCHANGED <<bitmap, metadata, reubico>>

\* Mutant of Compactar: a file that is in its place is not left behind.
CompactarSinSeguir ==
    /\ op.pc = "compactar"
    /\ \E f \in op.pendientes :
         /\ \A g \in op.pendientes : Antes(f, g)
         /\ metadata[f].bloque # op.newPosition
         /\ op' = [op EXCEPT !.pc = "soltar", !.mueve = f, !.destino = op.newPosition,
                             !.bytes = metadata[f].tamanio, !.pendientes = @ \ {f},
                             !.newPosition = @ + UsedBlocks(f)]
    /\ UNCHANGED <<bitmap, metadata, reubico>>

Compactar ==
    /\ op.pc = "compactar"
    /\ \E f \in op.pendientes :
         /\ \A g \in op.pendientes : Antes(f, g)
         /\ \/ /\ metadata[f].bloque = op.newPosition
               /\ op' = [op EXCEPT !.pendientes = @ \ {f},
                                   !.newPosition = @ + UsedBlocks(f)]
            \/ /\ metadata[f].bloque # op.newPosition
               /\ op' = [op EXCEPT !.pc = "soltar", !.mueve = f, !.destino = op.newPosition,
                                   !.bytes = metadata[f].tamanio, !.pendientes = @ \ {f},
                                   !.newPosition = @ + UsedBlocks(f)]
    /\ UNCHANGED <<bitmap, metadata, reubico>>

CompactacionLista == op.pc = "compactar" /\ op.pendientes = {}

\* The bits of the blocks that were asked for are set, and TAMANIO_ARCHIVO is not
\* written; or "No es posible truncar ni siquiera despues de compactar".
TrasCompactar ==
    /\ CompactacionLista
    /\ bitmap' = IF NextBlocksAvaiable(Siguiente, op.falta)
                   THEN bitmap \cup Rango(metadata[op.archivo].bloque, Usados + op.falta)
                   ELSE bitmap
    /\ op' = Libre
    /\ UNCHANGED <<metadata, reubico>>

-------------------------------------------------------------------------------

\* The request goes on.
Seguir ==
    \/ QuitarMetadata
    \/ UbicarPrimero \/ SinPrimero \/ AnotarPrimero
    \/ Sumar \/ Sacar \/ AnotarTamanio \/ HayQueCompactar \/ SinHueco
    \/ Soltar \/ AnotarDestino \/ Ocupar \/ AnotarBytes
    \/ Compactar \/ TrasCompactar

DialFSNext ==
    \/ Seguir
    \/ \E f \in Archivos : FsCreate(f) \/ FsDelete(f)
    \/ \E f \in Archivos, s \in Tamanios : FsTruncate(f, s)

DialFSSpec == DialFSInit /\ [][DialFSNext]_dialfsVars

\* The interface goes on with the request it attends; nobody has to send one.
DialFSFairSpec == DialFSSpec /\ WF_dialfsVars(Seguir)

-------------------------------------------------------------------------------
(* Properties. *)

\* Between two requests the bitmap has every block of every file: the next
\* request that looks for free blocks does not find another file's.
MapaCubre == op.pc = "libre" => \A f \in Archivos : Extension(f) \subseteq bitmap

\* Until a file is relocated nothing else is marked: create, delete and truncate,
\* in either direction, leak no block.  (realocate and what follows it do.)
MapaExacto ==
    op.pc = "libre" /\ ~reubico => bitmap = UNION {Extension(f) : f \in Archivos}

\* When compaction ends the files are one after the other from block 0.
CompactaSinHuecos ==
    CompactacionLista
      => UNION {Extension(f) : f \in Archivos} = 0 .. op.newPosition - 1

\* The blocks of the files are blocks of the disk.  nextBlocksAvaiable answers 1 as
\* "Todos los bloques estan disponibles"; past the last block there is none.
DentroDelDisco == \A f \in Archivos : Extension(f) \subseteq 0 .. BLOCK_COUNT - 1

\* The disk as its users see it: every write to a metadata file, also those in the
\* middle of a relocation or of a compaction, changes the blocks of one file and
\* gives it none of another.
D == INSTANCE Disco WITH existentes <- Existentes,
                         extension <- [f \in Archivos |-> Extension(f)]
ImplementaDisco == D!DiscoSpec

\* Every request is answered: the compaction ends.
SiempreResponde == op.pc # "libre" ~> op.pc = "libre"

===============================================================================
