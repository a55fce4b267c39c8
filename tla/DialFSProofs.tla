----------------------------- MODULE DialFSProofs ------------------------------
(***************************************************************************)
(* The bitmap and the metadata of a DIALFS interface, for any files, any   *)
(* disk and any sequence of requests.                                      *)
(***************************************************************************)
EXTENDS DialFS, TLAPS

\* blocksPerBits: the quotient is a natural.
LEMMA BlocksNat ==
    ASSUME NEW bytes \in Nat
    PROVE  BlocksPerBits(bytes) \in Nat
<1>1. BLOCK_SIZE \in Nat \ {0}
  BY ConstantesDeDialFS
<1>2. bytes + BLOCK_SIZE - 1 \in Nat
  BY <1>1
<1>3. (bytes + BLOCK_SIZE - 1) \div BLOCK_SIZE \in Nat
  BY <1>1, <1>2
<1>4. QED BY <1>3 DEF BlocksPerBits

\* A file that has blocks has them from a natural on.
LEMMA ExtensionNat ==
    ASSUME DialFSTypeOK, NEW f \in Archivos
    PROVE  /\ metadata[f] # NULL => /\ metadata[f] \in Metadatos /\ UsedBlocks(f) \in Nat
                                    /\ metadata[f].bloque \in Nat \cup {-1}
                                    /\ metadata[f].tamanio \in Nat
           /\ Extension(f) \in SUBSET Nat
<1>1. metadata[f] # NULL => metadata[f] \in Metadatos
  BY DEF DialFSTypeOK
<1>2. metadata[f] # NULL => /\ metadata[f].bloque \in Nat \cup {-1}
                            /\ metadata[f].tamanio \in Nat
  BY <1>1 DEF Metadatos
<1>3. metadata[f] # NULL => UsedBlocks(f) \in Nat
  BY <1>2, BlocksNat DEF UsedBlocks
<1>4. Extension(f) \in SUBSET Nat
  BY <1>2, <1>3 DEF Extension, ConBloques, Rango
<1>5. QED BY <1>1, <1>2, <1>3, <1>4

-------------------------------------------------------------------------------
(* The types. *)

\* What the request in course has done already: the file that it truncates has a
\* first block, and the files that compaction has not reached exist.
Avance ==
    /\ op.pc \in {"comparar", "anotarTamanio", "compactar"} \cup PcsReubicar
         => metadata[op.archivo].bloque # -1
    /\ op.pc \in {"compactar"} \cup PcsReubicar => op.pendientes \subseteq Existentes

TipoInv == DialFSTypeOK /\ Avance

\* A metadata file is rewritten, or removed.
LEMMA AnotarTipo ==
    ASSUME DialFSTypeOK, NEW f \in Archivos, NEW m \in Metadatos \cup {NULL}, Anotar(f, m)
    PROVE  /\ metadata' \in [Archivos -> Metadatos \cup {NULL}]
           /\ metadata'[f] = m
           /\ \A g \in Archivos : g # f => metadata'[g] = metadata[g]
BY DEF DialFSTypeOK, Anotar

\* The requests.
LEMMA TipoPedidos ==
    ASSUME TipoInv, NEW f \in Archivos,
           FsCreate(f) \/ FsDelete(f) \/ \E s \in Tamanios : FsTruncate(f, s)
    PROVE  TipoInv'
<1>1. Libre \in Operaciones /\ DialFSTypeOK
  BY DEF Libre, Operaciones, Pcs, TipoInv
<1>2. CASE FsCreate(f)
  <2>1. [bloque |-> -1, tamanio |-> 0] \in Metadatos
    BY DEF Metadatos
  <2>2. metadata' \in [Archivos -> Metadatos \cup {NULL}]
    BY <1>1, <1>2, <2>1, AnotarTipo DEF FsCreate
  <2>3. QED BY <1>1, <1>2, <2>2 DEF FsCreate, TipoInv, DialFSTypeOK, Avance, PcsReubicar
<1>3. CASE FsDelete(f)
  <2>1. op' = [Libre EXCEPT !.pc = "quitar", !.archivo = f] /\ op'.pc = "quitar"
        /\ op'.archivo = f /\ metadata[f] # NULL /\ UNCHANGED <<metadata, reubico>>
    BY <1>3 DEF FsDelete, Libre
  <2>2. op' \in Operaciones
    BY <1>1, <2>1 DEF Operaciones, Pcs
  <2>3. bitmap' \in SUBSET Nat
    BY <1>1, <1>3 DEF FsDelete, DialFSTypeOK
  <2>4. QED BY <1>1, <2>1, <2>2, <2>3 DEF TipoInv, DialFSTypeOK, Avance, PcsReubicar
<1>4. ASSUME NEW s \in Tamanios, FsTruncate(f, s)
      PROVE  TipoInv'
  <2> DEFINE pc == IF metadata[f].bloque = -1 THEN "ubicar" ELSE "comparar"
  <2>1. /\ op' = [Libre EXCEPT !.pc = pc, !.archivo = f, !.tamanio = s]
        /\ op'.pc = pc /\ op'.archivo = f /\ metadata[f] # NULL
        /\ UNCHANGED <<bitmap, metadata, reubico>>
    BY <1>4 DEF FsTruncate, Libre
  <2>2. s \in Nat
    BY ConstantesDeDialFS
  <2>3. op' \in Operaciones
    BY <1>1, <2>1, <2>2 DEF Operaciones, Pcs, PcsTruncar
  <2>4. QED BY <1>1, <2>1, <2>3 DEF TipoInv, DialFSTypeOK, Avance, PcsReubicar
<1>5. QED BY <1>2, <1>3, <1>4

\* The file of the request, while there is one.
LEMMA DelPedido ==
    ASSUME TipoInv, op.pc # "libre"
    PROVE  /\ op \in Operaciones /\ op.archivo \in Archivos /\ metadata[op.archivo] # NULL
           /\ metadata[op.archivo] \in Metadatos /\ Usados \in Nat /\ Pedidos \in Nat
           /\ op.pc \in {"comparar", "anotarTamanio", "compactar"} \cup PcsReubicar
                => /\ metadata[op.archivo].bloque \in Nat /\ Siguiente \in Nat
                   /\ Extension(op.archivo) = Rango(metadata[op.archivo].bloque, Usados)
<1>1. DialFSTypeOK /\ op \in Operaciones /\ op.archivo \in Archivos /\ metadata[op.archivo] # NULL
  BY DEF TipoInv, DialFSTypeOK
<1>2. /\ metadata[op.archivo] \in Metadatos /\ Usados \in Nat
      /\ metadata[op.archivo].bloque \in Nat \cup {-1}
  BY <1>1, ExtensionNat DEF Usados
<1>3. Pedidos \in Nat
  BY <1>1, BlocksNat DEF Operaciones, Pedidos
<1>4. ASSUME op.pc \in {"comparar", "anotarTamanio", "compactar"} \cup PcsReubicar
      PROVE  /\ metadata[op.archivo].bloque \in Nat /\ Siguiente \in Nat
             /\ Extension(op.archivo) = Rango(metadata[op.archivo].bloque, Usados)
  <2>1. metadata[op.archivo].bloque # -1
    BY <1>4 DEF TipoInv, Avance
  <2>2. QED BY <1>1, <1>2, <2>1 DEF Siguiente, Extension, ConBloques, Usados
<1>5. QED BY <1>1, <1>2, <1>3, <1>4

\* The steps of a request that write the bitmap, or nothing.
LEMMA TipoMapa ==
    ASSUME TipoInv,
           UbicarPrimero \/ SinPrimero \/ Sumar \/ Sacar \/ HayQueCompactar \/ SinHueco
    PROVE  TipoInv'
<1>1. /\ DialFSTypeOK /\ op.pc # "libre" /\ UNCHANGED metadata
      /\ bitmap \in SUBSET Nat /\ reubico \in BOOLEAN
  BY Zenon DEF TipoInv, DialFSTypeOK, UbicarPrimero, SinPrimero, Sumar, Sacar, HayQueCompactar,
     SinHueco, NoSigue
<1>2. /\ op \in Operaciones /\ op.archivo \in Archivos /\ metadata[op.archivo] # NULL
      /\ Usados \in Nat /\ Pedidos \in Nat
  BY <1>1, DelPedido
<1>3. Libre \in Operaciones /\ Libre.pc = "libre"
  BY DEF Libre, Operaciones, Pcs
<1>4. CASE UbicarPrimero
  <2>1. PICK b \in 0 .. BLOCK_COUNT - 1 :
          bitmap' = bitmap \cup {b} /\ op' = [op EXCEPT !.pc = "anotarPrimero", !.destino = b]
    BY <1>4 DEF UbicarPrimero
  <2>2. b \in Nat
    BY ConstantesDeDialFS
  <2>3. op' \in Operaciones /\ op'.pc = "anotarPrimero" /\ op'.archivo = op.archivo
    BY <1>2, <2>1, <2>2 DEF Operaciones, Pcs, PcsTruncar
  <2>4. UNCHANGED reubico
    BY <1>4 DEF UbicarPrimero
  <2>5. QED BY <1>1, <1>2, <2>1, <2>2, <2>3, <2>4
        DEF TipoInv, DialFSTypeOK, Avance, PcsReubicar
<1>5. CASE SinPrimero \/ SinHueco
  BY <1>1, <1>3, <1>5
     DEF SinPrimero, SinHueco, TipoInv, DialFSTypeOK, Avance, PcsReubicar
<1>6. CASE Sumar \/ Sacar
  <2>1. /\ op.pc = "comparar" /\ op' = [op EXCEPT !.pc = "anotarTamanio"] /\ UNCHANGED reubico
    BY <1>6 DEF Sumar, Sacar
  <2>2. metadata[op.archivo].bloque # -1 /\ Siguiente \in Nat
    BY <1>1, <2>1, DelPedido DEF TipoInv, Avance
  <2>3. op' \in Operaciones /\ op'.pc = "anotarTamanio" /\ op'.archivo = op.archivo
    BY <1>2, <2>1 DEF Operaciones, Pcs, PcsTruncar
  <2>4. bitmap' \in SUBSET Nat
    <3>1. CASE Sumar
      <4>1. Rango(Siguiente, Pedidos - Usados) \in SUBSET Nat
        BY <1>2, <2>2 DEF Rango
      <4>2. QED BY <1>1, <3>1, <4>1 DEF Sumar
    <3>2. CASE Sacar
      BY <1>1, <3>2 DEF Sacar
    <3>3. QED BY <1>6, <3>1, <3>2
  <2>5. QED BY <1>1, <1>2, <2>1, <2>2, <2>3, <2>4
        DEF TipoInv, DialFSTypeOK, Avance, PcsReubicar
<1>7. CASE HayQueCompactar
  <2>1. PICK b \in 0 .. BLOCK_COUNT :
          op' = [op EXCEPT !.pc = "soltar", !.falta = Pedidos - Usados,
                           !.mueve = op.archivo, !.destino = b, !.bytes = Usados,
                           !.pendientes = Existentes, !.newPosition = 0]
    BY <1>7 DEF HayQueCompactar
  <2>2. op.pc = "comparar" /\ Usados <= Pedidos /\ UNCHANGED bitmap /\ reubico' = TRUE
    BY <1>7 DEF HayQueCompactar, NoSigue
  <2>3. b \in Nat /\ Pedidos - Usados \in Nat /\ Existentes \in SUBSET Archivos
    BY <1>2, <2>2, ConstantesDeDialFS DEF Existentes
  <2>4. /\ op' \in Operaciones /\ op'.pc = "soltar" /\ op'.archivo = op.archivo
        /\ op'.mueve = op.archivo /\ op'.pendientes = Existentes
    BY <1>2, <2>1, <2>3 DEF Operaciones, Pcs, PcsReubicar
  <2>5. metadata[op.archivo].bloque # -1
    BY <2>2 DEF TipoInv, Avance
  <2>6. Existentes' = Existentes
    BY <1>1 DEF Existentes
  <2>7. QED BY <1>1, <1>2, <2>2, <2>4, <2>5, <2>6
        DEF TipoInv, DialFSTypeOK, Avance, PcsReubicar
<1>8. QED BY <1>4, <1>5, <1>6, <1>7

\* The steps that rewrite a metadata file, or remove it.
LEMMA TipoMetadatos ==
    ASSUME TipoInv,
           QuitarMetadata \/ AnotarPrimero \/ AnotarTamanio \/ AnotarDestino \/ AnotarBytes
    PROVE  TipoInv'
<1>1. DialFSTypeOK /\ op.pc # "libre" /\ UNCHANGED <<bitmap, reubico>>
  BY DEF TipoInv, DialFSTypeOK, QuitarMetadata, AnotarPrimero, AnotarTamanio, AnotarDestino,
     AnotarBytes
<1>2. /\ op \in Operaciones /\ op.archivo \in Archivos /\ metadata[op.archivo] # NULL
      /\ metadata[op.archivo] \in Metadatos
  BY <1>1, DelPedido
<1>3. Libre \in Operaciones /\ Libre.pc = "libre"
  BY DEF Libre, Operaciones, Pcs
<1>4. /\ op.destino \in Nat /\ op.bytes \in Nat /\ op.tamanio \in Nat
      /\ NULL \notin Metadatos
  <2>1. op.destino \in Nat /\ op.bytes \in Nat /\ op.tamanio \in Nat
    BY <1>2 DEF Operaciones
  <2>2. \A m \in Metadatos : m \in [bloque : Int, tamanio : Nat]
    BY DEF Metadatos
  <2>3. QED BY <2>1, <2>2, ConstantesDeDialFS
<1>5. CASE QuitarMetadata
  <2>1. metadata' \in [Archivos -> Metadatos \cup {NULL}]
    BY <1>1, <1>2, <1>5, AnotarTipo DEF QuitarMetadata
  <2>2. QED BY <1>1, <1>3, <1>5, <2>1
        DEF QuitarMetadata, TipoInv, DialFSTypeOK, Avance, PcsReubicar
<1>6. CASE AnotarPrimero \/ AnotarTamanio
  <2> DEFINE a == op.archivo
  <2>1. PICK m \in Metadatos : Anotar(a, m) /\ (AnotarPrimero => m.bloque = op.destino)
    <3>1. CASE AnotarPrimero
      <4>1. [metadata[a] EXCEPT !.bloque = op.destino] \in Metadatos
        BY <1>2, <1>4 DEF Metadatos
      <4>2. [metadata[a] EXCEPT !.bloque = op.destino].bloque = op.destino
        BY <1>2 DEF Metadatos
      <4>3. QED BY <3>1, <4>1, <4>2 DEF AnotarPrimero
    <3>2. CASE AnotarTamanio
      <4>1. [metadata[a] EXCEPT !.tamanio = op.tamanio] \in Metadatos
        BY <1>2, <1>4 DEF Metadatos
      <4>2. op.pc # "anotarPrimero"
        BY <3>2 DEF AnotarTamanio
      <4>3. QED BY <3>2, <4>1, <4>2 DEF AnotarTamanio, AnotarPrimero
    <3>3. QED BY <1>6, <3>1, <3>2
  <2>2. metadata' \in [Archivos -> Metadatos \cup {NULL}] /\ metadata'[a] = m
    BY <1>1, <1>2, <2>1, AnotarTipo
  <2>3. m # NULL
    BY <1>4
  <2>4. CASE AnotarPrimero
    <3>1. op' = [op EXCEPT !.pc = "comparar"] /\ m.bloque # -1
      BY <1>4, <2>1, <2>4 DEF AnotarPrimero
    <3>2. op' \in Operaciones /\ op'.pc = "comparar" /\ op'.archivo = a
      BY <1>2, <3>1 DEF Operaciones, Pcs, PcsTruncar
    <3>3. QED BY <1>1, <1>2, <2>2, <2>3, <3>1, <3>2
          DEF TipoInv, DialFSTypeOK, Avance, PcsReubicar
  <2>5. CASE AnotarTamanio
    BY <1>1, <1>3, <2>2, <2>5
       DEF AnotarTamanio, TipoInv, DialFSTypeOK, Avance, PcsReubicar
  <2>6. QED BY <1>6, <2>4, <2>5
<1>7. CASE AnotarDestino \/ AnotarBytes
  <2> DEFINE a == op.mueve
  <2>1. op.pc \in PcsReubicar /\ op.pc \in {"anotarDestino", "anotarBytes"}
    BY <1>7 DEF AnotarDestino, AnotarBytes, PcsReubicar
  <2>2. /\ a \in Archivos /\ metadata[a] # NULL /\ metadata[a] \in Metadatos
        /\ metadata[op.archivo].bloque # -1 /\ op.pendientes \subseteq Existentes
    BY <1>1, <2>1 DEF TipoInv, DialFSTypeOK, Avance
  <2>3. PICK m \in Metadatos :
          Anotar(a, m) /\ (m.bloque = op.destino \/ m.bloque = metadata[a].bloque)
    <3>1. CASE AnotarDestino
      <4>1. [metadata[a] EXCEPT !.bloque = op.destino] \in Metadatos
        BY <1>4, <2>2 DEF Metadatos
      <4>2. [metadata[a] EXCEPT !.bloque = op.destino].bloque = op.destino
        BY <2>2 DEF Metadatos
      <4>3. QED BY <3>1, <4>1, <4>2 DEF AnotarDestino
    <3>2. CASE AnotarBytes
      <4>1. [metadata[a] EXCEPT !.tamanio = op.bytes] \in Metadatos
        BY <1>4, <2>2 DEF Metadatos
      <4>2. [metadata[a] EXCEPT !.tamanio = op.bytes].bloque = metadata[a].bloque
        BY <2>2 DEF Metadatos
      <4>3. QED BY <3>2, <4>1, <4>2 DEF AnotarBytes
    <3>3. QED BY <1>7, <3>1, <3>2
  <2>4. /\ metadata' \in [Archivos -> Metadatos \cup {NULL}] /\ metadata'[a] = m
        /\ \A g \in Archivos : g # a => metadata'[g] = metadata[g]
    BY <1>1, <2>2, <2>3, AnotarTipo
  <2>5. m # NULL
    BY <1>4
  <2>6. Existentes' = Existentes
    BY <2>2, <2>4, <2>5 DEF Existentes
  <2>7. metadata'[op.archivo].bloque # -1
    BY <1>2, <1>4, <2>2, <2>3, <2>4
  <2>8. metadata'[op.archivo] # NULL
    BY <1>2, <2>4, <2>5
  <2>9. /\ op' \in Operaciones /\ op'.archivo = op.archivo /\ op'.mueve = op.mueve
        /\ op'.pendientes = op.pendientes /\ op'.pc \in {"ocupar", "compactar"}
    <3>1. PICK pc \in {"ocupar", "compactar"} : op' = [op EXCEPT !.pc = pc]
      BY <1>7 DEF AnotarDestino, AnotarBytes
    <3>2. op' \in Operaciones
      BY <1>2, <3>1 DEF Operaciones, Pcs, PcsReubicar
    <3>3. QED BY <1>2, <3>1, <3>2 DEF Operaciones
  <2>10. QED BY <1>1, <1>2, <2>2, <2>4, <2>5, <2>6, <2>7, <2>8, <2>9
         DEF TipoInv, DialFSTypeOK, Avance, PcsReubicar
<1>8. QED BY <1>5, <1>6, <1>7

\* The steps of a relocation and of a compaction that write the bitmap, or nothing.
LEMMA TipoCompactacion ==
    ASSUME TipoInv, Soltar \/ Ocupar \/ Compactar \/ TrasCompactar
    PROVE  TipoInv'
<1>1. /\ DialFSTypeOK /\ op.pc # "libre" /\ UNCHANGED <<metadata, reubico>>
      /\ bitmap \in SUBSET Nat /\ op.pc \in {"compactar"} \cup PcsReubicar
  BY Zenon DEF TipoInv, DialFSTypeOK, Soltar, Ocupar, Compactar, TrasCompactar,
     CompactacionLista, PcsReubicar
<1>2. /\ op \in Operaciones /\ op.archivo \in Archivos /\ metadata[op.archivo] # NULL
      /\ metadata[op.archivo].bloque \in Nat /\ Usados \in Nat /\ Siguiente \in Nat
      /\ op.pendientes \subseteq Existentes
  BY <1>1, DelPedido DEF TipoInv, Avance
<1>3. op.destino \in Nat /\ op.bytes \in Nat /\ op.falta \in Nat /\ op.newPosition \in Nat
  BY <1>2 DEF Operaciones
<1>4. Existentes' = Existentes
  BY <1>1 DEF Existentes
<1>5. CASE Soltar \/ Ocupar
  <2>1. /\ op'.archivo = op.archivo /\ op'.mueve = op.mueve /\ op'.pendientes = op.pendientes
        /\ op'.pc \in {"anotarDestino", "anotarBytes"} /\ op' \in Operaciones
    BY <1>2, <1>5 DEF Soltar, Ocupar, Operaciones, Pcs, PcsReubicar
  <2>2. bitmap' \in SUBSET Nat
    <3>1. CASE Soltar
      BY <1>1, <3>1 DEF Soltar
    <3>2. CASE Ocupar
      <4>1. BlocksPerBits(op.bytes) \in Nat
        BY <1>3, BlocksNat
      <4>2. Rango(op.destino, BlocksPerBits(op.bytes)) \in SUBSET Nat
        BY <1>3, <4>1 DEF Rango
      <4>3. QED BY <1>1, <3>2, <4>2 DEF Ocupar
    <3>3. QED BY <1>5, <3>1, <3>2
  <2>3. op.mueve \in Archivos /\ metadata[op.mueve] # NULL
    BY <1>1, <1>5 DEF DialFSTypeOK, Soltar, Ocupar, PcsReubicar
  <2>4. QED BY <1>1, <1>2, <1>4, <2>1, <2>2, <2>3
        DEF TipoInv, DialFSTypeOK, Avance, PcsReubicar
<1>6. CASE Compactar
  <2>1. PICK f \in op.pendientes :
          \/ op' = [op EXCEPT !.pendientes = @ \ {f}, !.newPosition = @ + UsedBlocks(f)]
          \/ op' = [op EXCEPT !.pc = "soltar", !.mueve = f, !.destino = op.newPosition,
                              !.bytes = metadata[f].tamanio, !.pendientes = @ \ {f},
                              !.newPosition = @ + UsedBlocks(f)]
    BY <1>6, Zenon DEF Compactar
  <2>2. f \in Archivos /\ metadata[f] # NULL
    BY <1>2 DEF Existentes
  <2>3. metadata[f].tamanio \in Nat /\ op.newPosition + UsedBlocks(f) \in Nat
    <3>1. metadata[f].tamanio \in Nat
      BY <1>1, <2>2, ExtensionNat
    <3>2. UsedBlocks(f) \in Nat
      BY <3>1, BlocksNat DEF UsedBlocks
    <3>3. QED BY <1>3, <3>1, <3>2
  <2>4. op.pc = "compactar" /\ UNCHANGED bitmap
    BY <1>6, Zenon DEF Compactar
  <2>5. /\ op' \in Operaciones /\ op'.archivo = op.archivo
        /\ op'.pendientes \subseteq Existentes
        /\ op'.pc = "compactar" \/ (op'.pc = "soltar" /\ op'.mueve = f)
    <3> DEFINE np == op.newPosition + UsedBlocks(f)
               resto == op.pendientes \ {f}
               tam == metadata[f].tamanio
    <3>1. np \in Nat /\ tam \in Nat /\ resto \in SUBSET Archivos /\ resto \subseteq Existentes
      BY <1>2, <2>3 DEF Existentes
    <3>2. \/ op' = [op EXCEPT !.pendientes = resto, !.newPosition = np]
          \/ op' = [op EXCEPT !.pc = "soltar", !.mueve = f, !.destino = op.newPosition,
                              !.bytes = tam, !.pendientes = resto, !.newPosition = np]
      BY <2>1
    <3> HIDE DEF np, resto, tam
    <3>3. CASE op' = [op EXCEPT !.pendientes = resto, !.newPosition = np]
      BY <1>2, <2>4, <3>1, <3>3 DEF Operaciones
    <3>4. CASE op' = [op EXCEPT !.pc = "soltar", !.mueve = f, !.destino = op.newPosition,
                                !.bytes = tam, !.pendientes = resto, !.newPosition = np]
      <4>1. op' \in Operaciones
        BY <1>2, <1>3, <2>2, <3>1, <3>4 DEF Operaciones, Pcs, PcsReubicar
      <4>2. /\ op'.archivo = op.archivo /\ op'.pendientes = resto
            /\ op'.pc = "soltar" /\ op'.mueve = f
        BY <1>2, <3>4 DEF Operaciones
      <4>3. QED BY <3>1, <4>1, <4>2
    <3>5. QED BY <3>2, <3>3, <3>4
  <2>6. QED BY <1>1, <1>2, <1>4, <2>2, <2>4, <2>5
        DEF TipoInv, DialFSTypeOK, Avance, PcsReubicar
<1>7. CASE TrasCompactar
  <2>1. Rango(metadata[op.archivo].bloque, Usados + op.falta) \in SUBSET Nat
    BY <1>2, <1>3 DEF Rango
  <2>2. bitmap' \in SUBSET Nat /\ op' = Libre
    <3>1. \/ bitmap' = bitmap \cup Rango(metadata[op.archivo].bloque, Usados + op.falta)
          \/ bitmap' = bitmap
      BY <1>7 DEF TrasCompactar
    <3>2. op' = Libre
      BY <1>7 DEF TrasCompactar
    <3>3. QED BY <1>1, <2>1, <3>1, <3>2
  <2>3. Libre \in Operaciones /\ Libre.pc = "libre"
    BY DEF Libre, Operaciones, Pcs
  <2>4. QED BY <1>1, <2>2, <2>3 DEF TipoInv, DialFSTypeOK, Avance, PcsReubicar
<1>8. QED BY <1>5, <1>6, <1>7

LEMMA TipoInicial == DialFSInit => TipoInv
<1>1. Libre \in Operaciones /\ Libre.pc = "libre"
  BY DEF Libre, Operaciones, Pcs
<1>2. QED BY <1>1 DEF DialFSInit, TipoInv, DialFSTypeOK, Avance, PcsReubicar

LEMMA TipoPaso == TipoInv /\ [DialFSNext]_dialfsVars => TipoInv'
<1> SUFFICES ASSUME TipoInv, [DialFSNext]_dialfsVars
             PROVE  TipoInv'
  OBVIOUS
<1>1. CASE Seguir
  BY <1>1, TipoMapa, TipoMetadatos, TipoCompactacion DEF Seguir
<1>2. ASSUME NEW f \in Archivos, FsCreate(f) \/ FsDelete(f)
      PROVE  TipoInv'
  BY <1>2, TipoPedidos
<1>3. ASSUME NEW f \in Archivos, NEW s \in Tamanios, FsTruncate(f, s)
      PROVE  TipoInv'
  BY <1>3, TipoPedidos
<1>4. CASE UNCHANGED dialfsVars
  BY <1>4 DEF dialfsVars, TipoInv, DialFSTypeOK, Avance, Existentes
<1>5. QED BY <1>1, <1>2, <1>3, <1>4 DEF DialFSNext

\* Every number that the interface computes for the disk is a natural, and the file of
\* the request in course, or the one that is relocated, has its metadata file: get_fcb
\* finds it.
THEOREM LosArchivosEstanEnTipo == DialFSSpec => []DialFSTypeOK
<1>1. DialFSInit => TipoInv
  BY TipoInicial
<1>2. TipoInv /\ [DialFSNext]_dialfsVars => TipoInv'
  BY TipoPaso
<1>3. TipoInv => DialFSTypeOK
  BY DEF TipoInv
<1>4. QED BY <1>1, <1>2, <1>3, PTL DEF DialFSSpec

-------------------------------------------------------------------------------
(* The bitmap. *)

\* The blocks that the bitmap has for a file: those of its metadata, but for the file of
\* the request in course between its write to bitmap.dat and the one to its metadata.
Marcas ==
    [f \in Archivos |->
       IF f # op.archivo THEN Extension(f)
       ELSE CASE op.pc = "quitar" -> {}
              [] op.pc = "anotarPrimero" -> {op.destino}
              [] op.pc = "anotarTamanio" -> Rango(metadata[f].bloque, Pedidos)
              [] OTHER -> Extension(f)]

\* A is the union of the sets M[f], and no two of them meet.
SeReparte(A, M) ==
    /\ A = UNION {M[f] : f \in Archivos}
    /\ \A f, g \in Archivos : f # g => M[f] \cap M[g] = {}

\* The part of one file changes, for blocks that no other file has.
LEMMA CambiaUno ==
    ASSUME NEW A, NEW B, NEW M, NEW N, NEW a \in Archivos,
           SeReparte(A, M),
           \A g \in Archivos : g # a => N[g] = M[g] /\ N[a] \cap M[g] = {},
           B = (A \ M[a]) \cup N[a]
    PROVE  SeReparte(B, N)
<1>1. \A f, g \in Archivos : f # g => N[f] \cap N[g] = {}
  BY DEF SeReparte
<1>2. ASSUME NEW i \in B
      PROVE  \E f \in Archivos : i \in N[f]
  BY <1>2 DEF SeReparte
<1>3. ASSUME NEW f \in Archivos, NEW i \in N[f]
      PROVE  i \in B
  <2>1. CASE f = a
    BY <1>3, <2>1
  <2>2. CASE f # a
    <3>1. i \in M[f] /\ i \notin M[a] /\ i \in A
      BY <1>3, <2>2 DEF SeReparte
    <3>2. QED BY <3>1
  <2>3. QED BY <2>1, <2>2
<1>4. B = UNION {N[f] : f \in Archivos}
  BY <1>2, <1>3
<1>5. QED BY <1>1, <1>4 DEF SeReparte

\* Nothing has been relocated: a file with no block has no byte, and the bitmap is what
\* the files, and the request in course, make of it.
Reparto ==
    /\ op.pc \in {"libre", "quitar"} \cup PcsTruncar
    /\ \A f \in Existentes : metadata[f].bloque = -1 => metadata[f].tamanio = 0
    /\ op.pc \in {"ubicar", "anotarPrimero"} => metadata[op.archivo].bloque = -1
    /\ SeReparte(bitmap, Marcas)

RepartoInv == ~reubico => Reparto

\* The requests.
LEMMA RepartoPedidos ==
    ASSUME TipoInv, Reparto, NEW f \in Archivos, op.pc = "libre",
           FsCreate(f) \/ FsDelete(f) \/ \E s \in Tamanios : FsTruncate(f, s)
    PROVE  Reparto'
<1>1. Marcas = [g \in Archivos |-> Extension(g)]
  BY DEF Marcas
<1>2. /\ SeReparte(bitmap, Marcas) /\ DialFSTypeOK
      /\ \A g \in Existentes : metadata[g].bloque = -1 => metadata[g].tamanio = 0
  BY DEF Reparto, TipoInv
<1>3. CASE FsCreate(f)
  <2>1. /\ metadata[f] = NULL /\ UNCHANGED <<bitmap, op>>
        /\ Anotar(f, [bloque |-> -1, tamanio |-> 0])
    BY <1>3 DEF FsCreate
  <2>2. [bloque |-> -1, tamanio |-> 0] \in Metadatos
    BY DEF Metadatos
  <2>3. /\ metadata'[f] = [bloque |-> -1, tamanio |-> 0]
        /\ \A g \in Archivos : g # f => metadata'[g] = metadata[g]
    BY <1>2, <2>1, <2>2, AnotarTipo
  <2>4. \A g \in Archivos : Extension(g)' = Extension(g)
    BY <2>1, <2>3 DEF Extension, ConBloques, UsedBlocks
  <2>5. Marcas' = Marcas
    BY <1>1, <2>1, <2>4 DEF Marcas
  <2>6. \A g \in Existentes' : metadata'[g].bloque = -1 => metadata'[g].tamanio = 0
    BY <1>2, <2>3 DEF Existentes
  <2>7. QED BY <1>2, <2>1, <2>5, <2>6 DEF Reparto
<1>4. CASE FsDelete(f)
  <2>1. /\ bitmap' = bitmap \ Extension(f) /\ UNCHANGED metadata
        /\ op'.pc = "quitar" /\ op'.archivo = f
    BY <1>4 DEF FsDelete, Libre
  <2>2. \A g \in Archivos : Extension(g)' = Extension(g)
    BY <2>1 DEF Extension, ConBloques, UsedBlocks
  <2>3. Marcas'[f] = {} /\ \A g \in Archivos : g # f => Marcas'[g] = Marcas[g]
    BY <1>1, <2>1, <2>2 DEF Marcas
  <2>4. SeReparte(bitmap', Marcas')
    BY <1>1, <1>2, <2>1, <2>3, CambiaUno
  <2>5. SeReparte(bitmap, Marcas)'
    BY <2>4 DEF SeReparte
  <2>6. Existentes' = Existentes
    BY <2>1 DEF Existentes
  <2>7. QED BY <1>2, <2>1, <2>5, <2>6 DEF Reparto
<1>5. ASSUME NEW s \in Tamanios, FsTruncate(f, s)
      PROVE  Reparto'
  <2>1. /\ UNCHANGED <<bitmap, metadata>>
        /\ op'.pc \in {"ubicar", "comparar"} /\ op'.archivo = f
        /\ op'.pc = "ubicar" => metadata[f].bloque = -1
    BY <1>5 DEF FsTruncate, Libre
  <2>2. \A g \in Archivos : Extension(g)' = Extension(g)
    BY <2>1 DEF Extension, ConBloques, UsedBlocks
  <2>3. Marcas' = Marcas
    BY <1>1, <2>1, <2>2 DEF Marcas
  <2>4. Existentes' = Existentes
    BY <2>1 DEF Existentes
  <2>5. QED BY <1>2, <2>1, <2>3, <2>4 DEF Reparto, PcsTruncar
<1>6. QED BY <1>3, <1>4, <1>5

\* An extent is its first blocks and the others.
LEMMA DosRangos ==
    ASSUME NEW n \in Nat, NEW p \in Nat, NEW u \in Nat, p <= u
    PROVE  /\ Rango(n, u) = Rango(n, p) \cup Rango(n + p, u - p)
           /\ Rango(n, p) \cap Rango(n + p, u - p) = {}
<1>1. Rango(n, u) \subseteq Int /\ Rango(n, p) \subseteq Int /\ Rango(n + p, u - p) \subseteq Int
  BY DEF Rango
<1>2. ASSUME NEW i \in Int
      PROVE  /\ i \in Rango(n, u) <=> i \in Rango(n, p) \/ i \in Rango(n + p, u - p)
             /\ ~(i \in Rango(n, p) /\ i \in Rango(n + p, u - p))
  BY DEF Rango
<1>3. QED BY <1>1, <1>2

\* The steps that write the bitmap.
LEMMA RepartoMapa ==
    ASSUME TipoInv, Reparto, UbicarPrimero \/ Sumar \/ Sacar
    PROVE  Reparto'
<1>0. PICK a \in Archivos : a = op.archivo
  BY DelPedido DEF UbicarPrimero, Sumar, Sacar
<1>1. /\ op.pc \in {"ubicar", "comparar"} /\ op'.pc \in {"anotarPrimero", "anotarTamanio"}
      /\ op'.archivo = a /\ op'.tamanio = op.tamanio /\ UNCHANGED <<metadata, reubico>>
      /\ op'.pc = "anotarPrimero" => UbicarPrimero
  <2>1. op \in Operaciones
    BY DEF TipoInv, DialFSTypeOK
  <2>2. QED BY <1>0, <2>1 DEF UbicarPrimero, Sumar, Sacar, Operaciones
<1>2. /\ a \in Archivos /\ metadata[a] \in Metadatos /\ metadata[a] # NULL /\ op \in Operaciones
      /\ Usados \in Nat /\ Pedidos \in Nat /\ SeReparte(bitmap, Marcas)
      /\ op.pc = "comparar" => /\ metadata[a].bloque \in Nat
                               /\ Extension(a) = Rango(metadata[a].bloque, Usados)
  BY <1>0, <1>1, DelPedido DEF Reparto
<1>3. \A g \in Archivos : Extension(g)' = Extension(g)
  BY <1>1 DEF Extension, ConBloques, UsedBlocks
<1>4. \A g \in Archivos : Marcas[g] = Extension(g) /\ (g # a => Marcas'[g] = Marcas[g])
  BY <1>0, <1>1, <1>3 DEF Marcas
<1>5. \A g \in Archivos : Marcas[g] \subseteq bitmap
  BY <1>2 DEF SeReparte
<1>6. /\ bitmap' = (bitmap \ Marcas[a]) \cup Marcas'[a]
      /\ \A g \in Archivos : g # a => Marcas'[a] \cap Marcas[g] = {}
  <2>1. CASE UbicarPrimero
    <3>1. PICK b \in 0 .. BLOCK_COUNT - 1 :
            /\ b \notin bitmap /\ bitmap' = bitmap \cup {b}
            /\ op' = [op EXCEPT !.pc = "anotarPrimero", !.destino = b]
      BY <2>1 DEF UbicarPrimero, EsPrimerLibre
    <3>2. op'.pc = "anotarPrimero" /\ op'.destino = b
      BY <1>2, <3>1 DEF Operaciones
    <3>3. Marcas'[a] = {b}
      BY <1>0, <1>1, <1>2, <3>2 DEF Marcas
    <3>4. Marcas[a] = {}
      BY <1>0, <1>2, <1>4, <2>1 DEF UbicarPrimero, Reparto, Extension, ConBloques
    <3>5. QED BY <1>5, <3>1, <3>3, <3>4
  <2>2. CASE Sumar \/ Sacar
    <3> DEFINE n == metadata[a].bloque
    <3>1. /\ op.pc = "comparar" /\ op'.pc = "anotarTamanio"
          /\ n \in Nat /\ Marcas[a] = Rango(n, Usados) /\ Siguiente = n + Usados
      BY <1>0, <1>2, <1>4, <2>2 DEF Sumar, Sacar, Siguiente, Operaciones
    <3>2. Pedidos' = Pedidos /\ metadata'[a].bloque = n
      BY <1>1 DEF Pedidos, BlocksPerBits
    <3>3. Marcas'[a] = Rango(n, Pedidos)
      BY <1>1, <1>2, <3>1, <3>2 DEF Marcas, Rango
    <3>4. CASE Sumar
      <4>1. /\ Usados <= Pedidos /\ \A i \in Rango(n + Usados, Pedidos - Usados) : i \notin bitmap
            /\ bitmap' = bitmap \cup Rango(n + Usados, Pedidos - Usados)
        BY <3>1, <3>4 DEF Sumar, NextBlocksAvaiable
      <4>2. Rango(n, Pedidos) = Rango(n, Usados) \cup Rango(n + Usados, Pedidos - Usados)
        BY <1>2, <3>1, <4>1, DosRangos
      <4>3. \A g \in Archivos : g # a => Marcas[a] \cap Marcas[g] = {}
        BY <1>2 DEF SeReparte
      <4>4. QED BY <1>2, <1>5, <3>1, <3>3, <4>1, <4>2, <4>3
    <3>5. CASE Sacar
      <4>1. /\ Pedidos < Usados /\ bitmap' = bitmap \ Rango(n + Pedidos, Usados - Pedidos)
        BY <1>0, <1>2, <3>5 DEF Sacar
      <4>2. /\ Rango(n, Usados) = Rango(n, Pedidos) \cup Rango(n + Pedidos, Usados - Pedidos)
            /\ Rango(n, Pedidos) \cap Rango(n + Pedidos, Usados - Pedidos) = {}
        BY <1>2, <3>1, <4>1, DosRangos
      <4>3. \A g \in Archivos : g # a => Marcas[a] \cap Marcas[g] = {}
        BY <1>2 DEF SeReparte
      <4>4. QED BY <1>2, <1>5, <3>1, <3>3, <4>1, <4>2, <4>3
    <3>6. QED BY <2>2, <3>4, <3>5
  <2>3. QED BY <2>1, <2>2
<1>7. SeReparte(bitmap', Marcas')
  BY <1>2, <1>4, <1>6, CambiaUno
<1>8. SeReparte(bitmap, Marcas)'
  BY <1>7 DEF SeReparte
<1>9. op'.pc \in {"ubicar", "anotarPrimero"} => metadata'[op'.archivo].bloque = -1
  BY <1>0, <1>1 DEF UbicarPrimero, Reparto
<1>10. Existentes' = Existentes
  BY <1>1 DEF Existentes
<1>11. \A g \in Existentes' : metadata'[g].bloque = -1 => metadata'[g].tamanio = 0
  BY <1>1, <1>10 DEF Reparto
<1>12. QED BY <1>1, <1>8, <1>9, <1>11 DEF Reparto, PcsTruncar

\* The steps that write a metadata file, or nothing: the marks stay as they are.
LEMMA RepartoMetadatos ==
    ASSUME TipoInv, Reparto,
           QuitarMetadata \/ AnotarPrimero \/ AnotarTamanio \/ SinPrimero \/ SinHueco
    PROVE  Reparto'
<1>0. PICK a \in Archivos : a = op.archivo
  BY DelPedido DEF QuitarMetadata, AnotarPrimero, AnotarTamanio, SinPrimero, SinHueco, NoSigue
<1>1. op.pc # "libre" /\ DialFSTypeOK /\ UNCHANGED bitmap
  BY DEF TipoInv, QuitarMetadata, AnotarPrimero, AnotarTamanio, SinPrimero, SinHueco, NoSigue
<1>2. /\ a \in Archivos /\ metadata[a] \in Metadatos /\ metadata[a] # NULL /\ op \in Operaciones
      /\ op.pc = "anotarTamanio" => metadata[a].bloque \in Nat
  BY <1>0, <1>1, DelPedido
<1>3. \A g \in Existentes : metadata[g].bloque = -1 => metadata[g].tamanio = 0
  BY DEF Reparto
<1>4. NULL \notin Metadatos /\ op.destino \in Nat /\ op.tamanio \in Nat
  <2>1. op.destino \in Nat /\ op.tamanio \in Nat
    BY <1>2 DEF Operaciones
  <2>2. \A m \in Metadatos : m \in [bloque : Int, tamanio : Nat]
    BY DEF Metadatos
  <2>3. QED BY <2>1, <2>2, ConstantesDeDialFS
<1>5. /\ op'.pc \in {"libre", "comparar"}
      /\ \A g \in Archivos : g # a => metadata'[g] = metadata[g]
      /\ \A g \in Existentes' : metadata'[g].bloque = -1 => metadata'[g].tamanio = 0
      /\ Extension(a)' = Marcas[a]
  <2>1. CASE SinPrimero \/ SinHueco
    <3>1. UNCHANGED metadata /\ op'.pc = "libre"
      BY <2>1 DEF SinPrimero, SinHueco, Libre
    <3>2. op.pc \in {"ubicar", "comparar"}
      BY <2>1 DEF SinPrimero, SinHueco, NoSigue
    <3>3. Marcas[a] = Extension(a) /\ Extension(a)' = Extension(a)
      BY <1>0, <1>2, <3>1, <3>2 DEF Marcas, Extension, ConBloques, UsedBlocks
    <3>4. QED BY <1>3, <3>1, <3>3 DEF Existentes
  <2>2. CASE QuitarMetadata
    <3>1. op.pc = "quitar" /\ op'.pc = "libre" /\ Anotar(a, NULL)
      BY <1>0, <2>2 DEF QuitarMetadata, Libre
    <3>2. metadata'[a] = NULL /\ \A g \in Archivos : g # a => metadata'[g] = metadata[g]
      BY <1>1, <1>2, <3>1, AnotarTipo
    <3>3. Marcas[a] = {} /\ Extension(a)' = {}
      BY <1>0, <1>2, <3>1, <3>2 DEF Marcas, Extension, ConBloques
    <3>4. QED BY <1>3, <3>1, <3>2, <3>3 DEF Existentes
  <2>3. CASE AnotarPrimero
    <3> DEFINE m == [metadata[a] EXCEPT !.bloque = op.destino]
    <3>1. op.pc = "anotarPrimero" /\ Anotar(a, m) /\ op'.pc = "comparar"
      BY <1>0, <1>2, <2>3 DEF AnotarPrimero, Operaciones
    <3>2. m \in Metadatos /\ m.bloque = op.destino /\ m.tamanio = metadata[a].tamanio
      BY <1>2, <1>4 DEF Metadatos
    <3>3. metadata'[a] = m /\ \A g \in Archivos : g # a => metadata'[g] = metadata[g]
      BY <1>1, <1>2, <3>1, <3>2, AnotarTipo
    <3>4. metadata[a].tamanio = 0
      BY <1>0, <1>2, <1>3, <3>1 DEF Reparto, Existentes
    <3>5. Extension(a)' = Rango(op.destino, 1)
      BY <1>4, <3>2, <3>3, <3>4 DEF Extension, ConBloques, UsedBlocks, BlocksPerBits
    <3>6. Rango(op.destino, 1) = {op.destino}
      BY <1>4 DEF Rango
    <3>7. Marcas[a] = {op.destino}
      BY <1>0, <1>2, <3>1 DEF Marcas
    <3>8. m.bloque # -1
      BY <1>4, <3>2
    <3>9. QED BY <1>3, <3>1, <3>3, <3>5, <3>6, <3>7, <3>8 DEF Existentes
  <2>4. CASE AnotarTamanio
    <3> DEFINE m == [metadata[a] EXCEPT !.tamanio = op.tamanio]
    <3>1. op.pc = "anotarTamanio" /\ Anotar(a, m) /\ op'.pc = "libre"
      BY <1>0, <2>4 DEF AnotarTamanio, Libre
    <3>2. m \in Metadatos /\ m.bloque = metadata[a].bloque /\ m.tamanio = op.tamanio
      BY <1>2, <1>4 DEF Metadatos
    <3>3. metadata'[a] = m /\ \A g \in Archivos : g # a => metadata'[g] = metadata[g]
      BY <1>1, <1>2, <3>1, <3>2, AnotarTipo
    <3>4. m.bloque # -1
      BY <1>2, <3>1, <3>2
    <3>5. Extension(a)' = Rango(metadata[a].bloque, Pedidos)
      BY <1>4, <3>2, <3>3, <3>4 DEF Extension, ConBloques, UsedBlocks, BlocksPerBits, Pedidos
    <3>6. Marcas[a] = Rango(metadata[a].bloque, Pedidos)
      BY <1>0, <1>2, <3>1 DEF Marcas
    <3>7. QED BY <1>3, <3>1, <3>3, <3>4, <3>5, <3>6 DEF Existentes
  <2>5. QED BY <2>1, <2>2, <2>3, <2>4
<1>6. \A g \in Archivos : g # a => Extension(g)' = Extension(g)
  BY <1>5 DEF Extension, ConBloques, UsedBlocks
<1>7. Marcas' = [g \in Archivos |-> Extension(g)']
  BY <1>5 DEF Marcas
<1>8. \A g \in Archivos : Extension(g)' = Marcas[g]
  BY <1>0, <1>5, <1>6 DEF Marcas
<1>9. Marcas' = Marcas
  BY <1>7, <1>8 DEF Marcas
<1>10. QED BY <1>1, <1>5, <1>9 DEF Reparto, PcsTruncar, SeReparte

LEMMA RepartoPaso == TipoInv /\ RepartoInv /\ [DialFSNext]_dialfsVars => RepartoInv'
<1> SUFFICES ASSUME TipoInv, RepartoInv, [DialFSNext]_dialfsVars, ~reubico'
             PROVE  Reparto'
  BY DEF RepartoInv
<1>1. ~reubico
  <2>1. CASE Seguir
    <3>1. ~HayQueCompactar
      BY Zenon DEF HayQueCompactar
    <3>2. Seguir => HayQueCompactar \/ UNCHANGED reubico
      BY Zenon DEF Seguir, QuitarMetadata, UbicarPrimero, SinPrimero, AnotarPrimero, Sumar, Sacar,
         AnotarTamanio, SinHueco, Soltar, AnotarDestino, Ocupar, AnotarBytes, Compactar,
         TrasCompactar
    <3>3. QED BY <2>1, <3>1, <3>2
  <2>2. ASSUME NEW f \in Archivos,
               FsCreate(f) \/ FsDelete(f) \/ \E s \in Tamanios : FsTruncate(f, s)
        PROVE  UNCHANGED reubico
    BY <2>2 DEF FsCreate, FsDelete, FsTruncate
  <2>3. CASE UNCHANGED dialfsVars
    BY <2>3 DEF dialfsVars
  <2>4. QED BY <2>1, <2>2, <2>3 DEF DialFSNext
<1>2. Reparto /\ op.pc \in {"libre", "quitar"} \cup PcsTruncar
  BY <1>1 DEF RepartoInv, Reparto
<1>3. CASE Seguir
  <2>1. ~HayQueCompactar
    BY DEF HayQueCompactar
  <2>2. ~(Soltar \/ AnotarDestino \/ Ocupar \/ AnotarBytes \/ Compactar \/ TrasCompactar)
    BY <1>2, Zenon DEF Soltar, AnotarDestino, Ocupar, AnotarBytes, Compactar, TrasCompactar,
       CompactacionLista, PcsTruncar
  <2>3. \/ UbicarPrimero \/ Sumar \/ Sacar
        \/ QuitarMetadata \/ AnotarPrimero \/ AnotarTamanio \/ SinPrimero \/ SinHueco
    BY <1>3, <2>1, <2>2, Zenon DEF Seguir
  <2>4. QED BY <1>2, <2>3, RepartoMapa, RepartoMetadatos
<1>4. ASSUME NEW f \in Archivos,
             FsCreate(f) \/ FsDelete(f) \/ \E s \in Tamanios : FsTruncate(f, s)
      PROVE  Reparto'
  <2>1. op.pc = "libre"
    BY <1>4 DEF FsCreate, FsDelete, FsTruncate
  <2>2. QED BY <1>2, <1>4, <2>1, RepartoPedidos
<1>5. CASE UNCHANGED dialfsVars
  <2>1. /\ bitmap' = bitmap /\ op' = op /\ metadata' = metadata
    BY <1>5 DEF dialfsVars
  <2>2. Marcas' = Marcas /\ Existentes' = Existentes
    BY <2>1 DEF Marcas, Existentes, Extension, ConBloques, UsedBlocks, Pedidos, BlocksPerBits
  <2>3. QED BY <1>2, <2>1, <2>2 DEF Reparto, SeReparte
<1>6. QED BY <1>3, <1>4, <1>5 DEF DialFSNext

\* Until a file is relocated, the bitmap between two requests is the union of the extents
\* of the files, no block of which is of two: create, delete and truncate lose no block
\* and share none, whatever the sizes and the files.
THEOREM ElMapaEsExacto == DialFSSpec => []MapaExacto
<1>1. DialFSInit => TipoInv /\ RepartoInv
  <2>1. SUFFICES ASSUME DialFSInit
                 PROVE  Reparto
    BY <2>1, TipoInicial DEF RepartoInv
  <2>2. /\ op.pc = "libre" /\ bitmap = {} /\ Existentes = {}
        /\ \A f \in Archivos : metadata[f] = NULL
    BY <2>1 DEF DialFSInit, Libre, Existentes
  <2>3. \A f \in Archivos : Marcas[f] = {}
    BY <2>2 DEF Marcas, Extension, ConBloques
  <2>4. SeReparte(bitmap, Marcas)
    BY <2>2, <2>3 DEF SeReparte
  <2>5. QED BY <2>2, <2>4 DEF Reparto
<1>2. TipoInv /\ RepartoInv /\ [DialFSNext]_dialfsVars => (TipoInv /\ RepartoInv)'
  BY TipoPaso, RepartoPaso
<1>3. TipoInv /\ RepartoInv => MapaExacto
  <2>1. SUFFICES ASSUME RepartoInv, op.pc = "libre", ~reubico
                 PROVE  bitmap = UNION {Extension(f) : f \in Archivos}
    BY DEF MapaExacto
  <2>2. bitmap = UNION {Marcas[f] : f \in Archivos}
    BY <2>1 DEF RepartoInv, Reparto, SeReparte
  <2>3. \A f \in Archivos : Marcas[f] = Extension(f)
    BY <2>1 DEF Marcas
  <2>4. QED BY <2>2, <2>3
<1>4. QED BY <1>1, <1>2, <1>3, PTL DEF DialFSSpec

-------------------------------------------------------------------------------
(* The whole disk, relocations and compactions included. *)

EnCompactacion == op.pc \in {"compactar"} \cup PcsReubicar

PorMover == {"soltar", "anotarDestino"}

\* Where a file is, or is going to be when its metadata is rewritten.
Sitio ==
    [f \in Archivos |->
       IF op.pc \in PorMover /\ f = op.mueve THEN Rango(op.destino, UsedBlocks(f))
       ELSE Extension(f)]

\* The blocks that no other file may have.
Reserva == [f \in Archivos |-> Extension(f) \cup Marcas[f] \cup Sitio[f]]

\* The blocks whose bits have to be 1: between soltar and ocupar, none of the file that
\* is moved.
Cubre ==
    [f \in Archivos |->
       IF op.pc \in PcsReubicar /\ f = op.mueve
         THEN CASE op.pc = "soltar" -> Extension(f)
                [] op.pc = "anotarBytes" -> Rango(metadata[f].bloque, BlocksPerBits(op.bytes))
                [] OTHER -> {}
       ELSE Marcas[f]]

VaciosSinBytes ==
    /\ \A f \in Existentes : metadata[f].bloque = -1 => metadata[f].tamanio = 0
    /\ op.pc \in {"ubicar", "anotarPrimero"} => metadata[op.archivo].bloque = -1

Separados == \A f, g \in Archivos : f # g => Reserva[f] \cap Reserva[g] = {}

Cubiertos == \A f \in Archivos : Cubre[f] \subseteq bitmap

\* The arguments of realocate.
Movido ==
    op.pc \in PcsReubicar
      => /\ BlocksPerBits(op.bytes) <= UsedBlocks(op.mueve)
         /\ op.pc \notin PorMover => metadata[op.mueve].bloque = op.destino
         /\ op.mueve \in op.pendientes => op.newPosition = 0
         /\ op.mueve \notin op.pendientes => op.bytes = metadata[op.mueve].tamanio

\* The files that compaction has reached fill the disk up to newPosition, and the
\* others are beyond.
Apilados ==
    EnCompactacion
      => /\ \A f \in op.pendientes :
              metadata[f].bloque # -1 => op.newPosition <= metadata[f].bloque
         /\ \A i \in Nat :
              i < op.newPosition <=> \E f \in Existentes \ op.pendientes : i \in Sitio[f]

Seguro == Separados /\ Cubiertos

DiscoInv == VaciosSinBytes /\ Seguro /\ Movido /\ Apilados

\* The file that the request in course has written in one place and not in the other.
EnCurso(f) ==
    \/ f = op.archivo /\ op.pc \in {"quitar", "anotarPrimero", "anotarTamanio"}
    \/ f = op.mueve /\ op.pc \in PcsReubicar

\* For another file all the sets are its extent.
LEMMA FueraDeCurso ==
    ASSUME NEW g \in Archivos
    PROVE  /\ ~EnCurso(g) => /\ Marcas[g] = Extension(g) /\ Sitio[g] = Extension(g)
                             /\ Reserva[g] = Extension(g) /\ Cubre[g] = Extension(g)
           /\ ~EnCurso(g)' => /\ Marcas'[g] = Extension(g)' /\ Sitio'[g] = Extension(g)'
                              /\ Reserva'[g] = Extension(g)' /\ Cubre'[g] = Extension(g)'
<1>1. ~EnCurso(g) => Marcas[g] = Extension(g) /\ Sitio[g] = Extension(g)
  BY DEF EnCurso, Marcas, Sitio, PorMover, PcsReubicar
<1>2. ~EnCurso(g)' => Marcas'[g] = Extension(g)' /\ Sitio'[g] = Extension(g)'
  BY DEF EnCurso, Marcas, Sitio, PorMover, PcsReubicar
<1>3. ~EnCurso(g) => Reserva[g] = Extension(g) /\ Cubre[g] = Extension(g)
  BY <1>1 DEF EnCurso, Reserva, Cubre
<1>4. ~EnCurso(g)' => Reserva'[g] = Extension(g)' /\ Cubre'[g] = Extension(g)'
  BY <1>2 DEF EnCurso, Reserva, Cubre
<1>5. QED BY <1>1, <1>2, <1>3, <1>4

LEMMA MismaExtension ==
    ASSUME NEW g \in Archivos, metadata'[g] = metadata[g]
    PROVE  Extension(g)' = Extension(g) /\ UsedBlocks(g)' = UsedBlocks(g)
BY DEF Extension, ConBloques, UsedBlocks

\* A file takes a block at least; and n blocks, counted as bytes, are n blocks at most.
LEMMA BlocksCota ==
    ASSUME NEW n \in Nat
    PROVE  BlocksPerBits(n) >= 1 /\ (n >= 1 => BlocksPerBits(n) <= n)
<1>1. CASE n = 0
  BY <1>1 DEF BlocksPerBits
<1>2. CASE n >= 1
  <2> DEFINE q == (n + BLOCK_SIZE - 1) \div BLOCK_SIZE
             r == (n + BLOCK_SIZE - 1) % BLOCK_SIZE
  <2>1. BLOCK_SIZE \in Nat \ {0}
    BY ConstantesDeDialFS
  <2>2. q \in Nat /\ r \in 0 .. BLOCK_SIZE - 1 /\ BlocksPerBits(n) = q
    BY <1>2, <2>1, BlocksNat DEF BlocksPerBits
  <2>3. n + BLOCK_SIZE - 1 = BLOCK_SIZE * q + r
    BY <2>1
  <2> HIDE DEF q, r
  <2>4. q # 0
    BY <1>2, <2>1, <2>2, <2>3
  <2>5. q <= n
    <3>1. SUFFICES ASSUME q >= n + 1
                   PROVE  FALSE
      BY <2>2
    <3>2. BLOCK_SIZE * q = BLOCK_SIZE * (q - 1) + BLOCK_SIZE
      BY <2>1, <2>2
    <3>3. BLOCK_SIZE * (q - 1) >= 1 * (q - 1)
      BY <2>1, <2>2, <3>1
    <3>4. BLOCK_SIZE * (q - 1) \in Nat
      BY <2>1, <2>2, <3>1
    <3>5. QED BY <2>1, <2>2, <2>3, <3>1, <3>2, <3>3, <3>4
  <2>6. QED BY <2>2, <2>4, <2>5
<1>3. QED BY <1>1, <1>2

\* The first blocks of an extent.
LEMMA RangoParte ==
    ASSUME NEW n \in Nat, NEW p \in Nat, NEW u \in Nat, p <= u
    PROVE  Rango(n, p) \subseteq Rango(n, u)
BY DosRangos

\* The metadata of the file that is relocated.
LEMMA DelMovido ==
    ASSUME TipoInv, op.pc \in PcsReubicar
    PROVE  /\ op.mueve \in Archivos /\ metadata[op.mueve] # NULL
           /\ metadata[op.mueve] \in Metadatos /\ metadata[op.mueve].bloque \in Nat \cup {-1}
           /\ metadata[op.mueve].tamanio \in Nat
           /\ UsedBlocks(op.mueve) \in Nat /\ op.destino \in Nat /\ op.bytes \in Nat
           /\ op.newPosition \in Nat /\ BlocksPerBits(op.bytes) \in Nat
           /\ metadata[op.mueve].bloque # -1
                => Extension(op.mueve) = Rango(metadata[op.mueve].bloque, UsedBlocks(op.mueve))
<1>1. op.mueve \in Archivos /\ metadata[op.mueve] # NULL /\ DialFSTypeOK /\ op \in Operaciones
  BY DEF TipoInv, DialFSTypeOK
<1>2. /\ metadata[op.mueve] \in Metadatos /\ metadata[op.mueve].bloque \in Nat \cup {-1}
      /\ metadata[op.mueve].tamanio \in Nat /\ UsedBlocks(op.mueve) \in Nat
  BY <1>1, ExtensionNat
<1>3. op.destino \in Nat /\ op.bytes \in Nat /\ op.newPosition \in Nat
  BY <1>1 DEF Operaciones
<1>4. BlocksPerBits(op.bytes) \in Nat
  BY <1>3, BlocksNat
<1>5. metadata[op.mueve].bloque # -1
        => Extension(op.mueve) = Rango(metadata[op.mueve].bloque, UsedBlocks(op.mueve))
  BY <1>1 DEF Extension, ConBloques
<1>6. QED BY <1>1, <1>2, <1>3, <1>4, <1>5

LEMMA CubreEnReserva ==
    ASSUME TipoInv, Movido, NEW f \in Archivos
    PROVE  Cubre[f] \subseteq Reserva[f]
<1>1. CASE op.pc \in PcsReubicar /\ f = op.mueve
  <2>1. CASE op.pc = "anotarBytes"
    <3>1. /\ BlocksPerBits(op.bytes) <= UsedBlocks(f)
          /\ metadata[f].bloque = op.destino
      BY <1>1, <2>1 DEF Movido, PorMover
    <3>2. /\ UsedBlocks(f) \in Nat /\ op.destino \in Nat /\ BlocksPerBits(op.bytes) \in Nat
          /\ metadata[f].bloque # -1
               => Extension(f) = Rango(metadata[f].bloque, UsedBlocks(f))
      BY <1>1, DelMovido
    <3>3. Rango(op.destino, BlocksPerBits(op.bytes)) \subseteq Extension(f)
      BY <3>1, <3>2, RangoParte
    <3>4. Cubre[f] = Rango(op.destino, BlocksPerBits(op.bytes))
      BY <1>1, <2>1, <3>1 DEF Cubre
    <3>5. QED BY <3>3, <3>4 DEF Reserva
  <2>2. CASE op.pc # "anotarBytes"
    BY <1>1, <2>2 DEF Cubre, Reserva
  <2>3. QED BY <2>1, <2>2
<1>2. CASE ~(op.pc \in PcsReubicar /\ f = op.mueve)
  BY <1>2 DEF Cubre, Reserva
<1>3. QED BY <1>1, <1>2

\* What a step has to do with the one file it is about.
LEMMA PasoSeguro ==
    ASSUME TipoInv, Movido, Seguro, NEW a \in Archivos,
           \A g \in Archivos : g # a => /\ metadata'[g] = metadata[g]
                                        /\ ~EnCurso(g) /\ ~EnCurso(g)',
           \A g \in Archivos, i \in Reserva'[a] :
             g # a => i \in Reserva[a] \/ i \notin Extension(g),
           bitmap \ Reserva[a] \subseteq bitmap',
           Cubre'[a] \subseteq bitmap'
    PROVE  Seguro'
<1>1. \A g \in Archivos :
        g # a => /\ Reserva[g] = Extension(g) /\ Cubre[g] = Extension(g)
                 /\ Reserva'[g] = Extension(g) /\ Cubre'[g] = Extension(g)
  <2>1. SUFFICES ASSUME NEW g \in Archivos, g # a
                 PROVE  /\ Reserva[g] = Extension(g) /\ Cubre[g] = Extension(g)
                        /\ Reserva'[g] = Extension(g) /\ Cubre'[g] = Extension(g)
    OBVIOUS
  <2>2. Extension(g)' = Extension(g)
    BY <2>1, MismaExtension
  <2>3. QED BY <2>1, <2>2, FueraDeCurso
<1>2. /\ \A f, g \in Archivos : f # g => Reserva[f] \cap Reserva[g] = {}
      /\ \A f \in Archivos : Cubre[f] \subseteq bitmap
  BY DEF Seguro, Separados, Cubiertos
<1>3. \A g \in Archivos : g # a => Reserva'[a] \cap Reserva'[g] = {}
  BY <1>1, <1>2
<1>4. \A f, g \in Archivos : f # g => Reserva'[f] \cap Reserva'[g] = {}
  BY <1>1, <1>2, <1>3
<1>5. \A f \in Archivos : Cubre'[f] \subseteq bitmap'
  <2>1. \A g \in Archivos : g # a => Cubre[g] \cap Reserva[a] = {}
    BY <1>1, <1>2
  <2>2. QED BY <1>1, <1>2, <2>1
<1>6. QED BY <1>4, <1>5 DEF Seguro, Separados, Cubiertos

\* The requests.
LEMMA SeguroPedidos ==
    ASSUME TipoInv, DiscoInv, NEW a \in Archivos, op.pc = "libre",
           FsCreate(a) \/ FsDelete(a) \/ \E s \in Tamanios : FsTruncate(a, s)
    PROVE  DiscoInv'
<1>1. /\ DialFSTypeOK /\ VaciosSinBytes /\ Seguro /\ Movido
      /\ \A g \in Archivos : ~EnCurso(g)
  BY DEF TipoInv, DiscoInv, EnCurso, PcsReubicar
<1>2. /\ op'.pc \in {"libre", "quitar", "ubicar", "comparar"}
      /\ op'.pc # "libre" => op'.archivo = a
  BY DEF FsCreate, FsDelete, FsTruncate, Libre
<1>3. /\ \A g \in Archivos : g # a => ~EnCurso(g)'
      /\ op'.pc # "quitar" => ~EnCurso(a)'
  BY <1>2 DEF EnCurso, PcsReubicar
<1>4. Reserva[a] = Extension(a) /\ Cubre[a] = Extension(a)
  BY <1>1, FueraDeCurso
<1>5. Cubre[a] \subseteq bitmap
  BY <1>1 DEF Seguro, Cubiertos
<1>6. Seguro' /\ VaciosSinBytes'
  <2>1. CASE FsCreate(a)
    <3>1. /\ metadata[a] = NULL /\ UNCHANGED <<bitmap, op>>
          /\ Anotar(a, [bloque |-> -1, tamanio |-> 0])
      BY <2>1 DEF FsCreate
    <3>2. [bloque |-> -1, tamanio |-> 0] \in Metadatos
      BY DEF Metadatos
    <3>3. /\ metadata'[a] = [bloque |-> -1, tamanio |-> 0]
          /\ \A g \in Archivos : g # a => metadata'[g] = metadata[g]
      BY <1>1, <3>1, <3>2, AnotarTipo
    <3>4. Extension(a)' = {}
      BY <3>3 DEF Extension, ConBloques
    <3>5. Reserva'[a] = {} /\ Cubre'[a] = {}
      BY <1>3, <3>1, <3>4, FueraDeCurso
    <3>6. Seguro'
      BY <1>1, <1>3, <3>1, <3>3, <3>5, PasoSeguro
    <3>7. VaciosSinBytes'
      BY <1>1, <3>1, <3>3 DEF VaciosSinBytes, Existentes
    <3>8. QED BY <3>6, <3>7
  <2>2. CASE FsDelete(a)
    <3>1. /\ bitmap' = bitmap \ Extension(a) /\ UNCHANGED metadata
          /\ op'.pc = "quitar" /\ op'.archivo = a
      BY <2>2 DEF FsDelete, Libre
    <3>2. Extension(a)' = Extension(a)
      BY <3>1, MismaExtension
    <3>3. Marcas'[a] = {} /\ Sitio'[a] = Extension(a)
      BY <3>1, <3>2 DEF Marcas, Sitio, PorMover
    <3>4. Reserva'[a] = Extension(a) /\ Cubre'[a] = {}
      BY <3>1, <3>2, <3>3 DEF Reserva, Cubre, PcsReubicar
    <3>5. Seguro'
      BY <1>1, <1>3, <1>4, <3>1, <3>4, PasoSeguro
    <3>6. VaciosSinBytes'
      BY <1>1, <3>1 DEF VaciosSinBytes, Existentes
    <3>7. QED BY <3>5, <3>6
  <2>3. ASSUME NEW s \in Tamanios, FsTruncate(a, s)
        PROVE  Seguro' /\ VaciosSinBytes'
    <3>1. /\ UNCHANGED <<bitmap, metadata>> /\ op'.pc \in {"ubicar", "comparar"}
          /\ op'.pc = "ubicar" => metadata[a].bloque = -1
      BY <2>3 DEF FsTruncate, Libre
    <3>2. Extension(a)' = Extension(a)
      BY <3>1, MismaExtension
    <3>3. Reserva'[a] = Extension(a) /\ Cubre'[a] = Extension(a)
      BY <1>3, <3>1, <3>2, FueraDeCurso
    <3>4. Seguro'
      BY <1>1, <1>3, <1>4, <1>5, <3>1, <3>3, PasoSeguro
    <3>5. VaciosSinBytes'
      BY <1>1, <1>2, <3>1 DEF VaciosSinBytes, Existentes
    <3>6. QED BY <3>4, <3>5
  <2>4. QED BY <2>1, <2>2, <2>3
<1>7. Movido' /\ Apilados'
  BY <1>2 DEF Movido, Apilados, EnCompactacion, PcsReubicar
<1>8. QED BY <1>6, <1>7 DEF DiscoInv

\* The steps of fsDelete and fsTruncate up to the first write of a relocation.
LEMMA SeguroTruncar ==
    ASSUME TipoInv, DiscoInv,
           \/ QuitarMetadata \/ UbicarPrimero \/ SinPrimero \/ AnotarPrimero
           \/ Sumar \/ Sacar \/ AnotarTamanio \/ SinHueco
    PROVE  DiscoInv'
<1>1. /\ op.pc \in {"quitar"} \cup PcsTruncar
      /\ op'.pc \in {"libre", "anotarPrimero", "comparar", "anotarTamanio"}
      /\ op'.pc # "libre" => op'.archivo = op.archivo /\ op'.tamanio = op.tamanio
  <2>1. op \in Operaciones
    BY DEF TipoInv, DialFSTypeOK
  <2>2. op.pc \in {"quitar"} \cup PcsTruncar
    BY DEF QuitarMetadata, UbicarPrimero, SinPrimero, AnotarPrimero, Sumar, Sacar,
       AnotarTamanio, SinHueco, NoSigue, PcsTruncar
  <2>3. CASE QuitarMetadata \/ SinPrimero \/ AnotarTamanio \/ SinHueco
    <3>1. op' = Libre
      BY <2>3 DEF QuitarMetadata, SinPrimero, AnotarTamanio, SinHueco
    <3>2. QED BY <2>2, <3>1 DEF Libre
  <2>4. CASE AnotarPrimero \/ Sumar \/ Sacar
    <3>1. PICK pc \in {"comparar", "anotarTamanio"} : op' = [op EXCEPT !.pc = pc]
      BY <2>4 DEF AnotarPrimero, Sumar, Sacar
    <3>2. QED BY <2>1, <2>2, <3>1 DEF Operaciones
  <2>5. CASE UbicarPrimero
    <3>1. PICK b \in 0 .. BLOCK_COUNT - 1 :
            op' = [op EXCEPT !.pc = "anotarPrimero", !.destino = b]
      BY <2>5 DEF UbicarPrimero
    <3>2. QED BY <2>1, <2>2, <3>1 DEF Operaciones
  <2>6. QED BY <2>3, <2>4, <2>5
<1>2. PICK a \in Archivos : a = op.archivo
  BY <1>1, DelPedido DEF PcsTruncar
<1>3. /\ metadata[a] \in Metadatos /\ metadata[a] # NULL /\ op \in Operaciones
      /\ UsedBlocks(a) \in Nat /\ Pedidos \in Nat /\ Usados = UsedBlocks(a)
      /\ op.pc \in {"comparar", "anotarTamanio"}
           => /\ metadata[a].bloque \in Nat /\ Siguiente = metadata[a].bloque + UsedBlocks(a)
              /\ Extension(a) = Rango(metadata[a].bloque, UsedBlocks(a))
  BY <1>1, <1>2, DelPedido DEF PcsTruncar, Usados, Siguiente
<1>4. /\ DialFSTypeOK /\ VaciosSinBytes /\ Seguro /\ Movido
      /\ \A g \in Archivos : g # a => ~EnCurso(g)
  BY <1>1, <1>2 DEF TipoInv, DiscoInv, EnCurso, PcsReubicar, PcsTruncar
<1>5. op'.pc # "libre" => op'.archivo = a /\ op'.tamanio = op.tamanio
  BY <1>1, <1>2
<1>6. /\ \A g \in Archivos : g # a => ~EnCurso(g)'
      /\ op'.pc \in {"libre", "comparar"} => ~EnCurso(a)'
  BY <1>1, <1>5 DEF EnCurso, PcsReubicar
<1>7. Movido' /\ Apilados'
  BY <1>1 DEF Movido, Apilados, EnCompactacion, PcsReubicar
<1>8. /\ Extension(a) \subseteq Reserva[a] /\ Marcas[a] \subseteq Reserva[a]
      /\ Cubre[a] = Marcas[a] /\ Marcas[a] \subseteq bitmap
      /\ \A g \in Archivos : g # a => Extension(g) \subseteq bitmap
  <2>1. Cubre[a] = Marcas[a]
    BY <1>1 DEF Cubre, PcsReubicar, PcsTruncar
  <2>2. \A g \in Archivos : g # a => Cubre[g] = Extension(g)
    BY <1>4, FueraDeCurso
  <2>3. \A g \in Archivos : Cubre[g] \subseteq bitmap
    BY <1>4 DEF Seguro, Cubiertos
  <2>4. QED BY <2>1, <2>2, <2>3 DEF Reserva
<1>9. CASE SinPrimero \/ SinHueco
  <2>1. UNCHANGED <<bitmap, metadata>> /\ op'.pc = "libre" /\ op.pc \in {"ubicar", "comparar"}
    BY <1>9 DEF SinPrimero, SinHueco, NoSigue, Libre
  <2>2. Extension(a)' = Extension(a) /\ Marcas[a] = Extension(a)
    BY <1>2, <2>1, MismaExtension DEF Marcas
  <2>3. Reserva'[a] = Extension(a) /\ Cubre'[a] = Extension(a)
    BY <1>6, <2>1, <2>2, FueraDeCurso
  <2>4. Seguro'
    BY <1>4, <1>6, <1>8, <2>1, <2>2, <2>3, PasoSeguro
  <2>5. VaciosSinBytes'
    BY <1>4, <2>1 DEF VaciosSinBytes, Existentes
  <2>6. QED BY <1>7, <2>4, <2>5 DEF DiscoInv
<1>10. CASE UbicarPrimero
  <2>1. PICK b \in 0 .. BLOCK_COUNT - 1 :
          /\ b \notin bitmap /\ bitmap' = bitmap \cup {b}
          /\ op' = [op EXCEPT !.pc = "anotarPrimero", !.destino = b]
    BY <1>10 DEF UbicarPrimero, EsPrimerLibre
  <2>2. /\ op'.pc = "anotarPrimero" /\ op'.destino = b /\ op'.archivo = a /\ op.pc = "ubicar"
        /\ UNCHANGED metadata
    BY <1>2, <1>3, <1>10, <2>1 DEF Operaciones, UbicarPrimero
  <2>3. metadata[a].bloque = -1
    BY <1>2, <1>4, <2>2 DEF VaciosSinBytes
  <2>4. Extension(a)' = {}
    BY <2>2, <2>3 DEF Extension, ConBloques
  <2>5. Marcas'[a] = {b} /\ Sitio'[a] = {}
    BY <2>2, <2>4 DEF Marcas, Sitio, PorMover
  <2>6. Reserva'[a] = {b} /\ Cubre'[a] = {b}
    BY <2>2, <2>4, <2>5 DEF Reserva, Cubre, PcsReubicar
  <2>7. Seguro'
    <3>1. \A g \in Archivos, i \in Reserva'[a] : g # a => i \notin Extension(g)
      BY <1>8, <2>1, <2>6
    <3>2. QED BY <1>4, <1>6, <2>1, <2>2, <2>6, <3>1, PasoSeguro
  <2>8. VaciosSinBytes'
    BY <1>4, <2>2, <2>3 DEF VaciosSinBytes, Existentes
  <2>9. QED BY <1>7, <2>7, <2>8 DEF DiscoInv
<1>11. CASE Sumar \/ Sacar
  <2> DEFINE n == metadata[a].bloque
             u == UsedBlocks(a)
  <2>1. /\ op.pc = "comparar" /\ op'.pc = "anotarTamanio" /\ op'.archivo = a
        /\ op'.tamanio = op.tamanio /\ UNCHANGED metadata
        /\ n \in Nat /\ u \in Nat /\ Siguiente = n + u /\ Extension(a) = Rango(n, u)
    BY <1>3, <1>5, <1>11 DEF Sumar, Sacar, Operaciones
  <2>2. Extension(a)' = Extension(a) /\ Pedidos' = Pedidos /\ Marcas[a] = Extension(a)
    BY <1>2, <2>1, MismaExtension DEF Pedidos, BlocksPerBits, Marcas
  <2>3. Marcas'[a] = Rango(n, Pedidos) /\ Sitio'[a] = Extension(a)
    BY <2>1, <2>2 DEF Marcas, Sitio, PorMover, Rango
  <2>4. Reserva'[a] = Extension(a) \cup Rango(n, Pedidos) /\ Cubre'[a] = Rango(n, Pedidos)
    BY <2>1, <2>2, <2>3 DEF Reserva, Cubre, PcsReubicar
  <2>5. /\ \A g \in Archivos, i \in Reserva'[a] :
             g # a => i \in Reserva[a] \/ i \notin Extension(g)
        /\ bitmap \ Reserva[a] \subseteq bitmap' /\ Cubre'[a] \subseteq bitmap'
    <3>1. CASE Sumar
      <4>1. /\ u <= Pedidos /\ \A i \in Rango(n + u, Pedidos - u) : i \notin bitmap
            /\ bitmap' = bitmap \cup Rango(n + u, Pedidos - u)
        BY <1>3, <2>1, <3>1 DEF Sumar, NextBlocksAvaiable
      <4>2. Rango(n, Pedidos) = Rango(n, u) \cup Rango(n + u, Pedidos - u)
        BY <1>3, <2>1, <4>1, DosRangos
      <4>3. QED BY <1>8, <2>1, <2>2, <2>4, <4>1, <4>2
    <3>2. CASE Sacar
      <4>1. /\ Pedidos < u /\ bitmap' = bitmap \ Rango(n + Pedidos, u - Pedidos)
        BY <1>2, <1>3, <2>1, <3>2 DEF Sacar
      <4>2. /\ Rango(n, u) = Rango(n, Pedidos) \cup Rango(n + Pedidos, u - Pedidos)
            /\ Rango(n, Pedidos) \cap Rango(n + Pedidos, u - Pedidos) = {}
        BY <1>3, <2>1, <4>1, DosRangos
      <4>3. QED BY <1>8, <2>1, <2>2, <2>4, <4>1, <4>2
    <3>3. QED BY <1>11, <3>1, <3>2
  <2>6. Seguro'
    BY <1>4, <1>6, <2>1, <2>5, PasoSeguro
  <2>7. VaciosSinBytes'
    BY <1>4, <2>1 DEF VaciosSinBytes, Existentes
  <2>8. QED BY <1>7, <2>6, <2>7 DEF DiscoInv
<1>12. CASE QuitarMetadata
  <2>1. op'.pc = "libre" /\ Anotar(a, NULL) /\ UNCHANGED bitmap
    BY <1>2, <1>12 DEF QuitarMetadata, Libre
  <2>2. metadata'[a] = NULL /\ \A g \in Archivos : g # a => metadata'[g] = metadata[g]
    BY <1>4, <2>1, AnotarTipo
  <2>3. Extension(a)' = {}
    BY <2>2 DEF Extension, ConBloques
  <2>4. Reserva'[a] = {} /\ Cubre'[a] = {}
    BY <1>6, <2>1, <2>3, FueraDeCurso
  <2>5. Seguro'
    BY <1>4, <1>6, <2>1, <2>2, <2>4, PasoSeguro
  <2>6. VaciosSinBytes'
    BY <1>4, <2>1, <2>2 DEF VaciosSinBytes, Existentes
  <2>7. QED BY <1>7, <2>5, <2>6 DEF DiscoInv
<1>13. CASE AnotarPrimero \/ AnotarTamanio
  <2>1. op.destino \in Nat /\ op.tamanio \in Nat
    BY <1>3 DEF Operaciones
  <2>2. PICK m \in Metadatos :
          /\ Anotar(a, m) /\ m.bloque \in Nat
          /\ Marcas[a] = Rango(m.bloque, BlocksPerBits(m.tamanio))
    <3>1. CASE AnotarPrimero
      <4> DEFINE m == [metadata[a] EXCEPT !.bloque = op.destino]
      <4>1. op.pc = "anotarPrimero" /\ Anotar(a, m)
        BY <1>2, <3>1 DEF AnotarPrimero
      <4>2. m \in Metadatos /\ m.bloque = op.destino /\ m.tamanio = metadata[a].tamanio
        BY <1>3, <2>1 DEF Metadatos
      <4>3. metadata[a].tamanio = 0
        BY <1>2, <1>3, <1>4, <4>1 DEF VaciosSinBytes, Existentes
      <4>4. Rango(op.destino, BlocksPerBits(0)) = {op.destino}
        BY <2>1 DEF Rango, BlocksPerBits
      <4>5. Marcas[a] = {op.destino}
        BY <1>2, <4>1 DEF Marcas
      <4>6. QED BY <2>1, <4>1, <4>2, <4>3, <4>4, <4>5
    <3>2. CASE AnotarTamanio
      <4> DEFINE m == [metadata[a] EXCEPT !.tamanio = op.tamanio]
      <4>1. op.pc = "anotarTamanio" /\ Anotar(a, m)
        BY <1>2, <3>2 DEF AnotarTamanio
      <4>2. m \in Metadatos /\ m.bloque = metadata[a].bloque /\ m.tamanio = op.tamanio
        BY <1>3, <2>1 DEF Metadatos
      <4>3. Marcas[a] = Rango(metadata[a].bloque, Pedidos)
        BY <1>2, <4>1 DEF Marcas
      <4>4. QED BY <1>3, <4>1, <4>2, <4>3 DEF Pedidos
    <3>3. QED BY <1>13, <3>1, <3>2
  <2>3. op'.pc \in {"libre", "comparar"} /\ UNCHANGED bitmap
    BY <1>3, <1>13 DEF AnotarPrimero, AnotarTamanio, Libre, Operaciones
  <2>4. metadata'[a] = m /\ \A g \in Archivos : g # a => metadata'[g] = metadata[g]
    BY <1>4, <2>2, AnotarTipo
  <2>5. m # NULL /\ m.bloque # -1
    <3>1. m \in [bloque : Int, tamanio : Nat]
      BY DEF Metadatos
    <3>2. QED BY <2>2, <3>1, ConstantesDeDialFS
  <2>6. Extension(a)' = Marcas[a]
    BY <2>2, <2>4, <2>5 DEF Extension, ConBloques, UsedBlocks, BlocksPerBits
  <2>7. Reserva'[a] = Marcas[a] /\ Cubre'[a] = Marcas[a]
    BY <1>6, <2>3, <2>6, FueraDeCurso
  <2>8. Seguro'
    BY <1>4, <1>6, <1>8, <2>3, <2>4, <2>7, PasoSeguro
  <2>9. VaciosSinBytes'
    BY <1>4, <2>3, <2>4, <2>5 DEF VaciosSinBytes, Existentes
  <2>10. QED BY <1>7, <2>8, <2>9 DEF DiscoInv
<1>14. QED BY <1>9, <1>10, <1>11, <1>12, <1>13

\* The relocation of fsTruncate begins: the blocks it goes to are of no file.
LEMMA SeguroHayQueCompactar ==
    ASSUME TipoInv, DiscoInv, HayQueCompactar
    PROVE  DiscoInv'
<1> DEFINE u == UsedBlocks(op.archivo)
<1>1. op.pc = "comparar" /\ UNCHANGED <<bitmap, metadata>>
  BY DEF HayQueCompactar, NoSigue
<1>2. PICK a \in Archivos : a = op.archivo
  BY <1>1, DelPedido
<1>3. /\ op \in Operaciones /\ u \in Nat /\ Usados = u /\ metadata[a] # NULL
      /\ metadata[a].tamanio \in Nat
  <2>1. op \in Operaciones /\ Usados \in Nat /\ metadata[a] # NULL /\ metadata[a] \in Metadatos
    BY <1>1, <1>2, DelPedido
  <2>2. QED BY <2>1 DEF Usados, Metadatos
<1>4. PICK b \in 0 .. BLOCK_COUNT :
        /\ b \in Nat /\ \A i \in Rango(b, u) : i \notin bitmap
        /\ op' = [op EXCEPT !.pc = "soltar", !.falta = Pedidos - Usados,
                            !.mueve = op.archivo, !.destino = b, !.bytes = Usados,
                            !.pendientes = Existentes, !.newPosition = 0]
  BY <1>3 DEF HayQueCompactar, EsUltimoHueco, SirveAlFinal, NextBlocksAvaiable
<1>5. /\ op'.pc = "soltar" /\ op'.archivo = a /\ op'.mueve = a /\ op'.destino = b
      /\ op'.bytes = u /\ op'.pendientes = Existentes /\ op'.newPosition = 0
  BY <1>2, <1>3, <1>4 DEF Operaciones
<1>6. /\ VaciosSinBytes /\ Seguro /\ Movido /\ \A g \in Archivos : ~EnCurso(g)
  BY <1>1 DEF DiscoInv, EnCurso, PcsReubicar
<1>7. \A g \in Archivos : g # a => ~EnCurso(g)'
  BY <1>5 DEF EnCurso
<1>8. \A g \in Archivos : Reserva[g] = Extension(g) /\ Extension(g) \subseteq bitmap
  BY <1>6, FueraDeCurso DEF Seguro, Cubiertos
<1>9. Extension(a)' = Extension(a) /\ UsedBlocks(a)' = u
  BY <1>1, <1>2, MismaExtension
<1>10. Marcas'[a] = Extension(a) /\ Sitio'[a] = Rango(b, u)
  BY <1>5, <1>9 DEF Marcas, Sitio, PorMover, Rango
<1>11. Reserva'[a] = Extension(a) \cup Rango(b, u) /\ Cubre'[a] = Extension(a)
  BY <1>5, <1>9, <1>10 DEF Reserva, Cubre, PcsReubicar
<1>12. Seguro'
  <2>1. \A g \in Archivos, i \in Reserva'[a] : g # a => i \in Reserva[a] \/ i \notin Extension(g)
    BY <1>4, <1>8, <1>11
  <2>2. QED BY <1>1, <1>6, <1>7, <1>8, <1>11, <2>1, PasoSeguro
<1>13. VaciosSinBytes'
  BY <1>1, <1>5, <1>6 DEF VaciosSinBytes, Existentes
<1>14. Existentes' = Existentes /\ a \in Existentes
  BY <1>1, <1>3 DEF Existentes
<1>15. Movido'
  <2>1. BlocksPerBits(u) <= u
    <3>1. u >= 1
      BY <1>2, <1>3, BlocksCota DEF UsedBlocks
    <3>2. QED BY <1>3, <3>1, BlocksCota
  <2> DEFINE n == u
  <2> HIDE DEF n
  <2>2. op'.bytes = n
    BY <1>5 DEF n
  <2>3. BlocksPerBits(op.bytes)' = BlocksPerBits(n)
    BY <2>2 DEF BlocksPerBits
  <2>4. UsedBlocks(op.mueve)' = n
    BY <1>5, <1>9 DEF UsedBlocks, n
  <2>5. BlocksPerBits(op.bytes)' <= UsedBlocks(op.mueve)'
    BY <2>1, <2>3, <2>4 DEF n
  <2>6. QED BY <1>5, <1>14, <2>5 DEF Movido, PorMover
<1>16. Apilados'
  <2>1. \A f \in Existentes : metadata'[f].bloque # -1 => 0 <= metadata'[f].bloque
    <3>1. \A f \in Existentes : metadata[f].bloque \in Nat \cup {-1}
      BY ExtensionNat DEF TipoInv, Existentes
    <3>2. QED BY <1>1, <3>1
  <2>2. QED BY <1>5, <1>14, <2>1 DEF Apilados
<1>17. QED BY <1>12, <1>13, <1>15, <1>16 DEF DiscoInv

\* The steps of realocate.
LEMMA SeguroReubicar ==
    ASSUME TipoInv, DiscoInv, Soltar \/ AnotarDestino \/ Ocupar \/ AnotarBytes
    PROVE  DiscoInv'
<1>1. op.pc \in PcsReubicar /\ op \in Operaciones /\ TipoInv'
  <2>1. TipoInv'
    BY TipoCompactacion, TipoMetadatos
  <2>2. QED BY <2>1
        DEF TipoInv, DialFSTypeOK, Soltar, AnotarDestino, Ocupar, AnotarBytes, PcsReubicar
<1>2. PICK a \in Archivos : a = op.mueve
  BY <1>1, DelMovido
<1> DEFINE u == UsedBlocks(a)
           d == op.destino
           bb == BlocksPerBits(op.bytes)
           np == op.newPosition
<1>3. /\ metadata[a] # NULL /\ metadata[a] \in Metadatos /\ metadata[a].bloque \in Nat \cup {-1}
      /\ metadata[a].tamanio \in Nat /\ u \in Nat /\ d \in Nat /\ op.bytes \in Nat
      /\ np \in Nat /\ bb \in Nat
      /\ metadata[a].bloque # -1 => Extension(a) = Rango(metadata[a].bloque, u)
  BY <1>1, <1>2, DelMovido
<1>4. /\ op'.pc \in {"anotarDestino", "ocupar", "anotarBytes", "compactar"}
      /\ op'.archivo = op.archivo /\ op'.mueve = a /\ op'.destino = d /\ op'.bytes = op.bytes
      /\ op'.pendientes = op.pendientes /\ op'.newPosition = np
  <2>1. PICK pc \in {"anotarDestino", "ocupar", "anotarBytes", "compactar"} :
          op' = [op EXCEPT !.pc = pc]
    BY DEF Soltar, AnotarDestino, Ocupar, AnotarBytes
  <2>2. QED BY <1>1, <1>2, <2>1 DEF Operaciones
<1>5. /\ VaciosSinBytes /\ Seguro /\ Movido /\ Apilados
      /\ bb <= u
      /\ op.pc \notin PorMover => metadata[a].bloque = d
      /\ a \in op.pendientes => np = 0
      /\ a \notin op.pendientes => op.bytes = metadata[a].tamanio
  BY <1>1, <1>2 DEF DiscoInv, Movido
<1>6. \A g \in Archivos : g # a => ~EnCurso(g) /\ ~EnCurso(g)'
  BY <1>1, <1>2, <1>4 DEF EnCurso, PcsReubicar
<1>7. /\ \A f \in op.pendientes : metadata[f].bloque # -1 => np <= metadata[f].bloque
      /\ \A i \in Nat : i < np <=> \E f \in Existentes \ op.pendientes : i \in Sitio[f]
      /\ op.pendientes \subseteq Existentes
  BY <1>1, <1>5 DEF Apilados, EnCompactacion, TipoInv, Avance
\* What there is to show of the metadata and of the four sets.
<1>8. ASSUME \A g \in Archivos : g # a => metadata'[g] = metadata[g],
             metadata'[a] # NULL,
             metadata'[a].bloque = -1 => metadata'[a].tamanio = 0,
             a \notin op.pendientes => Sitio'[a] = Sitio[a]
      PROVE  VaciosSinBytes' /\ Apilados'
  <2>1. Existentes' = Existentes
    BY <1>3, <1>8 DEF Existentes
  <2>2. VaciosSinBytes'
    BY <1>4, <1>5, <1>8, <2>1 DEF VaciosSinBytes, Existentes
  <2>3. \A g \in Archivos : g # a => Sitio'[g] = Sitio[g]
    BY <1>6, <1>8, FueraDeCurso, MismaExtension
  <2>4. \A f \in op.pendientes : metadata'[f].bloque # -1 => np <= metadata'[f].bloque
    <3>1. CASE a \in op.pendientes
      <4>1. np = 0
        BY <1>5, <3>1
      <4>2. metadata'[a].bloque \in Nat \cup {-1}
        BY <1>1, <1>8 DEF TipoInv, DialFSTypeOK, Metadatos
      <4>3. QED BY <1>7, <1>8, <4>1, <4>2 DEF Existentes
    <3>2. CASE a \notin op.pendientes
      BY <1>7, <1>8, <3>2 DEF Existentes
    <3>3. QED BY <3>1, <3>2
  <2>5. \A f \in Existentes \ op.pendientes : Sitio'[f] = Sitio[f]
    BY <1>8, <2>3 DEF Existentes
  <2>6. \A i \in Nat : i < np <=> \E f \in Existentes' \ op.pendientes : i \in Sitio'[f]
    BY <1>7, <2>1, <2>5
  <2>7. Apilados'
    BY <1>4, <2>4, <2>6 DEF Apilados
  <2>8. QED BY <2>2, <2>7
<1>9. CASE Soltar \/ Ocupar
  <2>1. /\ UNCHANGED metadata /\ op'.pc = IF Soltar THEN "anotarDestino" ELSE "anotarBytes"
        /\ op.pc = IF Soltar THEN "soltar" ELSE "ocupar"
    BY <1>1, <1>9 DEF Soltar, Ocupar, Operaciones
  <2>2. Extension(a)' = Extension(a) /\ UsedBlocks(a)' = u
    BY <2>1, MismaExtension
  <2>3. BlocksPerBits(op.bytes)' = bb
    BY <1>4 DEF BlocksPerBits
  <2>4. Sitio'[a] = Sitio[a] /\ Marcas'[a] = Extension(a) /\ Marcas[a] = Extension(a)
    <3>1. Sitio'[a] = Sitio[a]
      BY <1>2, <1>4, <2>1, <2>2 DEF Sitio, PorMover, Rango
    <3>2. Marcas'[a] = Extension(a) /\ Marcas[a] = Extension(a)
      BY <2>1, <2>2 DEF Marcas
    <3>3. QED BY <3>1, <3>2
  <2>5. Reserva'[a] = Reserva[a]
    BY <2>2, <2>4 DEF Reserva
  <2>6. bitmap \ Reserva[a] \subseteq bitmap' /\ Cubre'[a] \subseteq bitmap'
    <3>1. CASE Soltar
      <4>1. Cubre'[a] = {}
        BY <1>4, <2>1, <3>1 DEF Cubre, PcsReubicar
      <4>2. bitmap \ Extension(a) \subseteq bitmap'
        BY <1>2, <3>1 DEF Soltar
      <4>3. QED BY <4>1, <4>2 DEF Reserva
    <3>2. CASE Ocupar /\ ~Soltar
      <4>1. bitmap' = bitmap \cup Rango(d, bb) /\ metadata[a].bloque = d
        BY <1>5, <2>1, <3>2 DEF Ocupar, PorMover
      <4>2. Cubre'[a] = Rango(d, bb)
        BY <1>4, <2>1, <2>3, <3>2, <4>1 DEF Cubre, PcsReubicar, Rango
      <4>3. QED BY <4>1, <4>2
    <3>3. QED BY <1>9, <3>1, <3>2
  <2>7. Seguro'
    BY <1>5, <1>6, <2>1, <2>5, <2>6, PasoSeguro
  <2>8. Movido'
    BY <1>2, <1>4, <1>5, <2>1, <2>2, <2>3 DEF Movido, PorMover, UsedBlocks, BlocksPerBits
  <2>9. VaciosSinBytes' /\ Apilados'
    BY <1>3, <1>5, <1>8, <2>1, <2>4 DEF VaciosSinBytes, Existentes
  <2>10. QED BY <2>7, <2>8, <2>9 DEF DiscoInv
<1>10. CASE AnotarDestino
  <2> DEFINE m == [metadata[a] EXCEPT !.bloque = d]
  <2>1. /\ op.pc = "anotarDestino" /\ op'.pc = "ocupar" /\ UNCHANGED bitmap /\ Anotar(a, m)
    BY <1>1, <1>2, <1>10 DEF AnotarDestino, Operaciones
  <2>2. m \in Metadatos /\ m.bloque = d /\ m.tamanio = metadata[a].tamanio
    BY <1>3 DEF Metadatos
  <2>3. metadata'[a] = m /\ \A g \in Archivos : g # a => metadata'[g] = metadata[g]
    BY <1>1, <2>1, <2>2, AnotarTipo DEF TipoInv
  <2>4. m # NULL /\ d # -1
    <3>1. m \in [bloque : Int, tamanio : Nat]
      BY <2>2 DEF Metadatos
    <3>2. QED BY <1>3, <3>1, ConstantesDeDialFS
  <2>5. UsedBlocks(a)' = u /\ BlocksPerBits(op.bytes)' = bb
    BY <1>4, <2>2, <2>3 DEF UsedBlocks, BlocksPerBits
  <2>6. Extension(a)' = Rango(d, u)
    BY <2>2, <2>3, <2>4, <2>5 DEF Extension, ConBloques, Rango
  <2>7. Sitio[a] = Rango(d, u) /\ Sitio'[a] = Rango(d, u) /\ Marcas'[a] = Rango(d, u)
    BY <1>2, <2>1, <2>6 DEF Sitio, Marcas, PorMover
  <2>8. Reserva'[a] \subseteq Reserva[a] /\ Cubre'[a] = {}
    BY <1>4, <2>1, <2>6, <2>7 DEF Reserva, Cubre, PcsReubicar
  <2>9. Seguro'
    BY <1>5, <1>6, <2>1, <2>3, <2>8, PasoSeguro
  <2>10. Movido'
    BY <1>4, <1>5, <2>1, <2>2, <2>3, <2>5 DEF Movido, PorMover, UsedBlocks, BlocksPerBits
  <2>11. VaciosSinBytes' /\ Apilados'
    BY <1>8, <2>2, <2>3, <2>4, <2>7
  <2>12. QED BY <2>9, <2>10, <2>11 DEF DiscoInv
<1>11. CASE AnotarBytes
  <2> DEFINE m == [metadata[a] EXCEPT !.tamanio = op.bytes]
  <2>1. /\ op.pc = "anotarBytes" /\ op'.pc = "compactar" /\ UNCHANGED bitmap /\ Anotar(a, m)
    BY <1>1, <1>2, <1>11 DEF AnotarBytes, Operaciones
  <2>2. m \in Metadatos /\ m.bloque = d /\ m.tamanio = op.bytes
    BY <1>3, <1>5, <2>1 DEF Metadatos, PorMover
  <2>3. metadata'[a] = m /\ \A g \in Archivos : g # a => metadata'[g] = metadata[g]
    BY <1>1, <2>1, <2>2, AnotarTipo DEF TipoInv
  <2>4. m # NULL /\ d # -1
    <3>1. m \in [bloque : Int, tamanio : Nat]
      BY <2>2 DEF Metadatos
    <3>2. QED BY <1>3, <3>1, ConstantesDeDialFS
  <2>5. UsedBlocks(a)' = bb
    BY <2>2, <2>3 DEF UsedBlocks, BlocksPerBits
  <2>6. Extension(a)' = Rango(d, bb)
    BY <2>2, <2>3, <2>4, <2>5 DEF Extension, ConBloques, Rango
  <2>7. /\ Sitio[a] = Extension(a) /\ Extension(a) = Rango(d, u) /\ metadata[a].bloque = d
        /\ Cubre[a] = Rango(d, bb)
    BY <1>2, <1>3, <1>5, <2>1, <2>4 DEF Sitio, Cubre, PorMover, PcsReubicar
  <2>8. ~EnCurso(a)'
    BY <2>1 DEF EnCurso, PcsReubicar
  <2>9. /\ Sitio'[a] = Rango(d, bb) /\ Reserva'[a] = Rango(d, bb) /\ Cubre'[a] = Rango(d, bb)
    BY <2>6, <2>8, FueraDeCurso
  <2>10. Rango(d, bb) \subseteq Rango(d, u)
    BY <1>3, <1>5, RangoParte
  <2>11. Reserva'[a] \subseteq Reserva[a] /\ Cubre'[a] \subseteq bitmap'
    BY <1>5, <2>1, <2>7, <2>9, <2>10 DEF Reserva, Seguro, Cubiertos
  <2>12. Seguro'
    BY <1>5, <1>6, <2>1, <2>3, <2>11, PasoSeguro
  <2>13. Movido'
    BY <2>1 DEF Movido, PcsReubicar
  <2>14. a \notin op.pendientes => Sitio'[a] = Sitio[a]
    BY <1>5, <2>7, <2>9 DEF UsedBlocks
  <2>15. VaciosSinBytes' /\ Apilados'
    BY <1>8, <2>2, <2>3, <2>4, <2>14
  <2>16. QED BY <2>12, <2>13, <2>15 DEF DiscoInv
<1>12. QED BY <1>9, <1>10, <1>11

\* Compaction takes the next file: it stays, or realocate is called for the place where
\* the files that it has reached end.
LEMMA SeguroCompactar ==
    ASSUME TipoInv, DiscoInv, Compactar
    PROVE  DiscoInv'
<1> DEFINE np == op.newPosition
<1>1. op.pc = "compactar" /\ UNCHANGED <<bitmap, metadata>> /\ op \in Operaciones
  BY DEF Compactar, TipoInv, DialFSTypeOK
<1>2. /\ VaciosSinBytes /\ Seguro /\ Movido /\ op.pendientes \subseteq Existentes
      /\ \A g \in op.pendientes : metadata[g].bloque # -1 => np <= metadata[g].bloque
      /\ \A i \in Nat : i < np <=> \E g \in Existentes \ op.pendientes : i \in Sitio[g]
  BY <1>1 DEF DiscoInv, Apilados, EnCompactacion, TipoInv, Avance
<1>3. /\ \A g \in Archivos : ~EnCurso(g)
      /\ \A g \in Archivos : /\ Sitio[g] = Extension(g) /\ Reserva[g] = Extension(g)
                             /\ Cubre[g] = Extension(g)
  <2>1. \A g \in Archivos : ~EnCurso(g)
    BY <1>1 DEF EnCurso, PcsReubicar
  <2>2. QED BY <2>1, FueraDeCurso
<1>4. PICK f \in op.pendientes :
        /\ \A g \in op.pendientes : Antes(f, g)
        /\ \/ /\ metadata[f].bloque = np
              /\ op' = [op EXCEPT !.pendientes = @ \ {f}, !.newPosition = @ + UsedBlocks(f)]
           \/ op' = [op EXCEPT !.pc = "soltar", !.mueve = f, !.destino = np,
                               !.bytes = metadata[f].tamanio, !.pendientes = @ \ {f},
                               !.newPosition = @ + UsedBlocks(f)]
  BY Zenon DEF Compactar
<1> DEFINE u == UsedBlocks(f)
<1>5. /\ f \in Archivos /\ metadata[f] # NULL /\ u \in Nat /\ u >= 1 /\ np \in Nat
      /\ metadata[f].bloque \in Nat \cup {-1} /\ metadata[f].tamanio \in Nat
      /\ metadata[f].bloque # -1 => Extension(f) = Rango(metadata[f].bloque, u)
  <2>1. f \in Archivos /\ metadata[f] # NULL
    BY <1>2 DEF Existentes
  <2>2. /\ u \in Nat /\ metadata[f].bloque \in Nat \cup {-1} /\ metadata[f].tamanio \in Nat
    BY <2>1, ExtensionNat DEF TipoInv
  <2>3. u >= 1
    BY <2>2, BlocksCota DEF UsedBlocks
  <2>4. QED BY <1>1, <2>1, <2>2, <2>3 DEF Operaciones, Extension, ConBloques
<1>6. /\ op'.archivo = op.archivo /\ op'.pendientes = op.pendientes \ {f}
      /\ op'.newPosition = np + u
      /\ \/ op'.pc = "compactar" /\ metadata[f].bloque = np
         \/ /\ op'.pc = "soltar" /\ op'.mueve = f /\ op'.destino = np
            /\ op'.bytes = metadata[f].tamanio
  <2> DEFINE resto == op.pendientes \ {f}
             fin == np + u
             tam == metadata[f].tamanio
  <2>1. \/ metadata[f].bloque = np /\ op' = [op EXCEPT !.pendientes = resto, !.newPosition = fin]
        \/ op' = [op EXCEPT !.pc = "soltar", !.mueve = f, !.destino = np, !.bytes = tam,
                            !.pendientes = resto, !.newPosition = fin]
    BY <1>4
  <2> HIDE DEF resto, fin, tam
  <2>2. /\ op'.archivo = op.archivo /\ op'.pendientes = resto /\ op'.newPosition = fin
        /\ \/ op'.pc = "compactar" /\ metadata[f].bloque = np
           \/ op'.pc = "soltar" /\ op'.mueve = f /\ op'.destino = np /\ op'.bytes = tam
    BY <1>1, <2>1 DEF Operaciones
  <2>3. QED BY <2>2 DEF resto, fin, tam
<1>7. \A g \in Archivos : g # f => ~EnCurso(g)'
  BY <1>6 DEF EnCurso, PcsReubicar
<1>8. \A g \in Archivos : Extension(g)' = Extension(g) /\ UsedBlocks(g)' = UsedBlocks(g)
  BY <1>1, MismaExtension
\* The files to come are beyond the place that f takes.
<1>9. ASSUME NEW g \in op.pendientes, g # f, metadata[g].bloque # -1
      PROVE  np + u <= metadata[g].bloque
  <2>1. metadata[f].bloque # -1 /\ metadata[f].bloque <= metadata[g].bloque
    BY <1>4, <1>9 DEF Antes
  <2>2. /\ g \in Archivos /\ metadata[g] # NULL /\ metadata[g].bloque \in Nat
        /\ UsedBlocks(g) \in Nat /\ metadata[g].tamanio \in Nat
    <3>1. g \in Archivos /\ metadata[g] # NULL
      BY <1>2 DEF Existentes
    <3>2. QED BY <1>9, <3>1, ExtensionNat DEF TipoInv
  <2>3. UsedBlocks(g) >= 1
    BY <2>2, BlocksCota DEF UsedBlocks
  <2>4. metadata[g].bloque \in Extension(g)
    BY <1>9, <2>2, <2>3 DEF Extension, ConBloques, Rango
  <2>5. metadata[g].bloque \notin Rango(metadata[f].bloque, u)
    BY <1>2, <1>3, <1>5, <1>9, <2>1, <2>2, <2>4 DEF Seguro, Separados
  <2>6. metadata[f].bloque + u <= metadata[g].bloque
    BY <1>5, <2>1, <2>2, <2>5 DEF Rango
  <2>7. np <= metadata[f].bloque
    BY <1>2, <2>1
  <2>8. QED BY <1>5, <2>1, <2>2, <2>6, <2>7
<1>10. ASSUME NEW g \in Archivos, g # f, NEW i \in Rango(np, u)
       PROVE  i \notin Extension(g)
  <2>1. i \in Nat /\ np <= i /\ i < np + u
    BY <1>5 DEF Rango
  <2>2. CASE g \notin Existentes
    BY <2>2 DEF Existentes, Extension, ConBloques
  <2>3. CASE g \in Existentes \ op.pendientes
    BY <1>2, <1>3, <1>5, <2>1, <2>3
  <2>4. CASE g \in op.pendientes
    <3>1. metadata[g].bloque \in Nat \cup {-1} /\ (metadata[g] # NULL => UsedBlocks(g) \in Nat)
      BY <1>2, <2>4, ExtensionNat DEF TipoInv, Existentes
    <3>2. CASE metadata[g].bloque = -1
      BY <3>2 DEF Extension, ConBloques
    <3>3. CASE metadata[g].bloque # -1
      <4>1. np + u <= metadata[g].bloque
        BY <1>9, <1>10, <2>4, <3>3
      <4>2. QED BY <1>5, <2>1, <3>1, <3>3, <4>1 DEF Extension, ConBloques, Rango
    <3>4. QED BY <3>2, <3>3
  <2>5. QED BY <2>2, <2>3, <2>4
<1>11. /\ Sitio'[f] = Rango(np, u)
       /\ Reserva'[f] \subseteq Extension(f) \cup Rango(np, u) /\ Cubre'[f] = Extension(f)
  <2>1. Marcas'[f] = Extension(f)
    BY <1>5, <1>6, <1>8 DEF Marcas
  <2>2. Sitio'[f] = Rango(np, u)
    <3>1. CASE op'.pc = "compactar"
      <4>1. metadata[f].bloque = np /\ np # -1
        BY <1>5, <1>6, <3>1
      <4>2. Sitio'[f] = Extension(f)
        BY <1>5, <1>8, <3>1 DEF Sitio, PorMover
      <4>3. QED BY <1>5, <4>1, <4>2
    <3>2. CASE op'.pc = "soltar"
      BY <1>5, <1>6, <1>8, <3>2 DEF Sitio, PorMover, Rango
    <3>3. QED BY <1>6, <3>1, <3>2
  <2>3. Cubre'[f] = Extension(f)
    BY <1>5, <1>6, <1>8, <2>1 DEF Cubre, PcsReubicar
  <2>4. QED BY <1>5, <1>8, <2>1, <2>2, <2>3 DEF Reserva
<1>12. Seguro'
  <2>1. \A g \in Archivos, i \in Reserva'[f] : g # f => i \in Reserva[f] \/ i \notin Extension(g)
    BY <1>3, <1>5, <1>10, <1>11
  <2>2. Cubre'[f] \subseteq bitmap'
    BY <1>1, <1>2, <1>3, <1>5, <1>11 DEF Seguro, Cubiertos
  <2>3. QED BY <1>1, <1>2, <1>3, <1>5, <1>7, <2>1, <2>2, PasoSeguro
<1>13. VaciosSinBytes'
  BY <1>1, <1>2, <1>6 DEF VaciosSinBytes, Existentes
<1>14. Movido'
  <2>1. CASE op'.pc = "compactar"
    BY <2>1 DEF Movido, PcsReubicar
  <2>2. CASE op'.pc = "soltar"
    <3>1. op'.mueve = f /\ op'.bytes = metadata'[f].tamanio /\ op'.pendientes = op.pendientes \ {f}
      BY <1>1, <1>6, <2>2
    <3>2. BlocksPerBits(op.bytes)' = UsedBlocks(op.mueve)'
      BY <3>1 DEF BlocksPerBits, UsedBlocks
    <3>3. UsedBlocks(op.mueve)' = u
      BY <1>8, <1>5, <3>1 DEF UsedBlocks
    <3>4. BlocksPerBits(op.bytes)' <= UsedBlocks(op.mueve)'
      BY <1>5, <3>2, <3>3
    <3>5. QED BY <2>2, <3>1, <3>4 DEF Movido, PorMover
  <2>3. QED BY <1>6, <2>1, <2>2
<1>15. Apilados'
  <2>1. Existentes' = Existentes
    BY <1>1 DEF Existentes
  <2>2. \A g \in Archivos : g # f => Sitio'[g] = Sitio[g]
    BY <1>3, <1>7, <1>8, FueraDeCurso
  <2>3. \A g \in op.pendientes \ {f} : metadata'[g].bloque # -1 => np + u <= metadata'[g].bloque
    BY <1>1, <1>9
  <2>4. ASSUME NEW i \in Nat
        PROVE  i < np + u <=> \E g \in Existentes \ (op.pendientes \ {f}) : i \in Sitio'[g]
    <3>1. i < np + u <=> i < np \/ i \in Rango(np, u)
      BY <1>5 DEF Rango
    <3>2. \A g \in Existentes \ op.pendientes : g \in Archivos /\ g # f
      BY DEF Existentes
    <3>3. i < np <=> \E g \in Existentes \ op.pendientes : i \in Sitio'[g]
      BY <1>2, <2>2, <3>2
    <3>4. f \in Existentes
      BY <1>2
    <3>5. QED BY <1>11, <3>1, <3>3, <3>4
  <2>5. QED BY <1>6, <2>1, <2>3, <2>4 DEF Apilados
<1>16. QED BY <1>12, <1>13, <1>14, <1>15 DEF DiscoInv

\* The end of fsTruncate after a compaction only sets bits.
LEMMA SeguroTrasCompactar ==
    ASSUME TipoInv, DiscoInv, TrasCompactar
    PROVE  DiscoInv'
<1>1. /\ op.pc = "compactar" /\ op'.pc = "libre" /\ UNCHANGED metadata /\ bitmap \subseteq bitmap'
  BY DEF TrasCompactar, CompactacionLista, Libre
<1>2. VaciosSinBytes /\ Seguro /\ \A g \in Archivos : ~EnCurso(g) /\ ~EnCurso(g)'
  BY <1>1 DEF DiscoInv, EnCurso, PcsReubicar
<1>3. \A g \in Archivos : /\ Reserva[g] = Extension(g) /\ Reserva'[g] = Extension(g)
                          /\ Cubre[g] = Extension(g) /\ Cubre'[g] = Extension(g)
  BY <1>1, <1>2, FueraDeCurso, MismaExtension
<1>4. Seguro'
  BY <1>1, <1>2, <1>3 DEF Seguro, Separados, Cubiertos
<1>5. VaciosSinBytes' /\ Movido' /\ Apilados'
  BY <1>1, <1>2 DEF VaciosSinBytes, Existentes, Movido, Apilados, EnCompactacion, PcsReubicar
<1>6. QED BY <1>4, <1>5 DEF DiscoInv

LEMMA SeguroPaso == TipoInv /\ DiscoInv /\ [DialFSNext]_dialfsVars => DiscoInv'
<1> SUFFICES ASSUME TipoInv, DiscoInv, [DialFSNext]_dialfsVars
             PROVE  DiscoInv'
  OBVIOUS
<1>1. CASE Seguir
  <2>1. \/ QuitarMetadata \/ UbicarPrimero \/ SinPrimero \/ AnotarPrimero
        \/ Sumar \/ Sacar \/ AnotarTamanio \/ SinHueco
        \/ HayQueCompactar \/ Soltar \/ AnotarDestino \/ Ocupar \/ AnotarBytes
        \/ Compactar \/ TrasCompactar
    BY <1>1, Zenon DEF Seguir
  <2>2. QED BY <2>1, SeguroTruncar, SeguroHayQueCompactar, SeguroReubicar, SeguroCompactar,
            SeguroTrasCompactar
<1>2. ASSUME NEW f \in Archivos,
             FsCreate(f) \/ FsDelete(f) \/ \E s \in Tamanios : FsTruncate(f, s)
      PROVE  DiscoInv'
  <2>1. op.pc = "libre"
    BY <1>2 DEF FsCreate, FsDelete, FsTruncate
  <2>2. QED BY <1>2, <2>1, SeguroPedidos
<1>3. CASE UNCHANGED dialfsVars
  <2>1. bitmap' = bitmap /\ op' = op /\ metadata' = metadata
    BY <1>3 DEF dialfsVars
  <2>2. /\ Marcas' = Marcas /\ Sitio' = Sitio /\ Cubre' = Cubre /\ Existentes' = Existentes
        /\ \A g \in Archivos : Extension(g)' = Extension(g)
    BY <2>1 DEF Marcas, Sitio, Cubre, Existentes, Extension, ConBloques, UsedBlocks, Pedidos,
       BlocksPerBits
  <2>3. Reserva' = Reserva
    BY <2>2 DEF Reserva
  <2>4. Movido'
    BY <2>1 DEF DiscoInv, Movido, UsedBlocks, BlocksPerBits
  <2>5. VaciosSinBytes' /\ Seguro' /\ Apilados'
    BY <2>1, <2>2, <2>3
       DEF DiscoInv, VaciosSinBytes, Seguro, Separados, Cubiertos, Apilados, EnCompactacion
  <2>6. QED BY <2>4, <2>5 DEF DiscoInv
<1>4. QED BY <1>1, <1>2, <1>3 DEF DialFSNext

LEMMA SeguroInicial == DialFSInit => DiscoInv
<1> SUFFICES ASSUME DialFSInit
             PROVE  DiscoInv
  OBVIOUS
<1>1. /\ op.pc = "libre" /\ Existentes = {} /\ \A f \in Archivos : metadata[f] = NULL
  BY DEF DialFSInit, Libre, Existentes
<1>2. \A f \in Archivos : Extension(f) = {} /\ ~EnCurso(f)
  BY <1>1 DEF Extension, ConBloques, EnCurso, PcsReubicar
<1>3. \A f \in Archivos : Reserva[f] = {} /\ Cubre[f] = {}
  BY <1>2, FueraDeCurso
<1>4. QED BY <1>1, <1>3 DEF DiscoInv, VaciosSinBytes, Seguro, Separados, Cubiertos, Movido,
              Apilados, EnCompactacion, PcsReubicar

LEMMA DiscoInvSiempre == DialFSSpec => [](TipoInv /\ DiscoInv)
<1>1. DialFSInit => TipoInv /\ DiscoInv
  BY TipoInicial, SeguroInicial
<1>2. TipoInv /\ DiscoInv /\ [DialFSNext]_dialfsVars => (TipoInv /\ DiscoInv)'
  BY TipoPaso, SeguroPaso
<1>3. QED BY <1>1, <1>2, PTL DEF DialFSSpec

\* Between two requests every block of every file has its bit, whatever was relocated or
\* compacted before, in any order and for any sizes: nextBlocksAvaiable never takes for
\* free a block that a file has.
THEOREM ElMapaCubre == DialFSSpec => []MapaCubre
<1>1. DiscoInv => MapaCubre
  <2> SUFFICES ASSUME DiscoInv, op.pc = "libre", NEW f \in Archivos
               PROVE  Extension(f) \subseteq bitmap
    BY DEF MapaCubre
  <2>1. ~EnCurso(f)
    BY DEF EnCurso, PcsReubicar
  <2>2. Cubre[f] = Extension(f)
    BY <2>1, FueraDeCurso
  <2>3. QED BY <2>2 DEF DiscoInv, Seguro, Cubiertos
<1>2. QED BY <1>1, DiscoInvSiempre, PTL

\* When compaction has reached every file they are one after the other from block 0: the
\* order of list_sort is enough for no file to be moved over one that is still to come.
THEOREM LaCompactacionNoDejaHuecos == DialFSSpec => []CompactaSinHuecos
<1>1. TipoInv /\ DiscoInv => CompactaSinHuecos
  <2> SUFFICES ASSUME TipoInv, DiscoInv, CompactacionLista
               PROVE  UNION {Extension(f) : f \in Archivos} = 0 .. op.newPosition - 1
    BY DEF CompactaSinHuecos
  <2>1. op.pc = "compactar" /\ op.pendientes = {} /\ op.newPosition \in Nat
    BY DEF CompactacionLista, TipoInv, DialFSTypeOK, Operaciones
  <2>2. \A i \in Nat : i < op.newPosition <=> \E f \in Existentes : i \in Sitio[f]
    BY <2>1 DEF DiscoInv, Apilados, EnCompactacion
  <2>3. \A f \in Archivos : Sitio[f] = Extension(f) /\ Extension(f) \subseteq Nat
    BY <2>1, ExtensionNat DEF Sitio, PorMover, TipoInv
  <2>4. \A f \in Archivos : f \notin Existentes => Extension(f) = {}
    BY DEF Existentes, Extension, ConBloques
  <2>5. \A f \in Existentes : f \in Archivos
    BY DEF Existentes
  <2>6. \A i \in Nat : i < op.newPosition <=> \E f \in Archivos : i \in Extension(f)
    BY <2>2, <2>3, <2>4, <2>5
  <2>7. 0 .. op.newPosition - 1 = {i \in Nat : i < op.newPosition}
    BY <2>1
  <2>8. QED BY <2>3, <2>6, <2>7
<1>2. QED BY <1>1, DiscoInvSiempre, PTL

\* A step that rewrites the metadata of one file, or makes it, or removes it.
LEMMA PasoDeDisco ==
    ASSUME TipoInv, DiscoInv, TipoInv', DiscoInv', NEW a \in Archivos,
           \A g \in Archivos : g # a => metadata'[g] = metadata[g],
           \/ metadata[a] # NULL
           \/ metadata'[a] # NULL /\ metadata'[a].bloque = -1
    PROVE  D!DiscoNext
<1> DEFINE ext == [f \in Archivos |-> Extension(f)]
<1>1. \A g \in Archivos : g # a => Extension(g)' = Extension(g)
  BY MismaExtension
<1>2. \A g \in Archivos : g # a => Extension(a)' \cap Extension(g)' = {}
  BY DEF DiscoInv, Seguro, Separados, Reserva
<1>3. \A g \in Archivos : g # a => (g \in Existentes' <=> g \in Existentes)
  BY DEF Existentes
<1>4. Existentes \subseteq Archivos /\ Existentes' \subseteq Archivos
  BY DEF Existentes
<1>5. CASE metadata[a] # NULL /\ metadata'[a] # NULL
  <2>1. a \in Existentes /\ Existentes' = Existentes
    BY <1>3, <1>4, <1>5 DEF Existentes
  <2>2. \A g \in Archivos \ {a} : ext'[g] = ext[g] /\ ext'[a] \cap ext[g] = {}
    BY <1>1, <1>2
  <2>3. D!CambiarBloques(a)
    BY <2>1, <2>2 DEF D!CambiarBloques, D!SoloCambia
  <2>4. QED BY <2>3 DEF D!DiscoNext
<1>6. CASE metadata[a] # NULL /\ metadata'[a] = NULL
  <2>1. a \in Existentes /\ Existentes' = Existentes \ {a}
    BY <1>3, <1>4, <1>6 DEF Existentes
  <2>2. Extension(a)' = {}
    BY <1>6 DEF Extension, ConBloques
  <2>3. ext' = [ext EXCEPT ![a] = {}]
    BY <1>1, <2>2
  <2>4. D!Eliminar(a)
    BY <2>1, <2>3 DEF D!Eliminar
  <2>5. QED BY <2>4 DEF D!DiscoNext
<1>7. CASE metadata[a] = NULL
  <2>1. a \notin Existentes /\ Existentes' = Existentes \cup {a}
    BY <1>3, <1>4, <1>7 DEF Existentes
  <2>2. Extension(a) = {} /\ Extension(a)' = {}
    BY <1>7 DEF Extension, ConBloques
  <2>3. ext' = ext
    BY <1>1, <2>2
  <2>4. D!CrearVacio(a)
    BY <2>1, <2>3 DEF D!CrearVacio
  <2>5. QED BY <2>4 DEF D!DiscoNext
<1>8. QED BY <1>5, <1>6, <1>7

LEMMA PasoImplementa ==
    ASSUME TipoInv, DiscoInv, [DialFSNext]_dialfsVars
    PROVE  [D!DiscoNext]_(D!discoVars)
<1>1. TipoInv' /\ DiscoInv'
  BY TipoPaso, SeguroPaso
<1>2. CASE UNCHANGED metadata
  <2>1. Existentes' = Existentes /\ \A f \in Archivos : Extension(f)' = Extension(f)
    BY <1>2 DEF Existentes, Extension, ConBloques, UsedBlocks
  <2>2. [f \in Archivos |-> Extension(f)]' = [f \in Archivos |-> Extension(f)]
    BY <2>1
  <2>3. QED BY <2>1, <2>2 DEF D!discoVars
<1>3. CASE QuitarMetadata \/ AnotarPrimero \/ AnotarTamanio
  <2>1. PICK a \in Archivos : a = op.archivo /\ metadata[a] # NULL
    BY <1>3, DelPedido DEF QuitarMetadata, AnotarPrimero, AnotarTamanio
  <2>2. \A g \in Archivos : g # a => metadata'[g] = metadata[g]
    BY <1>3, <2>1 DEF QuitarMetadata, AnotarPrimero, AnotarTamanio, Anotar, TipoInv, DialFSTypeOK
  <2>3. QED BY <1>1, <2>1, <2>2, PasoDeDisco
<1>4. CASE AnotarDestino \/ AnotarBytes
  <2>1. PICK a \in Archivos : a = op.mueve /\ metadata[a] # NULL
    BY <1>4, DelMovido DEF AnotarDestino, AnotarBytes, PcsReubicar
  <2>2. \A g \in Archivos : g # a => metadata'[g] = metadata[g]
    BY <1>4, <2>1 DEF AnotarDestino, AnotarBytes, Anotar, TipoInv, DialFSTypeOK
  <2>3. QED BY <1>1, <2>1, <2>2, PasoDeDisco
<1>5. ASSUME NEW a \in Archivos, FsCreate(a)
      PROVE  D!DiscoNext
  <2>1. Anotar(a, [bloque |-> -1, tamanio |-> 0]) /\ [bloque |-> -1, tamanio |-> 0] \in Metadatos
    BY <1>5 DEF FsCreate, Metadatos
  <2>2. /\ metadata'[a] = [bloque |-> -1, tamanio |-> 0]
        /\ \A g \in Archivos : g # a => metadata'[g] = metadata[g]
    BY <2>1, AnotarTipo DEF TipoInv
  <2>3. [bloque |-> -1, tamanio |-> 0] # NULL
    BY ConstantesDeDialFS
  <2>4. QED BY <1>1, <2>2, <2>3, PasoDeDisco
<1>6. \/ UNCHANGED metadata
      \/ QuitarMetadata \/ AnotarPrimero \/ AnotarTamanio
      \/ AnotarDestino \/ AnotarBytes
      \/ \E a \in Archivos : FsCreate(a)
  <2>1. CASE Seguir
    BY <2>1, Zenon DEF Seguir, UbicarPrimero, SinPrimero, Sumar, Sacar, HayQueCompactar, SinHueco,
       Soltar, Ocupar, Compactar, TrasCompactar
  <2>2. ASSUME NEW f \in Archivos, FsDelete(f) \/ \E s \in Tamanios : FsTruncate(f, s)
        PROVE  UNCHANGED metadata
    BY <2>2 DEF FsDelete, FsTruncate
  <2>3. CASE UNCHANGED dialfsVars
    BY <2>3 DEF dialfsVars
  <2>4. QED BY <2>1, <2>2, <2>3 DEF DialFSNext
<1>7. QED BY <1>2, <1>3, <1>4, <1>5, <1>6

\* Whatever happens to the bitmap, every write to a metadata file, also the two of a
\* relocation, is one of those that Disco allows: it changes one file and gives it no
\* block of another.
THEOREM DialFSImplementaDisco == DialFSSpec => ImplementaDisco
<1>1. DialFSInit => D!DiscoInit
  <2> SUFFICES ASSUME DialFSInit
               PROVE  D!DiscoInit
    OBVIOUS
  <2>1. Existentes = {} /\ \A f \in Archivos : Extension(f) = {}
    BY DEF DialFSInit, Existentes, Extension, ConBloques
  <2>2. [f \in Archivos |-> Extension(f)] = [f \in Archivos |-> {}]
    BY <2>1
  <2>3. QED BY <2>1, <2>2 DEF D!DiscoInit
<1>2. (TipoInv /\ DiscoInv) /\ [DialFSNext]_dialfsVars => [D!DiscoNext]_(D!discoVars)
  BY PasoImplementa
<1>3. QED BY <1>1, <1>2, DiscoInvSiempre, PTL DEF DialFSSpec, ImplementaDisco, D!DiscoSpec

===============================================================================
