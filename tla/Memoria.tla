-------------------------------- MODULE Memoria ---------------------------------
(***************************************************************************)
(* memoria/src/memory.c: a thread for each connection, that attends one    *)
(* request after the other.  The instructions are those of the last        *)
(* process that the kernel loaded, whoever asks for them.                  *)
(*                                                                         *)
(* dato is a number, a text or an instruction; logica and tipo are ghosts: *)
(* the logical address that the CPU translated, and what an answer, on the *)
(* wire a number or some bytes, answers to.                                *)
(***************************************************************************)
EXTENDS EspacioDeUsuario

CONSTANTS
    Conexiones,      \* the clients: the kernel, the CPU and the interfaces
    Pseudocodigos    \* the programs of the processes, for each behaviour

VARIABLES
    pseudocodigo,    \* pid -> its program, as the files have it
    instructions,    \* the process whose program is loaded, or NULL
    aMemoria,        \* connection -> requests
    deMemoria,       \* connection -> answers
    mudas,           \* history: connections that wait for no answer to come
    derrame          \* history: a write has gone where it was not meant to

memoriaVars == <<paginacionVars, mainMemory, pseudocodigo, instructions, aMemoria,
                 deMemoria, mudas, derrame>>

Sincronicos == {"REQUESTINSTRUCTIONS", "RESIZE", "SOLICITUD_FRAME", "MOVE_IN",
                "IO_STDIN_READ", "WRITE", "FS_WRITE"}
Asincronicos == {"PROCESSTOMEMORY", "MOVE_OUT", "COPY_STRING", "FS_READ"}

Accesos == {"MOVE_IN", "MOVE_OUT", "COPY_STRING", "IO_STDIN_READ", "WRITE", "FS_WRITE",
            "FS_READ"}

\* What answers each request: an instruction, a number, or a text.
Tipo(op) ==
    CASE op = "REQUESTINSTRUCTIONS" -> "INSTRUCCION"
      [] op \in {"WRITE", "FS_WRITE"} -> "TEXTO"
      [] OTHER -> "NUMERO"

Pedir(op, pid, dir, largo, dato, logica) ==
    [op |-> op, pid |-> pid, dir |-> dir, largo |-> largo, dato |-> dato, logica |-> logica]

\* A field that a message has not is 0.
PedirSinDireccion(op, pid, largo, dato) == Pedir(op, pid, 0, largo, dato, 0)

processToMemory(pid) == PedirSinDireccion("PROCESSTOMEMORY", pid, 0, 0)

instReqToMemory(pid, pc) == PedirSinDireccion("REQUESTINSTRUCTIONS", pid, 0, pc)

RESIZE_params(pid, bytes) == PedirSinDireccion("RESIZE", pid, bytes, 0)

solicitudFrameMemoria(pid, pagina) == PedirSinDireccion("SOLICITUD_FRAME", pid, 0, pagina)

MOVE_IN_TO_MEMORY(pid, dir, largo, logica) == Pedir("MOVE_IN", pid, dir, largo, 0, logica)

MOVE_OUT_TO_MEMORY(pid, dir, largo, dataRegistro, logica) ==
    Pedir("MOVE_OUT", pid, dir, largo, dataRegistro, logica)

\* dato is the physical address of the origin.
COPY_STRING_params(pid, dfDest, dfOrig, tam, logica) ==
    Pedir("COPY_STRING", pid, dfDest, tam, dfOrig, logica)

IO_STDIN_READ_WRITE_MEMORY(pid, dir, text, logica) ==
    Pedir("IO_STDIN_READ", pid, dir, Len(text), text, logica)

IO_STDOUT_WRITE_params(pid, dir, largo, logica) == Pedir("WRITE", pid, dir, largo, 0, logica)

IO_FS_WRITE_params(pid, dir, largo, logica) == Pedir("FS_WRITE", pid, dir, largo, 0, logica)

IO_FS_READ_TO_MEMORY(pid, dir, largo, word, logica) ==
    Pedir("FS_READ", pid, dir, largo, word, logica)

MemoriaTypeOK ==
    /\ EspacioTypeOK
    /\ instructions \in Pids \cup {NULL}
    /\ \A c \in Conexiones :
         /\ \A i \in 1 .. Len(aMemoria[c]) :
              /\ aMemoria[c][i].op \in Sincronicos \cup Asincronicos
              /\ aMemoria[c][i].pid \in Pids
              /\ aMemoria[c][i].largo \in Nat
         /\ \A i \in 1 .. Len(deMemoria[c]) :
              deMemoria[c][i].tipo \in {"INSTRUCCION", "NUMERO", "TEXTO"}
    /\ mudas \in SUBSET Conexiones
    /\ derrame \in BOOLEAN

MemoriaInit ==
    /\ EspacioInit
    /\ pseudocodigo \in Pseudocodigos
    /\ instructions = NULL
    /\ aMemoria = [c \in Conexiones |-> <<>>]
    /\ deMemoria = [c \in Conexiones |-> <<>>]
    /\ mudas = {}
    /\ derrame = FALSE

-------------------------------------------------------------------------------

\* The head of a connection, when it is a request for op and the memory works.
Pide(c, op) == ~crashed /\ aMemoria[c] # <<>> /\ Head(aMemoria[c]).op = op

Callar(c) ==
    /\ aMemoria' = [aMemoria EXCEPT ![c] = Tail(@)]
    /\ UNCHANGED deMemoria

Responder(c, dato) ==
    /\ aMemoria' = [aMemoria EXCEPT ![c] = Tail(@)]
    /\ deMemoria' = [deMemoria EXCEPT
                       ![c] = Append(@, [tipo |-> Tipo(Head(aMemoria[c]).op), dato |-> dato])]

Caida(c) ==
    /\ crashed' = TRUE
    /\ UNCHANGED <<bitArrayOcupiedFrames, pageTable, idGlobal, answer, mainMemory,
                   pseudocodigo, instructions, aMemoria, deMemoria, mudas, derrame>>

SinCambiarPaginas ==
    UNCHANGED <<bitArrayOcupiedFrames, pageTable, idGlobal, answer, crashed>>

\* What a buffer of n bytes turns out to hold when only its beginning was written.
Desborde(s, n) ==
    IF n <= Len(s) THEN {SubSeq(s, 1, n)}
    ELSE {s \o t : t \in [1 .. n - Len(s) -> Basura]}

\* The physical address of m is the one of its logical address, now.
Vigente(m) == m.logica < CurrentSize(m.pid) /\ m.dir = Traducida(m.pid, m.logica)

\* A write of the text s in the place that m says.  Without a table it is refused.
Escribir(m, s) ==
    IF pageTable[m.pid] = NULL
      THEN UNCHANGED <<mainMemory, derrame>>
      ELSE /\ mainMemory' = Escrita(m.pid, m.dir, s)
           /\ derrame' = (derrame \/ EscrituraDerrama(m.dir, Len(s)) \/ ~Vigente(m))

PuedeEscribir(m, n) == pageTable[m.pid] = NULL \/ ~EscrituraCae(m.pid, m.dir, n)

\* What is read of a process without a table is NULL, which strlen follows.
PuedeLeer(m, dir) == pageTable[m.pid] # NULL /\ ~LecturaCae(m.pid, dir, m.largo)

-------------------------------------------------------------------------------
(* The programs. *)

\* PROCESSTOMEMORY: nothing is answered.
CargarPrograma(c) ==
    /\ Pide(c, "PROCESSTOMEMORY")
    /\ instructions' = Head(aMemoria[c]).pid
    /\ Callar(c)
    /\ SinCambiarPaginas
    /\ UNCHANGED <<mainMemory, pseudocodigo, mudas, derrame>>

\* Mutant of DarInstruccion: the fetch has a connection of its own, and overtakes
\* what the CPU asked for before.
DarInstruccionPorOtraConexion(c) ==
    LET n == Len(aMemoria[c])
        pc == aMemoria[c][n].dato IN
    /\ ~crashed /\ n > 0 /\ aMemoria[c][n].op = "REQUESTINSTRUCTIONS"
    /\ instructions # NULL
    /\ pc + 1 \in DOMAIN pseudocodigo[instructions]
    /\ aMemoria' = [aMemoria EXCEPT ![c] = SubSeq(@, 1, n - 1)]
    /\ deMemoria' = [deMemoria EXCEPT
                       ![c] = Append(@, [tipo |-> "INSTRUCCION",
                                         dato |-> pseudocodigo[instructions][pc + 1]])]
    /\ SinCambiarPaginas
    /\ UNCHANGED <<mainMemory, pseudocodigo, instructions, mudas, derrame>>

\* getInstruction looks at no pid.
DarInstruccion(c) ==
    LET pc == Head(aMemoria[c]).dato IN
    /\ Pide(c, "REQUESTINSTRUCTIONS")
    /\ instructions # NULL
    /\ pc + 1 \in DOMAIN pseudocodigo[instructions]
    /\ Responder(c, pseudocodigo[instructions][pc + 1])
    /\ SinCambiarPaginas
    /\ UNCHANGED <<mainMemory, pseudocodigo, instructions, mudas, derrame>>

\* The NULL that ends the array: it is freed, and nobody is answered.
FinDelArreglo(c) ==
    /\ Pide(c, "REQUESTINSTRUCTIONS")
    /\ instructions # NULL
    /\ Head(aMemoria[c]).dato >= Len(pseudocodigo[instructions])
    /\ instructions' = NULL
    /\ mudas' = mudas \cup {c}
    /\ Callar(c)
    /\ SinCambiarPaginas
    /\ UNCHANGED <<mainMemory, pseudocodigo, derrame>>

\* An array that is not there, or a place past its end.
SinArreglo(c) ==
    /\ Pide(c, "REQUESTINSTRUCTIONS")
    /\ \/ instructions = NULL
       \/ instructions # NULL /\ Head(aMemoria[c]).dato > Len(pseudocodigo[instructions])
    /\ Caida(c)

-------------------------------------------------------------------------------
(* What the CPU asks for. *)

AtenderResize(c) ==
    LET m == Head(aMemoria[c]) IN
    /\ Pide(c, "RESIZE")
    /\ ResizeYLlenar(m.pid, m.largo)
    /\ \/ crashed' /\ UNCHANGED <<aMemoria, deMemoria>>
       \/ ~crashed' /\ Responder(c, answer'.okey)
    /\ UNCHANGED <<pseudocodigo, instructions, mudas, derrame>>

AtenderSolicitudFrame(c) ==
    /\ Pide(c, "SOLICITUD_FRAME")
    /\ Responder(c, GetFrame(Head(aMemoria[c]).pid, Head(aMemoria[c]).dato))
    /\ SinCambiarPaginas
    /\ UNCHANGED <<mainMemory, pseudocodigo, instructions, mudas, derrame>>

AtenderMoveIn(c) ==
    LET m == Head(aMemoria[c]) IN
    /\ Pide(c, "MOVE_IN")
    /\ PuedeLeer(m, m.dir)
    /\ Responder(c, CadenaANumero(Leida(m.pid, m.dir, m.largo)))
    /\ SinCambiarPaginas
    /\ UNCHANGED <<mainMemory, pseudocodigo, instructions, mudas, derrame>>

\* The bytes are taken from the address of a char: only the first one is it.
AtenderMoveOut(c) ==
    LET m == Head(aMemoria[c]) IN
    /\ Pide(c, "MOVE_OUT")
    /\ PuedeEscribir(m, m.largo)
    /\ \E s \in Desborde(<<m.dato % Base>>, m.largo) : Escribir(m, s)
    /\ Callar(c)
    /\ SinCambiarPaginas
    /\ UNCHANGED <<pseudocodigo, instructions, mudas>>

\* newSize is what was asked for, or the length of the string that is there.
AtenderCopyString(c) ==
    LET m == Head(aMemoria[c])
        s == Cadena(Leida(m.pid, m.dato, m.largo)) IN
    /\ Pide(c, "COPY_STRING")
    /\ PuedeLeer(m, m.dato)
    /\ PuedeEscribir(m, Len(s))
    /\ Escribir(m, s)
    /\ Callar(c)
    /\ SinCambiarPaginas
    /\ UNCHANGED <<pseudocodigo, instructions, mudas>>

AtenderALaCpu(c) ==
    \/ AtenderResize(c) \/ AtenderSolicitudFrame(c) \/ AtenderMoveIn(c)
    \/ AtenderMoveOut(c) \/ AtenderCopyString(c)

-------------------------------------------------------------------------------
(* What the interfaces ask for. *)

AtenderStdinRead(c) ==
    LET m == Head(aMemoria[c]) IN
    /\ Pide(c, "IO_STDIN_READ")
    /\ PuedeEscribir(m, Len(m.dato))
    /\ Escribir(m, m.dato)
    /\ Responder(c, 1)
    /\ SinCambiarPaginas
    /\ UNCHANGED <<pseudocodigo, instructions, mudas>>

\* WRITE answers as many bytes as it was asked for.
AtenderWrite(c) ==
    LET m == Head(aMemoria[c]) IN
    /\ Pide(c, "WRITE")
    /\ PuedeLeer(m, m.dir)
    /\ Responder(c, Leida(m.pid, m.dir, m.largo))
    /\ SinCambiarPaginas
    /\ UNCHANGED <<mainMemory, pseudocodigo, instructions, mudas, derrame>>

\* Without a table the length goes out, and the send of NULL fails.
WriteSinTabla(c) ==
    /\ Pide(c, "WRITE")
    /\ pageTable[Head(aMemoria[c]).pid] = NULL
    /\ mudas' = mudas \cup {c}
    /\ Callar(c)
    /\ SinCambiarPaginas
    /\ UNCHANGED <<mainMemory, pseudocodigo, instructions, derrame>>

\* FS_WRITE answers a string.
AtenderFsWrite(c) ==
    LET m == Head(aMemoria[c]) IN
    /\ Pide(c, "FS_WRITE")
    /\ PuedeLeer(m, m.dir)
    /\ Responder(c, Cadena(Leida(m.pid, m.dir, m.largo)))
    /\ SinCambiarPaginas
    /\ UNCHANGED <<mainMemory, pseudocodigo, instructions, mudas, derrame>>

\* Mutant of AtenderFsRead: it is answered, and nobody receives the answer.
AtenderFsReadQueResponde(c, s) ==
    LET m == Head(aMemoria[c]) IN
    /\ Pide(c, "FS_READ")
    /\ PuedeEscribir(m, m.largo)
    /\ s \in Desborde(Append(m.dato, 0), m.largo)
    /\ Escribir(m, s)
    /\ Responder(c, 1)
    /\ SinCambiarPaginas
    /\ UNCHANGED <<pseudocodigo, instructions, mudas>>

\* FS_READ answers nothing: the text is followed by its '\0', and by what there is.
AtenderFsRead(c, s) ==
    LET m == Head(aMemoria[c]) IN
    /\ Pide(c, "FS_READ")
    /\ PuedeEscribir(m, m.largo)
    /\ s \in Desborde(Append(m.dato, 0), m.largo)
    /\ Escribir(m, s)
    /\ Callar(c)
    /\ SinCambiarPaginas
    /\ UNCHANGED <<pseudocodigo, instructions, mudas>>

AtenderALaInterfaz(c) ==
    AtenderStdinRead(c) \/ AtenderWrite(c) \/ AtenderFsWrite(c)

\* A read or a write that goes where it should not.
AccesoIndebido(c) ==
    LET m == Head(aMemoria[c]) IN
    /\ ~crashed /\ aMemoria[c] # <<>> /\ m.op \in Accesos
    /\ \/ m.op \in {"MOVE_IN", "FS_WRITE"} /\ ~PuedeLeer(m, m.dir)
       \/ m.op = "WRITE" /\ pageTable[m.pid] # NULL /\ ~PuedeLeer(m, m.dir)
       \/ m.op \in {"MOVE_OUT", "FS_READ"} /\ ~PuedeEscribir(m, m.largo)
       \/ m.op = "IO_STDIN_READ" /\ ~PuedeEscribir(m, Len(m.dato))
       \/ m.op = "COPY_STRING"
          /\ \/ ~PuedeLeer(m, m.dato)
             \/ ~PuedeEscribir(m, Len(Cadena(Leida(m.pid, m.dato, m.largo))))
    /\ Caida(c)

===============================================================================
