------------------------------- MODULE Ejecucion --------------------------------
(***************************************************************************)
(* The data path: the CPU runs the instructions of the processes, over the *)
(* memory, and the interfaces move their data in and out.  It composes the *)
(* registers, the memory, and of the CPU, the kernel and the interfaces    *)
(* what the data pass through.                                             *)
(*                                                                         *)
(* The queues, semaphores and commands of the kernel are in Kernel, and    *)
(* the TLB in Mmu: here it has no rows, as in cpu.config.  The quantum may *)
(* end after any instruction.  One PCB is alive of each process, so that   *)
(* its registers are kept in one place while it travels.                   *)
(***************************************************************************)
EXTENDS Memoria

CONSTANTS
    Interfaces,   \* the names of the interfaces that are connected
    TipoInterfaz, \* interface -> TIPO_INTERFAZ
    Textos,       \* what is typed, or read from a file
    MaxDesalojos, \* bound: how many times a quantum ends in a behaviour
    MaxAdelantada \* bound: only these first instructions of a process may be fetched
                  \* before the memory has its program

\* A PCB that the CPU sends back, and why.
Regresos == [pid : Pids, reason : {"QUANTUM", "IO", "EXIT", "ERROR"}]

ASSUME ConstantesDeEjecucion ==
    /\ Conexiones = {"KERNEL", "CPU"} \cup Interfaces
    /\ {"KERNEL", "CPU"} \cap Interfaces = {}
    /\ IsFiniteSet(Pids)
    /\ NULL \notin Pids /\ NULL \notin Regresos
    /\ TipoInterfaz \in [Interfaces -> {"GENERIC", "STDIN", "STDOUT", "DIALFS"}]
    /\ MaxDesalojos \in Nat /\ MaxAdelantada \in Nat
    /\ \A t \in Textos : t \in Seq(Byte \ {0}) /\ t # <<>>

VARIABLES
    registros,    \* pid -> the registers of its PCB
    estado,       \* pid -> state of the PCB
    info,         \* pid -> context->info: the IO operation it asked for, or NULL
    queueReadys,
    porEnviar,    \* executePcb: the process that has still to go to the memory
    cpu,          \* the thread executeInstrucions
    desalojos,    \* the quanta that have ended
    vuelve,       \* the PCB that the CPU sent back and its reason, or NULL
    paramsIo,     \* the process a new thread of ioFunction will read, or NULL
    pisado,       \* history: paramsIo was written over before it was read
    aInterfaz,    \* interface -> requests of the kernel
    deInterfaz,   \* interface -> FINISHED_IO and FINISHED_IO_ERROR
    interfaz,     \* interface -> what it is doing
    salida,       \* pid -> the last text of it that was printed or filed, or NULL
    ioHecha       \* history: the processes whose IO has done what it had to

memoriaInterna == <<paginacionVars, mainMemory, pseudocodigo, instructions, mudas, derrame>>
planVars == <<estado, queueReadys, porEnviar, paramsIo, pisado>>
interfazVars == <<aInterfaz, deInterfaz, interfaz, salida>>
ejecucionVars == <<memoriaVars, planVars, interfazVars, info, vuelve, cpu, desalojos, registros,
                   ioHecha>>

OpsIo == {"IO_GEN_SLEEP", "IO_STDIN_READ", "IO_STDOUT_WRITE", "IO_FS_CREATE",
          "IO_FS_DELETE", "IO_FS_TRUNCATE", "IO_FS_WRITE", "IO_FS_READ"}
OpsIoConDireccion == {"IO_STDIN_READ", "IO_STDOUT_WRITE", "IO_FS_WRITE", "IO_FS_READ"}
OpsMov == {"MOV_IN", "MOV_OUT"}
OpsLocales == {"SET", "SUM", "SUB", "JNZ"}

\* An instruction as getNextWord reads it.
BienEscrita(i) ==
    /\ i.op \in OpsLocales \cup OpsMov \cup OpsIo \cup {"RESIZE", "COPY_STRING", "EXIT"}
    /\ i.a \in Reg8 \cup Reg32 /\ i.b \in Reg8 \cup Reg32
    /\ i.n \in Nat
    /\ i.op = "RESIZE" => i.n \in Tamanios

ASSUME ProgramasBienEscritos ==
    \A programas \in Pseudocodigos, p \in Pids : \A k \in DOMAIN programas[p] :
        BienEscrita(programas[p][k])

Estados == {"READY", "EXEC", "BLOCKED", "EXIT"}

\* What the thread of the CPU is doing: nothing, about to fetch, or waiting for an
\* instruction, a frame, a number read or the answer to RESIZE.
FasesCpu == {"libre", "pedir", "instruccion", "frame", "dato", "okey"}

CpuLibre == [fase |-> "libre", pid |-> NULL, inst |-> NULL, dirs |-> <<>>, datos |-> <<>>]

InterfazLibre == [fase |-> "libre", pid |-> NULL]

EjecucionTypeOK ==
    /\ MemoriaTypeOK
    /\ registros \in [Pids -> JuegoDeRegistros]
    /\ estado \in [Pids -> Estados]
    /\ queueReadys \in Seq(Pids)
    /\ porEnviar \in Pids \cup {NULL}
    /\ cpu.fase \in FasesCpu /\ cpu.pid \in Pids \cup {NULL}
    /\ cpu.dirs \in Seq(Int) /\ cpu.datos \in Seq(0 .. Entera - 1)
    /\ vuelve \in Regresos \cup {NULL}
    /\ paramsIo \in Pids \cup {NULL} /\ pisado \in BOOLEAN
    /\ \A i \in Interfaces : interfaz[i].fase \in {"libre", "memoria", "avisar"}
    /\ ioHecha \in SUBSET Pids /\ desalojos \in 0 .. MaxDesalojos
    /\ cpu.fase = "libre" <=> cpu.pid = NULL
    /\ \A p \in Pids : estado[p] = "EXEC" <=> cpu.pid = p \/ (vuelve # NULL /\ vuelve.pid = p)

EjecucionInit ==
    /\ MemoriaInit
    /\ registros = [p \in Pids |-> EnCero]
    /\ estado = [p \in Pids |-> "READY"]
    /\ info = [p \in Pids |-> NULL]
    /\ queueReadys \in [1 .. Cardinality(Pids) -> Pids]
    /\ \A p \in Pids : \E i \in DOMAIN queueReadys : queueReadys[i] = p
    /\ porEnviar = NULL
    /\ cpu = CpuLibre
    /\ desalojos = 0
    /\ vuelve = NULL
    /\ paramsIo = NULL /\ pisado = FALSE
    /\ aInterfaz = [i \in Interfaces |-> <<>>]
    /\ deInterfaz = [i \in Interfaces |-> <<>>]
    /\ interfaz = [i \in Interfaces |-> InterfazLibre]
    /\ salida = [p \in Pids |-> NULL]
    /\ ioHecha = {}

\* The memory fell, a write went where it should not, or a request of IO was lost:
\* nothing is promised from there on, and the model stops.
Funciona == ~crashed /\ ~derrame /\ ~pisado

-------------------------------------------------------------------------------
(* executeInstrucions and executeOperations. *)

Preguntar(c, m) == aMemoria' = [aMemoria EXCEPT ![c] = Append(@, m)]

\* The answer that the CPU waits for, and takes.
Recibe(fase) == cpu.fase = fase /\ deMemoria["CPU"] # <<>>

Recibido == Head(deMemoria["CPU"]).dato

Consumir(c) == deMemoria' = [deMemoria EXCEPT ![c] = Tail(@)]

\* The program counter goes forward before the instruction is executed.
RegsTrasPc == Set(registros[cpu.pid], "PC", registros[cpu.pid]["PC"] + 1)

PedirInstruccion ==
    /\ cpu.fase = "pedir"
    /\ \/ registros[cpu.pid]["PC"] < MaxAdelantada
       \/ porEnviar = NULL /\ aMemoria["KERNEL"] = <<>>
    /\ cpu' = [cpu EXCEPT !.fase = "instruccion"]
    /\ Preguntar("CPU", instReqToMemory(cpu.pid, registros[cpu.pid]["PC"]))
    /\ UNCHANGED <<deMemoria, registros, vuelve, desalojos, info>>

\* The end of an instruction that does not leave the CPU: the quantum may be over.
Terminar(regs) ==
    /\ registros' = [registros EXCEPT ![cpu.pid] = regs]
    /\ \/ /\ cpu' = [CpuLibre EXCEPT !.fase = "pedir", !.pid = cpu.pid]
          /\ UNCHANGED <<vuelve, desalojos>>
       \/ /\ desalojos < MaxDesalojos
          /\ desalojos' = desalojos + 1
          /\ cpu' = CpuLibre
          /\ vuelve' = [pid |-> cpu.pid, reason |-> "QUANTUM"]
    /\ UNCHANGED info

\* The end of one that leaves it: sendPcb.
Devolver(regs, reason, operacion) ==
    /\ registros' = [registros EXCEPT ![cpu.pid] = regs]
    /\ cpu' = CpuLibre
    /\ vuelve' = [pid |-> cpu.pid, reason |-> reason]
    /\ info' = [info EXCEPT ![cpu.pid] = operacion]
    /\ UNCHANGED desalojos

Calcular(i, regs) ==
    CASE i.op = "SET" -> Set(regs, i.a, i.n)
      [] i.op = "SUM" -> Sum(regs, i.a, i.b)
      [] i.op = "SUB" -> Sub(regs, i.a, i.b)
      [] i.op = "JNZ" -> Jnz(regs, i.a, i.n)

EjecutarLocal ==
    /\ Recibe("instruccion") /\ Recibido.op \in OpsLocales
    /\ Consumir("CPU")
    /\ Terminar(Calcular(Recibido, RegsTrasPc))
    /\ UNCHANGED aMemoria

\* EXIT, and the operations of IO that name no address.
SalirSinAcceso ==
    /\ Recibe("instruccion")
    /\ \/ Recibido.op = "EXIT" /\ Devolver(RegsTrasPc, "EXIT", NULL)
       \/ /\ Recibido.op \in OpsIo \ OpsIoConDireccion
          /\ Devolver(RegsTrasPc, "IO", [op |-> Recibido.op, io |-> Recibido.io, dir |-> 0,
                                         largo |-> 0, logica |-> 0])
    /\ Consumir("CPU")
    /\ UNCHANGED aMemoria

PedirResize ==
    /\ Recibe("instruccion") /\ Recibido.op = "RESIZE"
    /\ Consumir("CPU")
    /\ cpu' = [cpu EXCEPT !.fase = "okey", !.inst = Recibido]
    /\ registros' = [registros EXCEPT ![cpu.pid] = RegsTrasPc]
    /\ Preguntar("CPU", RESIZE_params(cpu.pid, Recibido.n))
    /\ UNCHANGED <<vuelve, desalojos, info>>

\* "ERROR RESIZE: Out Of Memory"
RecibirOkey ==
    /\ Recibe("okey")
    /\ Consumir("CPU")
    /\ \/ Recibido = 1 /\ Terminar(registros[cpu.pid])
       \/ Recibido = 0 /\ Devolver(registros[cpu.pid], "ERROR", NULL)
    /\ UNCHANGED aMemoria

-------------------------------------------------------------------------------
(* The instructions with an address: each of its parts is translated, with a  *)
(* question to the memory, before it is asked for.                            *)

Parte(dir, largo) == [dir |-> dir, largo |-> largo]

PaginaDividida(dir) == (dir % PageLength) + 4 > PageLength

\* A register of 32 bits may be in two pages.
Partes(dir, r) ==
    LET primera == PageLength - (dir % PageLength) IN
    IF r \in Reg8 THEN <<Parte(dir, 1)>>
    ELSE IF PaginaDividida(dir)
      THEN <<Parte(dir, primera), Parte(dir + primera, 4 - primera)>>
      ELSE <<Parte(dir, 4)>>

\* COPY_STRING translates DI, where it writes, and then SI.
PartesDe(i, regs) ==
    CASE i.op = "MOV_IN" -> Partes(regs[i.b], i.a)
      [] i.op = "MOV_OUT" -> Partes(regs[i.a], i.b)
      [] i.op = "COPY_STRING" -> <<Parte(regs["DI"], i.n), Parte(regs["SI"], i.n)>>
      [] OTHER -> <<Parte(regs[i.a], regs[i.b])>>

\* logicalToPhysicalAddress, and buscarFrameEnMemoria: there are no rows in the TLB.
SolicitudFrame(dir) == solicitudFrameMemoria(cpu.pid, dir \div PageLength)

EmpezarAcceso ==
    /\ Recibe("instruccion")
    /\ Recibido.op \in OpsMov \cup OpsIoConDireccion \cup {"COPY_STRING"}
    /\ Consumir("CPU")
    /\ cpu' = [cpu EXCEPT !.fase = "frame", !.inst = Recibido]
    /\ registros' = [registros EXCEPT ![cpu.pid] = RegsTrasPc]
    /\ Preguntar("CPU", SolicitudFrame(PartesDe(Recibido, RegsTrasPc)[1].dir))
    /\ UNCHANGED <<vuelve, desalojos, info>>

LasPartes == PartesDe(cpu.inst, registros[cpu.pid])

\* The part whose frame arrives, and the physical address it has.
ParteActual == LasPartes[Len(cpu.dirs) + 1]

\* Mutant of Fisica: every part is at the place of the first in its page.
FisicaDeLaPrimera == Recibido * PageLength + (LasPartes[1].dir % PageLength)

Fisica == Recibido * PageLength + (ParteActual.dir % PageLength)

EsUltima == Len(cpu.dirs) + 1 = Len(LasPartes)

\* Between a part and the next one.
Seguir(fase, dirs, datos) ==
    /\ cpu' = [cpu EXCEPT !.fase = fase, !.dirs = dirs, !.datos = datos]
    /\ UNCHANGED <<registros, vuelve, desalojos, info>>

RecibirFrameDeMovIn ==
    /\ Recibe("frame") /\ cpu.inst.op = "MOV_IN"
    /\ Consumir("CPU")
    /\ Preguntar("CPU", MOVE_IN_TO_MEMORY(cpu.pid, Fisica, ParteActual.largo, ParteActual.dir))
    /\ Seguir("dato", Append(cpu.dirs, Fisica), cpu.datos)

\* ejecutar_mov_in_cuatro_bytes, leer_y_guardar_de_dos_paginas
RecibirDato ==
    /\ Recibe("dato")
    /\ Consumir("CPU")
    /\ \/ /\ Len(cpu.dirs) < Len(LasPartes)
          /\ Preguntar("CPU", SolicitudFrame(ParteActual.dir))
          /\ Seguir("frame", cpu.dirs, Append(cpu.datos, Recibido))
       \/ /\ Len(cpu.dirs) = Len(LasPartes)
          /\ Terminar(Set(registros[cpu.pid], cpu.inst.a,
                          Armar(Append(cpu.datos, Recibido), LasPartes[1].largo)))
          /\ UNCHANGED aMemoria

\* What each part of a MOV_OUT sends: the register, or its halves.
Enviado ==
    LET valor == registros[cpu.pid][cpu.inst.b] IN
    IF Len(LasPartes) = 1 THEN valor ELSE PartesDeMovOut(valor)[Len(cpu.dirs) + 1]

MoveOut == MOVE_OUT_TO_MEMORY(cpu.pid, Fisica, ParteActual.largo, Enviado, ParteActual.dir)

\* Nothing answers a MOVE_OUT: the CPU goes on.
RecibirFrameDeMovOut ==
    /\ Recibe("frame") /\ cpu.inst.op = "MOV_OUT"
    /\ Consumir("CPU")
    /\ \/ /\ EsUltima
          /\ Preguntar("CPU", MoveOut)
          /\ Terminar(registros[cpu.pid])
       \/ /\ ~EsUltima
          /\ aMemoria' = [aMemoria EXCEPT
               !["CPU"] = @ \o <<MoveOut, SolicitudFrame(LasPartes[Len(cpu.dirs) + 2].dir)>>]
          /\ Seguir("frame", Append(cpu.dirs, Fisica), <<>>)

RecibirFrameDeCopyString ==
    /\ Recibe("frame") /\ cpu.inst.op = "COPY_STRING"
    /\ Consumir("CPU")
    /\ \/ /\ ~EsUltima
          /\ Preguntar("CPU", SolicitudFrame(LasPartes[2].dir))
          /\ Seguir("frame", Append(cpu.dirs, Fisica), <<>>)
       \/ /\ EsUltima
          /\ Preguntar("CPU", COPY_STRING_params(cpu.pid, cpu.dirs[1], Fisica, cpu.inst.n,
                                               LasPartes[1].dir))
          /\ Terminar(registros[cpu.pid])

RecibirFrameDeIo ==
    /\ Recibe("frame") /\ cpu.inst.op \in OpsIo
    /\ Consumir("CPU")
    /\ Devolver(registros[cpu.pid], "IO",
                [op |-> cpu.inst.op, io |-> cpu.inst.io, dir |-> Fisica,
                 largo |-> ParteActual.largo, logica |-> ParteActual.dir])
    /\ UNCHANGED aMemoria

Cpu ==
    /\ \/ PedirInstruccion \/ EjecutarLocal \/ SalirSinAcceso \/ PedirResize \/ RecibirOkey
       \/ EmpezarAcceso \/ RecibirFrameDeMovIn \/ RecibirDato \/ RecibirFrameDeMovOut
       \/ RecibirFrameDeCopyString \/ RecibirFrameDeIo
    /\ UNCHANGED <<memoriaInterna, planVars, interfazVars, ioHecha>>

-------------------------------------------------------------------------------
(* The kernel. *)

\* executePcb: the PCB goes to the CPU first.  The planner waits for the CPU to be
\* free, and is back from the executePcb before.
Despachar ==
    /\ queueReadys # <<>>
    /\ cpu.fase = "libre" /\ vuelve = NULL
    /\ porEnviar = NULL
    /\ cpu' = [CpuLibre EXCEPT !.fase = "pedir", !.pid = Head(queueReadys)]
    /\ porEnviar' = Head(queueReadys)
    /\ estado' = [estado EXCEPT ![Head(queueReadys)] = "EXEC"]
    /\ queueReadys' = Tail(queueReadys)
    /\ UNCHANGED <<memoriaVars, interfazVars, info, vuelve, desalojos, registros, paramsIo, pisado,
                   ioHecha>>

\* Mutant of EnviarPrograma: only the first time that the process runs.
EnviarProgramaUnaVez ==
    /\ porEnviar # NULL
    /\ IF registros[porEnviar]["PC"] = 0
         THEN Preguntar("KERNEL", processToMemory(porEnviar))
         ELSE UNCHANGED aMemoria
    /\ porEnviar' = NULL
    /\ UNCHANGED <<memoriaInterna, deMemoria, interfazVars, info, vuelve, cpu, desalojos, registros,
                   estado, queueReadys, paramsIo, pisado, ioHecha>>

\* And then its program to the memory.
EnviarPrograma ==
    /\ porEnviar # NULL
    /\ Preguntar("KERNEL", processToMemory(porEnviar))
    /\ porEnviar' = NULL
    /\ UNCHANGED <<memoriaInterna, deMemoria, interfazVars, info, vuelve, cpu, desalojos, registros,
                   estado, queueReadys, paramsIo, pisado, ioHecha>>

\* checkResponseOfCpu, case PCB.  paramsIo is one variable, whose address the new
\* thread is given.
RecibirPcb ==
    LET p == vuelve.pid IN
    /\ vuelve # NULL
    /\ vuelve' = NULL
    /\ \/ /\ vuelve.reason = "QUANTUM"
          /\ estado' = [estado EXCEPT ![p] = "READY"]
          /\ queueReadys' = Append(queueReadys, p)
          /\ UNCHANGED <<paramsIo, pisado>>
       \/ /\ vuelve.reason = "IO"
          /\ estado' = [estado EXCEPT ![p] = "BLOCKED"]
          /\ paramsIo' = p
          /\ pisado' = (paramsIo # NULL)
          /\ UNCHANGED queueReadys
       \/ /\ vuelve.reason \in {"EXIT", "ERROR"}
          /\ estado' = [estado EXCEPT ![p] = "EXIT"]
          /\ UNCHANGED <<queueReadys, paramsIo, pisado>>
    /\ UNCHANGED <<memoriaVars, interfazVars, info, cpu, desalojos, registros, porEnviar, ioHecha>>

\* ioFunction: the request goes to the interface, with the process that paramsIo
\* names now; without the interface the process is deleted.
IoFunction ==
    LET p == paramsIo IN
    /\ paramsIo # NULL
    /\ paramsIo' = NULL
    /\ \/ /\ info[p].io \in Interfaces
          /\ aInterfaz' = [aInterfaz EXCEPT ![info[p].io] = Append(@, p)]
          /\ UNCHANGED <<estado, info>>
       \/ /\ info[p].io \notin Interfaces
          /\ estado' = [estado EXCEPT ![p] = "EXIT"]
          /\ info' = [info EXCEPT ![p] = NULL]
          /\ UNCHANGED aInterfaz
    /\ UNCHANGED <<memoriaVars, deInterfaz, interfaz, salida, vuelve, cpu, desalojos, registros,
                   queueReadys, porEnviar, pisado, ioHecha>>

\* operate, FINISHED_IO: desblockPcb; FINISHED_IO_ERROR: deletePcb.
TerminarIo(i) ==
    LET p == Head(deInterfaz[i]).pid IN
    /\ deInterfaz[i] # <<>>
    /\ deInterfaz' = [deInterfaz EXCEPT ![i] = Tail(@)]
    /\ info' = [info EXCEPT ![p] = NULL]
    /\ ioHecha' = ioHecha \ {p}
    /\ \/ /\ Head(deInterfaz[i]).op = "FINISHED_IO"
          /\ estado' = [estado EXCEPT ![p] = "READY"]
          /\ queueReadys' = Append(queueReadys, p)
       \/ /\ Head(deInterfaz[i]).op = "FINISHED_IO_ERROR"
          /\ estado' = [estado EXCEPT ![p] = "EXIT"]
          /\ UNCHANGED queueReadys
    /\ UNCHANGED <<memoriaVars, aInterfaz, interfaz, salida, vuelve, cpu, desalojos, registros,
                   porEnviar, paramsIo, pisado>>

-------------------------------------------------------------------------------
(* The interfaces: a loop that attends one request after the other.  A request *)
(* is the info of its process.  Every name of a file is some characters long.  *)

OpsDe(i) ==
    CASE TipoInterfaz[i] = "GENERIC" -> {"IO_GEN_SLEEP"}
      [] TipoInterfaz[i] = "STDIN" -> {"IO_STDIN_READ"}
      [] TipoInterfaz[i] = "STDOUT" -> {"IO_STDOUT_WRITE"}
      [] TipoInterfaz[i] = "DIALFS" -> {"IO_FS_CREATE", "IO_FS_DELETE", "IO_FS_TRUNCATE",
                                        "IO_FS_WRITE", "IO_FS_READ"}

\* The interface i takes a request of the process p for one of the operations ops.
Toma(i, p, ops) ==
    /\ interfaz[i].fase = "libre"
    /\ aInterfaz[i] # <<>> /\ Head(aInterfaz[i]) = p
    /\ info[p].op \in ops
    /\ aInterfaz' = [aInterfaz EXCEPT ![i] = Tail(@)]

\* sendPid and sendPidError.
Avisar(i, p, op) == deInterfaz' = [deInterfaz EXCEPT ![i] = Append(@, [op |-> op, pid |-> p])]

\* Mutant of Rechazar: the kernel is not told.
RechazarCallado(i, p) ==
    /\ Toma(i, p, OpsIo \ OpsDe(i))
    /\ UNCHANGED <<aMemoria, deMemoria, deInterfaz, interfaz, salida, ioHecha>>

\* "Esta interfaz no puede realizar esta accion"
Rechazar(i, p) ==
    /\ Toma(i, p, OpsIo \ OpsDe(i))
    /\ Avisar(i, p, "FINISHED_IO_ERROR")
    /\ UNCHANGED <<aMemoria, deMemoria, interfaz, salida, ioHecha>>

HacerSinMemoria(i, p) ==
    /\ Toma(i, p, OpsDe(i) \ OpsIoConDireccion)
    /\ Avisar(i, p, "FINISHED_IO")
    /\ ioHecha' = ioHecha \cup {p}
    /\ UNCHANGED <<aMemoria, deMemoria, interfaz, salida>>

\* FS_TRUNCATE has no room, or FS_READ no file.
Fallar(i, p) ==
    /\ Toma(i, p, OpsDe(i) \cap {"IO_FS_TRUNCATE", "IO_FS_READ"})
    /\ Avisar(i, p, "FINISHED_IO_ERROR")
    /\ UNCHANGED <<aMemoria, deMemoria, interfaz, salida, ioHecha>>

\* As much of the text t as fits in n bytes.
Hasta(t, n) == SubSeq(t, 1, IF Len(t) <= n THEN Len(t) ELSE n)

Ocupar(i, p, fase) == interfaz' = [interfaz EXCEPT ![i] = [fase |-> fase, pid |-> p]]

\* strncpy of what was typed.
LeerTeclado(i, p) ==
    /\ Toma(i, p, OpsDe(i) \cap {"IO_STDIN_READ"})
    /\ \E t \in Textos :
         Preguntar(i, IO_STDIN_READ_WRITE_MEMORY(p, info[p].dir, Hasta(t, info[p].largo),
                                                 info[p].logica))
    /\ Ocupar(i, p, "memoria")
    /\ UNCHANGED <<deMemoria, deInterfaz, salida, ioHecha>>

PedirTexto(i, p) ==
    /\ Toma(i, p, OpsDe(i) \cap {"IO_STDOUT_WRITE", "IO_FS_WRITE"})
    /\ Preguntar(i, IF info[p].op = "IO_STDOUT_WRITE"
                      THEN IO_STDOUT_WRITE_params(p, info[p].dir, info[p].largo, info[p].logica)
                      ELSE IO_FS_WRITE_params(p, info[p].dir, info[p].largo, info[p].logica))
    /\ Ocupar(i, p, "memoria")
    /\ UNCHANGED <<deMemoria, deInterfaz, salida, ioHecha>>

\* The text that came is printed, or written in the file.
RecibirDeMemoria(i, p) ==
    /\ interfaz[i] = [fase |-> "memoria", pid |-> p]
    /\ deMemoria[i] # <<>>
    /\ Consumir(i)
    /\ IF Head(deMemoria[i]).tipo = "TEXTO"
         THEN salida' = [salida EXCEPT ![p] = Head(deMemoria[i]).dato]
         ELSE UNCHANGED salida
    /\ Avisar(i, p, "FINISHED_IO")
    /\ interfaz' = [interfaz EXCEPT ![i] = InterfazLibre]
    /\ UNCHANGED <<aMemoria, aInterfaz, ioHecha>>

\* What was read of the file goes to the memory, and nothing is waited for.  fsRead
\* drops the zeros, and reads a byte too many.
EnviarLoLeido(i, p) ==
    /\ Toma(i, p, OpsDe(i) \cap {"IO_FS_READ"})
    /\ \E t \in Textos \cup {<<>>} :
         Preguntar(i, IO_FS_READ_TO_MEMORY(p, info[p].dir, info[p].largo,
                                           Hasta(t, info[p].largo + 1), info[p].logica))
    /\ ioHecha' = ioHecha \cup {p}
    /\ Ocupar(i, p, "avisar")
    /\ UNCHANGED <<deMemoria, deInterfaz, salida>>

AvisarLoLeido(i, p) ==
    /\ interfaz[i] = [fase |-> "avisar", pid |-> p]
    /\ Avisar(i, p, "FINISHED_IO")
    /\ interfaz' = [interfaz EXCEPT ![i] = InterfazLibre]
    /\ UNCHANGED <<aMemoria, deMemoria, aInterfaz, salida, ioHecha>>

Interfaz(i) ==
    /\ \E p \in Pids :
         \/ Rechazar(i, p) \/ HacerSinMemoria(i, p) \/ Fallar(i, p) \/ LeerTeclado(i, p)
         \/ PedirTexto(i, p) \/ RecibirDeMemoria(i, p) \/ EnviarLoLeido(i, p)
         \/ AvisarLoLeido(i, p)
    /\ UNCHANGED <<memoriaInterna, planVars, info, vuelve, cpu, desalojos, registros>>

-------------------------------------------------------------------------------
(* The memory, a thread for each connection. *)

MemoriaALaCpu ==
    /\ \/ DarInstruccion("CPU") \/ FinDelArreglo("CPU") \/ SinArreglo("CPU")
       \/ AtenderALaCpu("CPU") \/ AccesoIndebido("CPU")
    /\ UNCHANGED ioHecha

MemoriaALaInterfaz(i) ==
    \/ AtenderALaInterfaz(i) /\ ioHecha' = ioHecha \cup {Head(aMemoria[i]).pid}
    \/ WriteSinTabla(i) /\ UNCHANGED ioHecha
    \/ AccesoIndebido(i) /\ UNCHANGED ioHecha

FueraDeLaMemoria == UNCHANGED <<planVars, interfazVars, info, vuelve, cpu, desalojos, registros>>

\* What is read of a file arrives when the process may already be executing.
MemoriaEscribeLoLeido(i) ==
    /\ Pide(i, "FS_READ")
    /\ \E s \in Desborde(Append(Head(aMemoria[i]).dato, 0), Head(aMemoria[i]).largo) :
         AtenderFsRead(i, s)
    /\ UNCHANGED ioHecha

-------------------------------------------------------------------------------

MemoriaAtiende(c) ==
    /\ FueraDeLaMemoria
    /\ \/ c = "KERNEL" /\ CargarPrograma(c) /\ UNCHANGED ioHecha
       \/ c = "CPU" /\ MemoriaALaCpu
       \/ c \in Interfaces /\ (MemoriaALaInterfaz(c) \/ MemoriaEscribeLoLeido(c))

Paso(A) == Funciona /\ A

EjecucionNext ==
    \/ Paso(Cpu) \/ Paso(Despachar) \/ Paso(EnviarPrograma) \/ Paso(RecibirPcb)
    \/ Paso(IoFunction)
    \/ \E i \in Interfaces : Paso(TerminarIo(i)) \/ Paso(Interfaz(i))
    \/ \E c \in Conexiones : Paso(MemoriaAtiende(c))

\* Each thread goes on while it can: the planner, the one that attends the CPU, the
\* one of the requests of IO, the one of each interface and of each connection.
EjecucionFairness ==
    /\ WF_ejecucionVars(Paso(Cpu))
    /\ WF_ejecucionVars(Paso(Despachar \/ EnviarPrograma))
    /\ WF_ejecucionVars(Paso(RecibirPcb))
    /\ WF_ejecucionVars(Paso(IoFunction))
    /\ \A i \in Interfaces :
         WF_ejecucionVars(Paso(TerminarIo(i))) /\ WF_ejecucionVars(Paso(Interfaz(i)))
    /\ \A c \in Conexiones : WF_ejecucionVars(Paso(MemoriaAtiende(c)))

EjecucionSpec == EjecucionInit /\ [][EjecucionNext]_ejecucionVars /\ EjecucionFairness

-------------------------------------------------------------------------------
(* Properties. *)

\* The client c waits for an answer of the memory, of the type TipoEsperado(c).
Espera(c) ==
    \/ c = "CPU" /\ cpu.fase \in {"instruccion", "frame", "dato", "okey"}
    \/ c \in Interfaces /\ interfaz[c].fase = "memoria"

\* An interface receives a number or a text according to its type.
TipoEsperado(c) ==
    IF c = "CPU" THEN IF cpu.fase = "instruccion" THEN "INSTRUCCION" ELSE "NUMERO"
    ELSE IF TipoInterfaz[c] = "STDIN" THEN "NUMERO" ELSE "TEXTO"

\* The dialogue on a connection: a client that waits has one question, its last request,
\* or one answer and nothing else, of what it waits for; one that does not has neither.
EnDialogo(pedidos, respuestas, espera, tipo) ==
    \/ /\ ~espera
       /\ respuestas = <<>>
       /\ \A k \in 1 .. Len(pedidos) : pedidos[k].op \in Asincronicos
    \/ /\ espera
       /\ respuestas = <<>>
       /\ pedidos # <<>>
       /\ \A k \in 1 .. Len(pedidos) - 1 : pedidos[k].op \in Asincronicos
       /\ pedidos[Len(pedidos)].op \in Sincronicos
       /\ Tipo(pedidos[Len(pedidos)].op) = tipo
    \/ /\ espera
       /\ pedidos = <<>>
       /\ Len(respuestas) = 1 /\ respuestas[1].tipo = tipo

\* No answer carries the request it is for, and some requests have none: what a client
\* receives is nevertheless the answer to its question, and the one that the memory
\* has left without an answer waits with nothing on its connection.
DialogoConLaMemoria ==
    \A c \in Conexiones :
        IF c \in mudas THEN Espera(c) /\ aMemoria[c] = <<>> /\ deMemoria[c] = <<>>
        ELSE EnDialogo(aMemoria[c], deMemoria[c], Espera(c), TipoEsperado(c))

\* A physical address of the process p, kept since it was translated.
Corresponde(p, dir, logica) ==
    IF logica < CurrentSize(p) THEN dir = Traducida(p, logica) ELSE dir \notin Direcciones

\* The address of an access is translated by the CPU and used later, by itself or by
\* an interface while the process is blocked: the pages have not changed since.
DireccionesVigentes ==
    Funciona =>
      /\ \A c \in Conexiones : \A k \in 1 .. Len(aMemoria[c]) :
           aMemoria[c][k].op \in Accesos \ {"FS_READ"}
             => Corresponde(aMemoria[c][k].pid, aMemoria[c][k].dir, aMemoria[c][k].logica)
      /\ \A p \in Pids :
           info[p] # NULL /\ info[p].op \in OpsIoConDireccion
             => Corresponde(p, info[p].dir, info[p].logica)

\* An access that is longer than its page goes on in the page that follows in the
\* table, wherever its frame is: it reads, and writes, the logical bytes it names.
AccesosFieles ==
    \A c \in Conexiones :
        aMemoria[c] # <<>> =>
          LET m == Head(aMemoria[c])
              n == IF m.op = "IO_STDIN_READ" THEN Len(m.dato) ELSE m.largo
              Dentro(k) == m.logica + k < CurrentSize(m.pid) IN
          /\ m.op \in {"MOVE_IN", "WRITE", "FS_WRITE"} /\ Vigente(m) /\ PuedeLeer(m, m.dir)
               => \A k \in 0 .. m.largo - 1 :
                    Dentro(k) /\ Origen(m.pid, m.dir, k) = Traducida(m.pid, m.logica + k)
          /\ m.op \in {"MOVE_OUT", "IO_STDIN_READ", "FS_READ"} /\ Vigente(m)
               /\ PuedeEscribir(m, n) /\ ~EscrituraDerrama(m.dir, n)
               => \A k \in 0 .. n - 1 :
                    Dentro(k) /\ Destino(m.pid, m.dir, k) = Traducida(m.pid, m.logica + k)

\* The CPU does not wait for its writes: they are done before it executes anything
\* else, and before the process that wrote is blocked or ends.
EscriturasAsentadas ==
    \A k \in 1 .. Len(aMemoria["CPU"]) :
        aMemoria["CPU"][k].op \in {"MOVE_OUT", "COPY_STRING"}
          => /\ deMemoria["CPU"] = <<>>
             /\ cpu.fase \in {"libre", "pedir", "instruccion", "frame"}
             /\ estado[aMemoria["CPU"][k].pid] \in {"READY", "EXEC"}
             /\ info[aMemoria["CPU"][k].pid] = NULL

\* executePcb sends the PCB and then the program: once it has, and the memory has
\* attended it, what the CPU fetches is of the process that it runs.
CargadoElQueCorre ==
    porEnviar = NULL /\ aMemoria["KERNEL"] = <<>> /\ cpu.pid # NULL
      => instructions \in {cpu.pid, NULL}

\* Every process ends, or nothing was promised any more, or somebody waits for an
\* answer that the memory never sends.
TodosTerminan ==
    <>(\/ \A p \in Pids : estado[p] = "EXIT"
       \/ ~Funciona
       \/ mudas # {})

-------------------------------------------------------------------------------
(* The machine that the processes see. *)

\* The numbers that a MOV_IN has read, the one on its way to the CPU included.
Leidos ==
    IF cpu.fase = "dato" /\ deMemoria["CPU"] # <<>> THEN Append(cpu.datos, Recibido)
    ELSE cpu.datos

Leyendo(p) == cpu.pid = p /\ cpu.fase \in {"frame", "dato"} /\ cpu.inst.op = "MOV_IN"

\* What each part of the MOV_OUT in course writes: its first byte, at least.
Salientes ==
    LET valor == registros[cpu.pid][cpu.inst.b] IN
    [k \in 1 .. Len(LasPartes) |->
        [dir |-> LasPartes[k].dir, largo |-> LasPartes[k].largo,
         byte |-> (IF Len(LasPartes) = 1 THEN valor ELSE PartesDeMovOut(valor)[k]) % Base]]

\* A number that has been read is in its register.
RegsDe(p) ==
    IF Leyendo(p) /\ Len(Leidos) = Len(LasPartes)
      THEN Set(registros[p], cpu.inst.a, Armar(Leidos, LasPartes[1].largo))
      ELSE registros[p]

Copiando(p) ==
    \/ cpu.pid = p /\ cpu.fase = "frame" /\ cpu.inst.op = "COPY_STRING"
    \/ \E k \in 1 .. Len(aMemoria["CPU"]) : /\ aMemoria["CPU"][k].op = "COPY_STRING"
                                           /\ aMemoria["CPU"][k].pid = p

PorCopiar(p) ==
    IF cpu.pid = p /\ cpu.fase = "frame" THEN cpu.inst.n
    ELSE (CHOOSE m \in {aMemoria["CPU"][k] : k \in 1 .. Len(aMemoria["CPU"])} :
            m.op = "COPY_STRING" /\ m.pid = p).largo

\* The instruction of p that is in course, with the accesses that it has not made:
\* the writes that are on their way to the memory, and those that are not.
CursoDe(p) ==
    LET enviadas == SelectSeq(aMemoria["CPU"], LAMBDA m : m.op = "MOVE_OUT" /\ m.pid = p)
        aEnviar == IF cpu.pid = p /\ cpu.fase = "frame" /\ cpu.inst.op = "MOV_OUT"
                     THEN SubSeq(Salientes, Len(cpu.dirs) + 1, Len(Salientes)) ELSE <<>>
        escrituras == [k \in 1 .. Len(enviadas) |->
                          [dir |-> enviadas[k].logica, largo |-> enviadas[k].largo,
                           byte |-> enviadas[k].dato % Base]] \o aEnviar
    IN  CASE escrituras # <<>> -> [op |-> "MOV_OUT", partes |-> escrituras]
          [] Leyendo(p) /\ Len(Leidos) < Len(LasPartes) ->
               [op |-> "MOV_IN", a |-> cpu.inst.a, n |-> LasPartes[1].largo, leidos |-> Leidos,
                partes |-> SubSeq(LasPartes, Len(Leidos) + 1, Len(LasPartes))]
          [] Copiando(p) -> [op |-> "COPY_STRING", n |-> PorCopiar(p)]
          [] cpu.pid = p /\ cpu.fase = "okey" /\ deMemoria["CPU"] = <<>> ->
               [op |-> "RESIZE", n |-> cpu.inst.n]
          [] OTHER -> NULL

PidiendoIo(p) == cpu.pid = p /\ cpu.fase = "frame" /\ cpu.inst.op \in OpsIo

PedidoDe(p) ==
    IF PidiendoIo(p)
      THEN [op |-> cpu.inst.op, io |-> cpu.inst.io, logica |-> LasPartes[1].dir,
            largo |-> LasPartes[1].largo]
    ELSE IF info[p] = NULL \/ p \in ioHecha THEN NULL
    ELSE [op |-> info[p].op, io |-> info[p].io, logica |-> info[p].logica, largo |-> info[p].largo]

Terminados ==
    {p \in Pids : \/ estado[p] = "EXIT"
                  \/ vuelve # NULL /\ vuelve.pid = p /\ vuelve.reason \in {"EXIT", "ERROR"}
                  \/ cpu.pid = p /\ cpu.fase = "okey" /\ deMemoria["CPU"] # <<>> /\ Recibido = 0}

TardiasDe(c) ==
    LET fs == SelectSeq(aMemoria[c], LAMBDA m : m.op = "FS_READ")
    IN  [k \in 1 .. Len(fs) |-> [pid |-> fs[k].pid, logica |-> fs[k].logica,
                                 largo |-> fs[k].largo, dato |-> fs[k].dato]]

\* A text on its way to the interface that will show it is shown already.
SalidaDe(p) ==
    LET en == {i \in Interfaces : /\ interfaz[i] = [fase |-> "memoria", pid |-> p]
                                  /\ deMemoria[i] # <<>> /\ Head(deMemoria[i]).tipo = "TEXTO"}
    IN  IF en = {} THEN salida[p] ELSE Head(deMemoria[CHOOSE i \in en : TRUE]).dato

M == INSTANCE Maquina WITH
    regs <- [p \in Pids |-> RegsDe(p)],
    mem <- [p \in Pids |-> Plana(p)],
    curso <- [p \in Pids |-> CursoDe(p)],
    programas <- pseudocodigo,
    pedido <- [p \in Pids |-> PedidoDe(p)],
    fin <- Terminados,
    tardias <- [c \in Conexiones |-> TardiasDe(c)],
    salida <- [p \in Pids |-> SalidaDe(p)],
    promete <- Funciona

\* With its pages scattered, its accesses cut in messages and its IO done by others
\* while the rest run, each process has a machine of its own, whose memory is flat
\* and that nobody else writes, until something undefined happens.
ImplementaMaquina == M!MaquinaSpec

===============================================================================
