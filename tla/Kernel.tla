-------------------------------- MODULE Kernel --------------------------------
(***************************************************************************)
(* kernel/src/main.c and interactive_console.c: the planners, the thread   *)
(* that reads the CPU, the threads of the interfaces and the console.      *)
(*                                                                         *)
(* Each thread has a program counter; a step runs from one wait, socket    *)
(* read or unlocked read of shared state to the next.  sem_post and the    *)
(* push under a mutex that precedes it are one step.  crashed is set when  *)
(* the program follows a NULL pointer: the process dies there.             *)
(***************************************************************************)
EXTENDS Canales, FiniteSets, SequencesExt

CONSTANTS
    Algoritmos,      \* the values of ALGORITMO_PLANIFICACION to consider
    Grado,           \* GRADO_MULTIPROGRAMACION of kernel.config
    Grados,          \* the values MULTIPROGRAMACION is called with
    Instancias,      \* INSTANCIAS_RECURSOS: resource -> its instances
    Interfaces,      \* the interfaces connected to the kernel
    NombresInterfaces,  \* the interface names the programs use
    Comandos,        \* the console commands the operator uses
    MaxCrear,        \* bound on the INICIAR_PROCESO commands
    MaxFinalizar     \* bound on the FINALIZAR_PROCESO commands

TodosLosComandos == {"INICIAR_PROCESO", "INICIAR_PLANIFICACION",
    "DETENER_PLANIFICACION", "MULTIPROGRAMACION",
    "FINALIZAR_NEW", "FINALIZAR_READY", "FINALIZAR_EXEC", "FINALIZAR_BLOCKED"}

ASSUME ConstantesDelKernel ==
    /\ Algoritmos \subseteq {"FIFO", "RR", "VRR"} /\ Algoritmos # {}
    /\ Grado \in Nat \ {0}
    /\ Grados \subseteq Nat \ {0}
    /\ Instancias \in [Recursos -> Nat]
    /\ "consola" \notin Interfaces /\ IsFiniteSet(Interfaces)
    /\ NULL \notin Interfaces \cup {"consola"}
    /\ Comandos \subseteq TodosLosComandos
    /\ MaxCrear \in Nat /\ MaxFinalizar \in Nat

VARIABLES
    chosenPlanner, plannerIsRunning,
    queueNews, queueReadys, queueAux, listBlockeds,
    listPcbToMemory, freePids, nextPid,
    sQueueNewsAvaiable, sQueueReadysMax, sQueueReadysAvaiable, sRunningProcess,
    currentyRunningPcb,
    gradoMultiprogramacion,
    recursos,        \* recursos[r].instancia
    listResourcesPcbs,  \* the pids that have a list of resources
    recursosDePid,   \* the lists: how many of each resource a pid took; 0 with no list
    newToReady,      \* program counter of runnerProcessNewToReady
    toExecute,       \* program counter of runnerProcessToExecute
    quantum,         \* its counter of ticks
    respuesta,       \* checkResponseOfCpu: program counter and locals
    consola,         \* the console thread: program counter and locals
    liberando,       \* liberarRecursos in course: thread -> pid
    devolucion,      \* thread -> liberarRecurso in course: step and locals
    ioParams, ioHilos, ioListos,   \* the ioFunction threads
    ioPedidos,       \* interface -> the pids of the requests it has
    porCrear, porFinalizar,        \* what is left of MaxCrear and MaxFinalizar
    crashed

colas == <<queueNews, queueReadys, queueAux, listBlockeds>>
pids == <<listPcbToMemory, freePids, nextPid>>
semaforos == <<sQueueNewsAvaiable, sQueueReadysMax, sQueueReadysAvaiable, sRunningProcess>>
recursosVars == <<recursos, listResourcesPcbs, recursosDePid, liberando, devolucion>>
ioVars == <<ioParams, ioHilos, ioListos, ioPedidos>>
planVars == <<newToReady, toExecute, quantum>>
mandos == <<chosenPlanner, plannerIsRunning, gradoMultiprogramacion, consola,
            porCrear, porFinalizar>>
kernelVars == <<colas, pids, semaforos, recursosVars, ioVars, planVars, mandos,
                currentyRunningPcb, respuesta, crashed>>

\* The threads that run liberarRecursos: the console and one per interface.
Liberadores == {"consola"} \cup Interfaces

\* The console inside finishProcess.
BuscandoPcs == {"deref", "news", "readys", "aux", "blockeds", "liberar"}

\* checkResponseOfCpu in a WAIT or a SIGNAL whose instancia it has written.
DialogoPcs == {"responder", "probar", "buscar", "despertar"}

\* liberarRecurso: instancia read (leida) and not written yet, then the search for
\* a waiter, then desblockPcb.
Devoluciones ==
    [pc : {"nada"}, res : {NULL}, leida : {0}]
      \cup [pc : {"sumar"}, res : Recursos, leida : Int]
      \cup [pc : {"buscar", "despertar"}, res : Recursos, leida : {0}]

ColasTypeOK ==
    /\ queueNews \in Seq(Pids) /\ queueReadys \in Seq(Pids)
    /\ queueAux \in Seq(Pids) /\ listBlockeds \in Seq(Pids)

PidsTypeOK ==
    /\ listPcbToMemory \in SUBSET Pids
    /\ freePids \in Seq(Pids)
    /\ nextPid \in 1 .. MaxPid + 1

SemaforosTypeOK ==
    /\ sQueueNewsAvaiable \in Nat /\ sQueueReadysMax \in Nat
    /\ sQueueReadysAvaiable \in Nat /\ sRunningProcess \in Nat

RecursosTypeOK ==
    /\ recursos \in [Recursos -> Int]
    /\ listResourcesPcbs \subseteq Pids
    /\ recursosDePid \in [Pids -> [Recursos -> Nat]]
    /\ liberando \in [Liberadores -> Pids \cup {NULL}]
    /\ devolucion \in [Liberadores -> Devoluciones]

IoTypeOK ==
    /\ ioParams \in Pids \cup {NULL} /\ ioHilos \in Nat
    /\ ioListos \in [Pids -> Nat]
    /\ ioPedidos \in [Interfaces -> Seq(Pids)]

PlanTypeOK ==
    /\ newToReady \in {"news", "max", "plan", "mover"}
    /\ toExecute \in {"plan", "cpu", "listo", "contar"}
    /\ quantum \in 0 .. Quantum

ConsolaTypeOK ==
    consola \in [pc : {"libre"}, pid : {NULL}, valor : {0}, falta : {0}]
                \cup [pc : BuscandoPcs \cup {"lista"}, pid : Pids, valor : {0}, falta : {0}]
                \cup [pc : {"bajar"}, pid : {NULL}, valor : Nat \ {0}, falta : Nat]

MandosTypeOK ==
    /\ chosenPlanner \in Algoritmos
    /\ plannerIsRunning \in BOOLEAN
    /\ gradoMultiprogramacion \in Nat \ {0}
    /\ porCrear \in 0 .. MaxCrear /\ porFinalizar \in 0 .. MaxFinalizar
    /\ ConsolaTypeOK

RespuestaTypeOK ==
    respuesta \in [pc : {"recv"}, pid : {NULL}, res : {NULL}, leida : {0}]
                  \cup [pc : {"pcb"}, pid : Pids, res : {NULL}, leida : {0}]
                  \cup [pc : {"restar", "sumar"}, pid : Pids, res : Recursos, leida : Int]
                  \cup [pc : DialogoPcs, pid : {NULL}, res : Recursos, leida : {0}]

KernelTypeOK ==
    /\ ColasTypeOK /\ PidsTypeOK /\ SemaforosTypeOK /\ RecursosTypeOK
    /\ IoTypeOK /\ PlanTypeOK /\ MandosTypeOK /\ RespuestaTypeOK
    /\ currentyRunningPcb \in Pids \cup {NULL}
    /\ crashed \in BOOLEAN

EnConsola(pc, pid) == [pc |-> pc, pid |-> pid, valor |-> 0, falta |-> 0]
ConsolaLibre == EnConsola("libre", NULL)
EnRecv == [pc |-> "recv", pid |-> NULL, res |-> NULL, leida |-> 0]
EnDialogo(pc, r) == [EnRecv EXCEPT !.pc = pc, !.res = r]
SinDevolucion == [pc |-> "nada", res |-> NULL, leida |-> 0]

KernelInit ==
    /\ chosenPlanner \in Algoritmos
    /\ plannerIsRunning = FALSE
    /\ queueNews = <<>> /\ queueReadys = <<>> /\ queueAux = <<>> /\ listBlockeds = <<>>
    /\ listPcbToMemory = {} /\ freePids = <<>> /\ nextPid = 1
    /\ sQueueNewsAvaiable = 0 /\ sQueueReadysMax = Grado
    /\ sQueueReadysAvaiable = 0 /\ sRunningProcess = 1
    /\ currentyRunningPcb = NULL
    /\ gradoMultiprogramacion = Grado
    /\ recursos = Instancias
    /\ listResourcesPcbs = {}
    /\ recursosDePid = [p \in Pids |-> [r \in Recursos |-> 0]]
    /\ newToReady = "news" /\ toExecute = "plan" /\ quantum = 0
    /\ respuesta = EnRecv /\ consola = ConsolaLibre
    /\ liberando = [t \in Liberadores |-> NULL]
    /\ devolucion = [t \in Liberadores |-> SinDevolucion]
    /\ ioParams = NULL /\ ioHilos = 0
    /\ ioListos = [p \in Pids |-> 0]
    /\ ioPedidos = [i \in Interfaces |-> <<>>]
    /\ porCrear = MaxCrear /\ porFinalizar = MaxFinalizar
    /\ crashed = FALSE

-------------------------------------------------------------------------------
(* PCBs and queues. *)

Esta(cola, p) == \E i \in DOMAIN cola : cola[i] = p

\* list_find by findPcbByContext: the processes blocked on r, oldest first.
Esperan(r) == {i \in DOMAIN listBlockeds : contexto[listBlockeds[i]].info = r}
PrimeroQueEspera(r) == listBlockeds[Min(Esperan(r))]

\* Mutant of DeletePcb: the place is not given back.
DeletePcbSinLugar(p) ==
    /\ listPcbToMemory' = listPcbToMemory \ {p}
    /\ freePids' = Append(freePids, p)
    /\ UNCHANGED sQueueReadysMax

\* deletePcb: the pid goes back to freePids and a place of the degree of
\* multiprogramming is given back.
DeletePcb(p) ==
    /\ listPcbToMemory' = listPcbToMemory \ {p}
    /\ freePids' = Append(freePids, p)
    /\ sQueueReadysMax' = sQueueReadysMax + 1

\* Mutant of DesblockPcb: the process is not taken out of listBlockeds.
DesblockPcbSinQuitar(p) ==
    /\ UNCHANGED listBlockeds
    /\ IF chosenPlanner = "VRR" /\ contexto[p].quantum < Quantum
         THEN queueAux' = Append(queueAux, p) /\ UNCHANGED queueReadys
         ELSE queueReadys' = Append(queueReadys, p) /\ UNCHANGED queueAux
    /\ sQueueReadysAvaiable' = sQueueReadysAvaiable + 1

\* Mutant of DesblockPcb: no post when the process goes to queueAux, as if
\* sQueueAuxAvaiable counted it.
DesblockPcbSinPost(p) ==
    /\ listBlockeds' = RemoveFirst(listBlockeds, p)
    /\ IF chosenPlanner = "VRR" /\ contexto[p].quantum < Quantum
         THEN /\ queueAux' = Append(queueAux, p)
              /\ UNCHANGED <<queueReadys, sQueueReadysAvaiable>>
         ELSE /\ queueReadys' = Append(queueReadys, p)
              /\ sQueueReadysAvaiable' = sQueueReadysAvaiable + 1
              /\ UNCHANGED queueAux

\* desblockPcb, for a process that is in listBlockeds.
DesblockPcb(p) ==
    /\ listBlockeds' = RemoveFirst(listBlockeds, p)
    /\ IF chosenPlanner = "VRR" /\ contexto[p].quantum < Quantum
         THEN queueAux' = Append(queueAux, p) /\ UNCHANGED queueReadys
         ELSE queueReadys' = Append(queueReadys, p) /\ UNCHANGED queueAux
    /\ sQueueReadysAvaiable' = sQueueReadysAvaiable + 1

-------------------------------------------------------------------------------
(* runnerProcessNewToReady. *)

EsperarNews ==
    /\ newToReady = "news"
    /\ sQueueNewsAvaiable > 0
    /\ sQueueNewsAvaiable' = sQueueNewsAvaiable - 1
    /\ newToReady' = "max"
    /\ UNCHANGED <<colas, pids, sQueueReadysMax, sQueueReadysAvaiable, sRunningProcess,
                   recursosVars, ioVars, toExecute, quantum, mandos,
                   currentyRunningPcb, respuesta, crashed, canales>>

EsperarLugar ==
    /\ newToReady = "max"
    /\ sQueueReadysMax > 0
    /\ sQueueReadysMax' = sQueueReadysMax - 1
    /\ newToReady' = "plan"
    /\ UNCHANGED <<colas, pids, sQueueNewsAvaiable, sQueueReadysAvaiable, sRunningProcess,
                   recursosVars, ioVars, toExecute, quantum, mandos,
                   currentyRunningPcb, respuesta, crashed, canales>>

\* sem_wait and sem_post of sCanPlan, whose value is 1 exactly while
\* plannerIsRunning: the thread goes through the gate.
PasarPlanNews ==
    /\ newToReady = "plan"
    /\ plannerIsRunning
    /\ newToReady' = "mover"
    /\ UNCHANGED <<colas, pids, semaforos, recursosVars, ioVars, toExecute, quantum,
                   mandos, currentyRunningPcb, respuesta, crashed, canales>>

MoverAReady ==
    /\ newToReady = "mover"
    /\ queueNews # <<>>
    /\ queueNews' = Tail(queueNews)
    /\ queueReadys' = Append(queueReadys, Head(queueNews))
    /\ sQueueReadysAvaiable' = sQueueReadysAvaiable + 1
    /\ newToReady' = "news"
    /\ UNCHANGED <<queueAux, listBlockeds, pids, sQueueNewsAvaiable, sQueueReadysMax,
                   sRunningProcess, recursosVars, ioVars, toExecute, quantum, mandos,
                   currentyRunningPcb, respuesta, crashed, canales>>

-------------------------------------------------------------------------------
(* runnerProcessToExecute, fifo and executePcb. *)

PasarPlanExec ==
    /\ toExecute = "plan"
    /\ plannerIsRunning
    /\ toExecute' = "cpu"
    /\ UNCHANGED <<colas, pids, semaforos, recursosVars, ioVars, newToReady, quantum,
                   mandos, currentyRunningPcb, respuesta, crashed, canales>>

EsperarCpu ==
    /\ toExecute = "cpu"
    /\ sRunningProcess > 0
    /\ sRunningProcess' = sRunningProcess - 1
    /\ toExecute' = "listo"
    /\ UNCHANGED <<colas, pids, sQueueNewsAvaiable, sQueueReadysMax, sQueueReadysAvaiable,
                   recursosVars, ioVars, newToReady, quantum, mandos,
                   currentyRunningPcb, respuesta, crashed, canales>>

\* executePcb: what is sent to the memory is in the memory's module.
ExecutePcb(p) ==
    /\ currentyRunningPcb' = p
    /\ socketCpuDispatch' = Append(socketCpuDispatch, Mensaje("PCB", p, NULL))
    /\ sQueueReadysAvaiable' = sQueueReadysAvaiable - 1
    /\ toExecute' = IF chosenPlanner = "FIFO" THEN "plan" ELSE "contar"
    /\ quantum' = IF chosenPlanner = "VRR" THEN contexto[p].quantum ELSE 0
    /\ UNCHANGED <<queueNews, listBlockeds, pids, sQueueNewsAvaiable, sQueueReadysMax,
                   sRunningProcess, recursosVars, ioVars, newToReady, mandos,
                   respuesta, crashed, respuestasCpu, socketCpuInterrupt, contexto>>

ConPrioridad == chosenPlanner = "VRR" /\ queueAux # <<>>

PuedeDespachar == toExecute = "listo" /\ sQueueReadysAvaiable > 0

DespacharConPrioridad ==
    /\ PuedeDespachar /\ ConPrioridad
    /\ queueAux' = Tail(queueAux)
    /\ UNCHANGED queueReadys
    /\ ExecutePcb(Head(queueAux))

Despachar ==
    /\ PuedeDespachar /\ ~ConPrioridad
    /\ queueReadys # <<>>
    /\ queueReadys' = Tail(queueReadys)
    /\ UNCHANGED queueAux
    /\ ExecutePcb(Head(queueReadys))

\* Mutant of ContarQuantum: one tick too many.
ContarQuantumDeMas ==
    /\ toExecute = "contar"
    /\ quantum <= Quantum
    /\ \/ sRunningProcess > 0 /\ toExecute' = "plan" /\ quantum' = quantum
       \/ sRunningProcess = 0 /\ toExecute' = toExecute /\ quantum' = quantum + 1
    /\ UNCHANGED <<colas, pids, semaforos, recursosVars, ioVars, newToReady, mandos,
                   currentyRunningPcb, respuesta, crashed, canales>>

\* Mutant of ContarQuantum: what sem_trywait took is not posted back.
ContarQuantumSinDevolver ==
    /\ toExecute = "contar"
    /\ quantum < Quantum
    /\ \/ /\ sRunningProcess > 0 /\ toExecute' = "plan" /\ quantum' = quantum
          /\ sRunningProcess' = sRunningProcess - 1
       \/ /\ sRunningProcess = 0 /\ toExecute' = toExecute /\ quantum' = quantum + 1
          /\ UNCHANGED sRunningProcess
    /\ UNCHANGED <<colas, pids, sQueueNewsAvaiable, sQueueReadysMax, sQueueReadysAvaiable,
                   recursosVars, ioVars, newToReady, mandos, currentyRunningPcb,
                   respuesta, crashed, canales>>

\* One turn of the loop of RR and VRR: sem_trywait(&sRunningProcess), given back
\* at once when it succeeds.  What VRR writes in pcbToExecute->quantum stays in
\* the kernel's own copy, which nothing reads again: recvPcb builds a new one.
ContarQuantum ==
    /\ toExecute = "contar"
    /\ quantum < Quantum
    /\ \/ sRunningProcess > 0 /\ toExecute' = "plan" /\ quantum' = quantum
       \/ sRunningProcess = 0 /\ toExecute' = toExecute /\ quantum' = quantum + 1
    /\ UNCHANGED <<colas, pids, semaforos, recursosVars, ioVars, newToReady, mandos,
                   currentyRunningPcb, respuesta, crashed, canales>>

InterrumpirPorQuantum ==
    /\ toExecute = "contar"
    /\ quantum = Quantum
    /\ socketCpuInterrupt' = Append(socketCpuInterrupt, "QUANTUM")
    /\ toExecute' = "plan"
    /\ UNCHANGED <<colas, pids, semaforos, recursosVars, ioVars, newToReady, quantum,
                   mandos, currentyRunningPcb, respuesta, crashed, socketCpuDispatch,
                   respuestasCpu, contexto>>

-------------------------------------------------------------------------------
(* checkResponseOfCpu. *)

LeerRespuesta(op) ==
    /\ respuesta.pc = "recv"
    /\ respuestasCpu # <<>>
    /\ Head(respuestasCpu).op = op
    /\ respuestasCpu' = Tail(respuestasCpu)

Responder(op) == socketCpuDispatch' = Append(socketCpuDispatch, Mensaje(op, NULL, NULL))

\* Mutant of PcbDevuelto: currentyRunningPcb is not cleared.
PcbDevueltoSinLimpiar ==
    /\ LeerRespuesta("PCB")
    /\ respuesta' = [EnRecv EXCEPT !.pc = "pcb", !.pid = Head(respuestasCpu).pid]
    /\ UNCHANGED <<colas, pids, semaforos, recursosVars, ioVars, planVars, mandos,
                   currentyRunningPcb, crashed, socketCpuDispatch, socketCpuInterrupt,
                   contexto>>

\* case PCB, up to recvPcb: currentyRunningPcb is cleared without a lock.
PcbDevuelto ==
    /\ LeerRespuesta("PCB")
    /\ currentyRunningPcb' = NULL
    /\ respuesta' = [EnRecv EXCEPT !.pc = "pcb", !.pid = Head(respuestasCpu).pid]
    /\ UNCHANGED <<colas, pids, semaforos, recursosVars, ioVars, planVars, mandos,
                   crashed, socketCpuDispatch, socketCpuInterrupt, contexto>>

\* The end of case PCB: the CPU is free.
CpuLibre ==
    /\ respuesta' = EnRecv
    /\ sRunningProcess' = sRunningProcess + 1
    /\ UNCHANGED <<queueNews, queueAux, nextPid, sQueueNewsAvaiable, recursosVars,
                   ioListos, ioPedidos, planVars, mandos, currentyRunningPcb, crashed,
                   canales>>

\* EXIT, ERROR and CONSOLE: deletePcb, and the resources are not released.
PcbTermina ==
    /\ respuesta.pc = "pcb"
    /\ contexto[respuesta.pid].reason \in {"EXIT", "ERROR", "CONSOLE"}
    /\ DeletePcb(respuesta.pid)
    /\ UNCHANGED <<queueReadys, listBlockeds, sQueueReadysAvaiable, ioParams, ioHilos>>
    /\ CpuLibre

\* Mutant of PcbDesalojado: no post of sQueueReadysAvaiable.
PcbDesalojadoSinPost ==
    /\ respuesta.pc = "pcb"
    /\ contexto[respuesta.pid].reason = "QUANTUM"
    /\ queueReadys' = Append(queueReadys, respuesta.pid)
    /\ UNCHANGED <<listBlockeds, listPcbToMemory, freePids, sQueueReadysMax,
                   sQueueReadysAvaiable, ioParams, ioHilos>>
    /\ CpuLibre

PcbDesalojado ==
    /\ respuesta.pc = "pcb"
    /\ contexto[respuesta.pid].reason = "QUANTUM"
    /\ queueReadys' = Append(queueReadys, respuesta.pid)
    /\ sQueueReadysAvaiable' = sQueueReadysAvaiable + 1
    /\ UNCHANGED <<listBlockeds, listPcbToMemory, freePids, sQueueReadysMax, ioParams,
                   ioHilos>>
    /\ CpuLibre

\* IO: the new thread is given a pointer to the local paramsIo, which the next
\* PCB that comes back for IO overwrites.
PcbBloqueado ==
    /\ respuesta.pc = "pcb"
    /\ listBlockeds' = Append(listBlockeds, respuesta.pid)
    /\ \/ /\ contexto[respuesta.pid].reason = "IO"
          /\ ioParams' = respuesta.pid
          /\ ioHilos' = ioHilos + 1
       \/ /\ contexto[respuesta.pid].reason = "WAIT"
          /\ UNCHANGED <<ioParams, ioHilos>>
    /\ UNCHANGED <<queueReadys, listPcbToMemory, freePids, sQueueReadysMax,
                   sQueueReadysAvaiable>>
    /\ CpuLibre

\* WAIT and SIGNAL of a resource that RECURSOS does not name.
RecursoDesconocido(op) ==
    /\ LeerRespuesta(op)
    /\ Head(respuestasCpu).res \notin Recursos
    /\ Responder("EMPTY_INSTANCE")
    /\ UNCHANGED <<colas, pids, semaforos, recursosVars, ioVars, planVars, mandos,
                   currentyRunningPcb, respuesta, crashed, socketCpuInterrupt, contexto>>

\* WAIT and SIGNAL of a resource that exists: instancia is read, the first half of
\* instancia-- and of instancia++, which no mutex covers.
RecibirPedido(op) ==
    LET m == Head(respuestasCpu) IN
    /\ LeerRespuesta(op)
    /\ m.res \in Recursos
    /\ respuesta' = [pc |-> IF op = "WAIT" THEN "restar" ELSE "sumar",
                     pid |-> m.pid, res |-> m.res, leida |-> recursos[m.res]]
    /\ UNCHANGED <<colas, pids, semaforos, recursosVars, ioVars, planVars, mandos,
                   currentyRunningPcb, crashed, socketCpuDispatch, socketCpuInterrupt,
                   contexto>>

\* The second half of instancia--: what was read, less one.  The resource is noted
\* in the list of the process if createPcb has put that list there already.
AnotarWait ==
    /\ respuesta.pc = "restar"
    /\ recursos' = [recursos EXCEPT ![respuesta.res] = respuesta.leida - 1]
    /\ recursosDePid' = [recursosDePid EXCEPT ![respuesta.pid][respuesta.res] =
                           IF respuesta.pid \in listResourcesPcbs THEN @ + 1 ELSE @]
    /\ respuesta' = EnDialogo("responder", respuesta.res)
    /\ UNCHANGED <<colas, pids, semaforos, listResourcesPcbs, liberando, devolucion,
                   ioVars, planVars, mandos, currentyRunningPcb, crashed, canales>>

\* The end of WAIT: instancia is read again.
ResponderWait ==
    /\ respuesta.pc = "responder"
    /\ Responder(IF recursos[respuesta.res] < 0 THEN "BLOCK" ELSE "CONTINUE")
    /\ respuesta' = EnRecv
    /\ UNCHANGED <<colas, pids, semaforos, recursosVars, ioVars, planVars, mandos,
                   currentyRunningPcb, crashed, respuestasCpu, socketCpuInterrupt,
                   contexto>>

\* The second half of instancia++, and removerRecurso.
QuitarSignal ==
    /\ respuesta.pc = "sumar"
    /\ recursos' = [recursos EXCEPT ![respuesta.res] = respuesta.leida + 1]
    /\ recursosDePid' = [recursosDePid EXCEPT ![respuesta.pid][respuesta.res] =
                           IF @ > 0 THEN @ - 1 ELSE 0]
    /\ respuesta' = EnDialogo("probar", respuesta.res)
    /\ UNCHANGED <<colas, pids, semaforos, listResourcesPcbs, liberando, devolucion,
                   ioVars, planVars, mandos, currentyRunningPcb, crashed, canales>>

\* Mutant of ProbarSignal: a count that reaches zero is not answered either.
ProbarSignalEstricto ==
    /\ respuesta.pc = "probar"
    /\ respuesta' = IF recursos[respuesta.res] > 0
                      THEN EnDialogo("buscar", respuesta.res) ELSE EnRecv
    /\ UNCHANGED <<colas, pids, semaforos, recursosVars, ioVars, planVars, mandos,
                   currentyRunningPcb, crashed, canales>>

\* instancia is read again: with a negative count no answer is sent.
ProbarSignal ==
    /\ respuesta.pc = "probar"
    /\ respuesta' = IF recursos[respuesta.res] >= 0
                      THEN EnDialogo("buscar", respuesta.res) ELSE EnRecv
    /\ UNCHANGED <<colas, pids, semaforos, recursosVars, ioVars, planVars, mandos,
                   currentyRunningPcb, crashed, canales>>

\* Mutant of BuscarEnEspera: the answer is also sent before the waiter is woken.
BuscarEnEsperaRespondiendo ==
    /\ respuesta.pc = "buscar"
    /\ Responder("CONTINUE")
    /\ respuesta' = IF Esperan(respuesta.res) = {}
                      THEN EnRecv ELSE EnDialogo("despertar", respuesta.res)
    /\ UNCHANGED <<colas, pids, semaforos, recursosVars, ioVars, planVars, mandos,
                   currentyRunningPcb, crashed, respuestasCpu, socketCpuInterrupt,
                   contexto>>

\* Mutant of BuscarEnEspera: the one that waits is found and not woken.
BuscarEnEsperaSinDespertar ==
    /\ respuesta.pc = "buscar"
    /\ Responder("CONTINUE")
    /\ respuesta' = EnRecv
    /\ UNCHANGED <<colas, pids, semaforos, recursosVars, ioVars, planVars, mandos,
                   currentyRunningPcb, crashed, respuestasCpu, socketCpuInterrupt,
                   contexto>>

\* list_find under the mutex: when nobody waits the answer is sent at once.
BuscarEnEspera ==
    /\ respuesta.pc = "buscar"
    /\ \/ /\ Esperan(respuesta.res) = {}
          /\ Responder("CONTINUE")
          /\ respuesta' = EnRecv
       \/ /\ Esperan(respuesta.res) # {}
          /\ respuesta' = EnDialogo("despertar", respuesta.res)
          /\ UNCHANGED socketCpuDispatch
    /\ UNCHANGED <<colas, pids, semaforos, recursosVars, ioVars, planVars, mandos,
                   currentyRunningPcb, crashed, respuestasCpu, socketCpuInterrupt,
                   contexto>>

\* desblockPcb looks the waiter up again.
DespertarPorSignal ==
    /\ respuesta.pc = "despertar"
    /\ Esperan(respuesta.res) # {}
    /\ DesblockPcb(PrimeroQueEspera(respuesta.res))
    /\ Responder("CONTINUE")
    /\ respuesta' = EnRecv
    /\ UNCHANGED <<queueNews, pids, sQueueNewsAvaiable, sQueueReadysMax, sRunningProcess,
                   recursosVars, ioVars, planVars, mandos, currentyRunningPcb, crashed,
                   respuestasCpu, socketCpuInterrupt, contexto>>

-------------------------------------------------------------------------------
(* ioFunction, and operate: the kernel's side of the interfaces. *)

\* A thread that ioFunction runs in starts: it reads the shared paramsIo.
ArrancarIo ==
    /\ ioHilos > 0
    /\ ioHilos' = ioHilos - 1
    /\ ioListos' = [ioListos EXCEPT ![ioParams] = @ + 1]
    /\ UNCHANGED <<colas, pids, semaforos, recursosVars, ioParams, ioPedidos, planVars,
                   mandos, currentyRunningPcb, respuesta, crashed, canales>>

TerminarIo(p) ==
    /\ plannerIsRunning
    /\ ioListos[p] > 0
    /\ ioListos' = [ioListos EXCEPT ![p] = @ - 1]
    /\ UNCHANGED <<queueNews, queueReadys, queueAux, nextPid, sQueueNewsAvaiable,
                   sQueueReadysAvaiable, sRunningProcess, recursosVars, ioParams,
                   ioHilos, planVars, mandos, currentyRunningPcb, respuesta, crashed,
                   canales>>

PedirIo(p, i) ==
    /\ TerminarIo(p)
    /\ ioPedidos' = [ioPedidos EXCEPT ![i] = Append(@, p)]
    /\ UNCHANGED <<listBlockeds, listPcbToMemory, freePids, sQueueReadysMax>>

\* The text of the operation is in the PCB: when that was deleted meanwhile the
\* thread reads freed memory, and may find no operation in it.
PerderIo(p) ==
    /\ TerminarIo(p)
    /\ ~Esta(listBlockeds, p)
    /\ UNCHANGED <<ioPedidos, listBlockeds, listPcbToMemory, freePids, sQueueReadysMax>>

InterfazDesconocida == NombresInterfaces \ Interfaces # {}

\* isInterfaceConnected found nothing: the process is deleted.
IoSinInterfaz(p) ==
    /\ InterfazDesconocida
    /\ TerminarIo(p)
    /\ Esta(listBlockeds, p)
    /\ listBlockeds' = RemoveFirst(listBlockeds, p)
    /\ DeletePcb(p)
    /\ UNCHANGED ioPedidos

\* The interface i answers its oldest request; operate is past recvOperation.
RespuestaDeInterfaz(i) ==
    /\ plannerIsRunning
    /\ liberando[i] = NULL
    /\ ioPedidos[i] # <<>>
    /\ ioPedidos' = [ioPedidos EXCEPT ![i] = Tail(@)]

FinishedIo(i) ==
    /\ RespuestaDeInterfaz(i)
    /\ Esta(listBlockeds, Head(ioPedidos[i]))
    /\ DesblockPcb(Head(ioPedidos[i]))
    /\ UNCHANGED <<queueNews, pids, sQueueNewsAvaiable, sQueueReadysMax, sRunningProcess,
                   recursosVars, ioParams, ioHilos, ioListos, planVars, mandos,
                   currentyRunningPcb, respuesta, crashed, canales>>

\* FINISHED_IO_ERROR: out of listBlockeds, then liberarRecursos, then deletePcb.
FinishedIoError(i) ==
    /\ RespuestaDeInterfaz(i)
    /\ Esta(listBlockeds, Head(ioPedidos[i]))
    /\ listBlockeds' = RemoveFirst(listBlockeds, Head(ioPedidos[i]))
    /\ liberando' = [liberando EXCEPT ![i] = Head(ioPedidos[i])]
    /\ UNCHANGED <<queueNews, queueReadys, queueAux, pids, semaforos, recursos,
                   listResourcesPcbs, recursosDePid, devolucion, ioParams, ioHilos,
                   ioListos, planVars, mandos, currentyRunningPcb, respuesta, crashed,
                   canales>>

-------------------------------------------------------------------------------
(* liberarRecursos(liberando[t]), run by thread t. *)

\* removerRecurso, and the first half of instancia++: no mutex covers it.
QuitarDeLaLista(t) ==
    LET p == liberando[t] IN
    /\ p # NULL
    /\ devolucion[t].pc = "nada"
    /\ \E r \in Recursos :
         /\ recursosDePid[p][r] > 0
         /\ recursosDePid' = [recursosDePid EXCEPT ![p][r] = @ - 1]
         /\ devolucion' = [devolucion EXCEPT
                             ![t] = [pc |-> "sumar", res |-> r, leida |-> recursos[r]]]
    /\ UNCHANGED <<colas, pids, semaforos, recursos, listResourcesPcbs, liberando, ioVars,
                   planVars, mandos, currentyRunningPcb, respuesta, crashed, canales>>

\* The second half: what was read, plus one.
LiberarUno(t) ==
    LET r == devolucion[t].res IN
    /\ devolucion[t].pc = "sumar"
    /\ recursos' = [recursos EXCEPT ![r] = devolucion[t].leida + 1]
    /\ devolucion' = [devolucion EXCEPT ![t] = [@ EXCEPT !.pc = "buscar", !.leida = 0]]
    /\ UNCHANGED <<colas, pids, semaforos, listResourcesPcbs, recursosDePid, liberando,
                   ioVars, planVars, mandos, currentyRunningPcb, respuesta, crashed,
                   canales>>

\* A waiter is looked for whatever the count is.
BuscarAlLiberar(t) ==
    /\ devolucion[t].pc = "buscar"
    /\ devolucion' = [devolucion EXCEPT
                        ![t] = IF Esperan(@.res) = {} THEN SinDevolucion
                                                      ELSE [@ EXCEPT !.pc = "despertar"]]
    /\ UNCHANGED <<colas, pids, semaforos, recursos, listResourcesPcbs, recursosDePid,
                   liberando, ioVars, planVars, mandos, currentyRunningPcb, respuesta,
                   crashed, canales>>

DespertarPorLiberar(t) ==
    /\ devolucion[t].pc = "despertar"
    /\ Esperan(devolucion[t].res) # {}
    /\ DesblockPcb(PrimeroQueEspera(devolucion[t].res))
    /\ devolucion' = [devolucion EXCEPT ![t] = SinDevolucion]
    /\ UNCHANGED <<queueNews, pids, sQueueNewsAvaiable, sQueueReadysMax, sRunningProcess,
                   recursos, listResourcesPcbs, recursosDePid, liberando, ioVars, planVars,
                   mandos, currentyRunningPcb, respuesta, crashed, canales>>

TerminarDeLiberar(t) ==
    /\ liberando[t] # NULL
    /\ devolucion[t] = SinDevolucion
    /\ \A r \in Recursos : recursosDePid[liberando[t]][r] = 0
    /\ liberando' = [liberando EXCEPT ![t] = NULL]
    /\ IF t = "consola"
         THEN consola' = ConsolaLibre /\ UNCHANGED <<listPcbToMemory, freePids, sQueueReadysMax>>
         ELSE DeletePcb(liberando[t]) /\ UNCHANGED consola
    /\ UNCHANGED <<colas, nextPid, sQueueNewsAvaiable, sQueueReadysAvaiable,
                   sRunningProcess, recursos, listResourcesPcbs, recursosDePid, devolucion,
                   ioVars, planVars, chosenPlanner, plannerIsRunning, gradoMultiprogramacion,
                   porCrear, porFinalizar, currentyRunningPcb, respuesta, crashed,
                   canales>>

-------------------------------------------------------------------------------
(* The console. *)

Ordena(c) == consola.pc = "libre" /\ c \in Comandos

HayPid == freePids # <<>> \/ nextPid <= MaxPid
PidNuevo == IF freePids # <<>> THEN Head(freePids) ELSE nextPid

\* createPcb, up to the post of sQueueNewsAvaiable: from here on the process may be
\* admitted and run.
IniciarProceso ==
    /\ Ordena("INICIAR_PROCESO")
    /\ porCrear > 0 /\ HayPid
    /\ IF freePids # <<>>
         THEN freePids' = Tail(freePids) /\ UNCHANGED nextPid
         ELSE nextPid' = nextPid + 1 /\ UNCHANGED freePids
    /\ contexto' = [contexto EXCEPT ![PidNuevo] = ContextoInicial]
    /\ listPcbToMemory' = listPcbToMemory \cup {PidNuevo}
    /\ queueNews' = Append(queueNews, PidNuevo)
    /\ sQueueNewsAvaiable' = sQueueNewsAvaiable + 1
    /\ consola' = EnConsola("lista", PidNuevo)
    /\ porCrear' = porCrear - 1
    /\ UNCHANGED <<queueReadys, queueAux, listBlockeds, sQueueReadysMax,
                   sQueueReadysAvaiable, sRunningProcess, recursosVars, ioVars, planVars,
                   chosenPlanner, plannerIsRunning, gradoMultiprogramacion,
                   porFinalizar, currentyRunningPcb, respuesta, crashed,
                   socketCpuDispatch, respuestasCpu, socketCpuInterrupt>>

\* Its end.  A pid given out again keeps the list it had, with what is in it.
CrearRecursosDePid ==
    /\ consola.pc = "lista"
    /\ listResourcesPcbs' = listResourcesPcbs \cup {consola.pid}
    /\ consola' = ConsolaLibre
    /\ UNCHANGED <<colas, pids, semaforos, recursos, recursosDePid, liberando, devolucion,
                   ioVars, planVars, chosenPlanner, plannerIsRunning,
                   gradoMultiprogramacion, porCrear, porFinalizar, currentyRunningPcb,
                   respuesta, crashed, canales>>

\* runPlanner and stopPlanner: the flag, and the post or the wait of sCanPlan.
CambiarPlanificador(b) ==
    /\ Ordena(IF b THEN "INICIAR_PLANIFICACION" ELSE "DETENER_PLANIFICACION")
    /\ plannerIsRunning = ~b
    /\ plannerIsRunning' = b
    /\ UNCHANGED <<colas, pids, semaforos, recursosVars, ioVars, planVars, chosenPlanner,
                   gradoMultiprogramacion, consola, porCrear, porFinalizar,
                   currentyRunningPcb, respuesta, crashed, canales>>

\* changeMultiprogramming to a greater degree: one sem_post per new place.
SubirGrado(v) ==
    /\ Ordena("MULTIPROGRAMACION")
    /\ v > gradoMultiprogramacion
    /\ sQueueReadysMax' = sQueueReadysMax + (v - gradoMultiprogramacion)
    /\ gradoMultiprogramacion' = v
    /\ UNCHANGED <<colas, pids, sQueueNewsAvaiable, sQueueReadysAvaiable, sRunningProcess,
                   recursosVars, ioVars, planVars, chosenPlanner, plannerIsRunning,
                   consola, porCrear, porFinalizar, currentyRunningPcb, respuesta,
                   crashed, canales>>

\* To a smaller one: one sem_wait per place, and the console waits meanwhile.
BajarGrado(v) ==
    /\ Ordena("MULTIPROGRAMACION")
    /\ v < gradoMultiprogramacion
    /\ consola' = [ConsolaLibre EXCEPT !.pc = "bajar", !.valor = v,
                                       !.falta = gradoMultiprogramacion - v]
    /\ UNCHANGED <<colas, pids, semaforos, recursosVars, ioVars, planVars, chosenPlanner,
                   plannerIsRunning, gradoMultiprogramacion, porCrear, porFinalizar,
                   currentyRunningPcb, respuesta, crashed, canales>>

QuitarLugar ==
    /\ consola.pc = "bajar"
    /\ sQueueReadysMax > 0
    /\ sQueueReadysMax' = sQueueReadysMax - 1
    /\ IF consola.falta > 1
         THEN /\ consola' = [consola EXCEPT !.falta = @ - 1]
              /\ UNCHANGED gradoMultiprogramacion
         ELSE /\ consola' = ConsolaLibre
              /\ gradoMultiprogramacion' = consola.valor
    /\ UNCHANGED <<colas, pids, sQueueNewsAvaiable, sQueueReadysAvaiable, sRunningProcess,
                   recursosVars, ioVars, planVars, chosenPlanner, plannerIsRunning,
                   porCrear, porFinalizar, currentyRunningPcb, respuesta, crashed,
                   canales>>

\* finishProcess(p): first the unlocked test of currentyRunningPcb...
FinalizarProceso(p) ==
    /\ consola.pc = "libre"
    /\ porFinalizar > 0
    /\ porFinalizar' = porFinalizar - 1
    /\ consola' = EnConsola(IF currentyRunningPcb = NULL THEN "news" ELSE "deref", p)
    /\ UNCHANGED <<colas, pids, semaforos, recursosVars, ioVars, planVars, chosenPlanner,
                   plannerIsRunning, gradoMultiprogramacion, porCrear,
                   currentyRunningPcb, respuesta, crashed, canales>>

\* ...then its pid is read: the process that runs gets an interrupt.
FinalizarEnEjecucion ==
    /\ consola.pc = "deref"
    /\ currentyRunningPcb # NULL
    /\ \/ /\ currentyRunningPcb = consola.pid
          /\ "FINALIZAR_EXEC" \in Comandos
          /\ socketCpuInterrupt' = Append(socketCpuInterrupt, "CONSOLE")
          /\ consola' = ConsolaLibre
       \/ /\ currentyRunningPcb # consola.pid
          /\ consola' = [consola EXCEPT !.pc = "news"]
          /\ UNCHANGED socketCpuInterrupt
    /\ UNCHANGED <<colas, pids, semaforos, recursosVars, ioVars, planVars, chosenPlanner,
                   plannerIsRunning, gradoMultiprogramacion, porCrear, porFinalizar,
                   currentyRunningPcb, respuesta, crashed, socketCpuDispatch,
                   respuestasCpu, contexto>>

\* ...then the queues in turn, each under its mutex.
Buscar(pc, cola, siguiente) ==
    /\ consola.pc = pc
    /\ ~Esta(cola, consola.pid)
    /\ consola' = IF siguiente = "libre" THEN ConsolaLibre ELSE [consola EXCEPT !.pc = siguiente]
    /\ UNCHANGED <<colas, pids, semaforos, recursosVars, ioVars, planVars, chosenPlanner,
                   plannerIsRunning, gradoMultiprogramacion, porCrear, porFinalizar,
                   currentyRunningPcb, respuesta, crashed, canales>>

SeguirBuscando ==
    \/ Buscar("news", queueNews, "readys")
    \/ Buscar("readys", queueReadys, "aux")
    \/ Buscar("aux", queueAux, "blockeds")
    \/ Buscar("blockeds", listBlockeds, "libre")

\* Found: out of its queue, deletePcb, and then liberarRecursos.  No semaphore
\* that counts the queue is taken.  c says where the operator's process was.
Encontrado(pc, cola, c) ==
    /\ consola.pc = pc
    /\ Esta(cola, consola.pid)
    /\ c \in Comandos
    /\ DeletePcb(consola.pid)
    /\ liberando' = [liberando EXCEPT !["consola"] = consola.pid]
    /\ consola' = [consola EXCEPT !.pc = "liberar"]
    /\ UNCHANGED <<nextPid, sQueueNewsAvaiable, sQueueReadysAvaiable, sRunningProcess,
                   recursos, listResourcesPcbs, recursosDePid, devolucion, ioVars,
                   planVars, chosenPlanner, plannerIsRunning, gradoMultiprogramacion,
                   porCrear, porFinalizar, currentyRunningPcb, respuesta, crashed,
                   canales>>

FinalizarNew ==
    /\ Encontrado("news", queueNews, "FINALIZAR_NEW")
    /\ queueNews' = RemoveFirst(queueNews, consola.pid)
    /\ UNCHANGED <<queueReadys, queueAux, listBlockeds>>

FinalizarReady ==
    /\ Encontrado("readys", queueReadys, "FINALIZAR_READY")
    /\ queueReadys' = RemoveFirst(queueReadys, consola.pid)
    /\ UNCHANGED <<queueNews, queueAux, listBlockeds>>

FinalizarAux ==
    /\ Encontrado("aux", queueAux, "FINALIZAR_READY")
    /\ queueAux' = RemoveFirst(queueAux, consola.pid)
    /\ UNCHANGED <<queueNews, queueReadys, listBlockeds>>

FinalizarBlocked ==
    /\ Encontrado("blockeds", listBlockeds, "FINALIZAR_BLOCKED")
    /\ listBlockeds' = RemoveFirst(listBlockeds, consola.pid)
    /\ UNCHANGED <<queueNews, queueReadys, queueAux>>

-------------------------------------------------------------------------------
(* Where the kernel follows a pointer that a queue or a search left NULL. *)

PunteroNulo ==
    \/ newToReady = "mover" /\ queueNews = <<>>
    \/ PuedeDespachar /\ ~ConPrioridad /\ queueReadys = <<>>
    \/ respuesta.pc = "despertar" /\ Esperan(respuesta.res) = {}
    \/ consola.pc = "deref" /\ currentyRunningPcb = NULL
    \/ \E t \in Liberadores : /\ devolucion[t].pc = "despertar"
                              /\ Esperan(devolucion[t].res) = {}
    \/ \E i \in Interfaces : /\ plannerIsRunning /\ liberando[i] = NULL
                             /\ ioPedidos[i] # <<>>
                             /\ ~Esta(listBlockeds, Head(ioPedidos[i]))
    \/ \E p \in Pids : /\ plannerIsRunning /\ ioListos[p] > 0
                       /\ ~Esta(listBlockeds, p) /\ InterfazDesconocida

Caer ==
    /\ PunteroNulo
    /\ crashed' = TRUE
    /\ UNCHANGED <<colas, pids, semaforos, recursosVars, ioVars, planVars, mandos,
                   currentyRunningPcb, respuesta, canales>>

Consola ==
    \/ IniciarProceso
    \/ \E b \in BOOLEAN : CambiarPlanificador(b)
    \/ \E v \in Grados : SubirGrado(v) \/ BajarGrado(v)
    \/ \E p \in Pids : FinalizarProceso(p)

ConsolaEnCurso ==
    \/ CrearRecursosDePid \/ QuitarLugar \/ FinalizarEnEjecucion \/ SeguirBuscando
    \/ FinalizarNew \/ FinalizarReady \/ FinalizarAux \/ FinalizarBlocked

NewToReady == EsperarNews \/ EsperarLugar \/ PasarPlanNews \/ MoverAReady

ToExecute ==
    \/ PasarPlanExec \/ EsperarCpu \/ Despachar \/ DespacharConPrioridad
    \/ ContarQuantum \/ InterrumpirPorQuantum

\* The cases WAIT and SIGNAL, but for the desblockPcb of the second.
AtenderPedido ==
    \/ \E op \in {"WAIT", "SIGNAL"} : RecursoDesconocido(op) \/ RecibirPedido(op)
    \/ AnotarWait \/ ResponderWait
    \/ QuitarSignal \/ ProbarSignal \/ BuscarEnEspera

CheckResponseOfCpu ==
    \/ PcbDevuelto \/ PcbTermina \/ PcbDesalojado \/ PcbBloqueado
    \/ AtenderPedido \/ DespertarPorSignal

IoFunction(p) ==
    \/ \E i \in Interfaces \cap NombresInterfaces : PedirIo(p, i)
    \/ PerderIo(p) \/ IoSinInterfaz(p)

Operate(i) == FinishedIo(i) \/ FinishedIoError(i)

LiberarRecursos(t) ==
    \/ QuitarDeLaLista(t) \/ LiberarUno(t) \/ BuscarAlLiberar(t)
    \/ DespertarPorLiberar(t) \/ TerminarDeLiberar(t)

===============================================================================
