-------------------------------- MODULE Sistema --------------------------------
(***************************************************************************)
(* The kernel and the CPU joined by their two sockets, and what the whole  *)
(* promises: where each process is, who has the CPU, and that the          *)
(* semaphores count what main.h says they count.                           *)
(*                                                                         *)
(* The operator of the console and the programs are free; the threads are  *)
(* fair in FairSpec, because pthread_create starts them all and each only  *)
(* blocks in a semaphore, a mutex or a socket.                             *)
(***************************************************************************)
EXTENDS Kernel, Cpu

vars == <<kernelVars, cpuVars, canales>>

Init == KernelInit /\ CpuInit /\ CanalesInit

PasoDeKernel(A) == ~crashed /\ A /\ UNCHANGED cpuVars
PasoDeCpu(A) == ~crashed /\ A /\ UNCHANGED kernelVars

\* A disjunct for each thread; nothing happens once the kernel has crashed.
Next ==
    \/ PasoDeKernel(Consola) \/ PasoDeKernel(ConsolaEnCurso)
    \/ PasoDeKernel(NewToReady)
    \/ PasoDeKernel(ToExecute)
    \/ PasoDeKernel(CheckResponseOfCpu)
    \/ PasoDeKernel(ArrancarIo)
    \/ \E p \in Pids : PasoDeKernel(IoFunction(p))
    \/ \E i \in Interfaces : PasoDeKernel(Operate(i))
    \/ \E t \in Liberadores : PasoDeKernel(LiberarRecursos(t))
    \/ PasoDeKernel(Caer)
    \/ PasoDeCpu(RecibirPcb) \/ PasoDeCpu(RecibirInterrupcion)
    \/ PasoDeCpu(EjecutarInstruccion) \/ PasoDeCpu(RecibirRespuesta)

Spec == Init /\ [][Next]_vars

\* One weak fairness condition for each thread of each program.  ConsolaEnCurso
\* is the console inside a command; nobody is obliged to type one.
Equidad ==
    /\ WF_vars(PasoDeKernel(NewToReady))
    /\ WF_vars(PasoDeKernel(ToExecute))
    /\ WF_vars(PasoDeKernel(CheckResponseOfCpu))
    /\ WF_vars(PasoDeKernel(ConsolaEnCurso))
    /\ WF_vars(PasoDeKernel(ArrancarIo))
    /\ \A p \in Pids : WF_vars(PasoDeKernel(IoFunction(p)))
    /\ \A i \in Interfaces : WF_vars(PasoDeKernel(Operate(i)))
    /\ \A t \in Liberadores : WF_vars(PasoDeKernel(LiberarRecursos(t)))
    /\ WF_vars(PasoDeCpu(RecibirPcb))
    /\ WF_vars(PasoDeCpu(RecibirInterrupcion))
    /\ WF_vars(PasoDeCpu(EjecutarInstruccion))
    /\ WF_vars(PasoDeCpu(RecibirRespuesta))

FairSpec == Spec /\ Equidad

TypeOK == CanalesTypeOK /\ CpuTypeOK /\ KernelTypeOK

-------------------------------------------------------------------------------
(* Where the processes are. *)

Si(b) == IF b THEN 1 ELSE 0

EsPcb(m) == m.op = "PCB"

\* The values of f at the indices I, one for each index.
ListaDe(f, I) ==
    LET s == SetToSeq(I) IN [k \in DOMAIN s |-> f[s[k]]]

\* The PCBs between the kernel's queues: being dispatched, in the CPU, coming
\* back, or in the hands of checkResponseOfCpu.
PcbsDe(canal) ==
    ListaDe([i \in DOMAIN canal |-> canal[i].pid], {i \in DOMAIN canal : EsPcb(canal[i])})

FueraDeColas ==
    PcbsDe(socketCpuDispatch) \o (IF CpuOcupada THEN <<pcbExecute>> ELSE <<>>)
        \o PcbsDe(respuestasCpu) \o (IF respuesta.pc = "pcb" THEN <<respuesta.pid>> ELSE <<>>)

\* The processes that FINISHED_IO_ERROR is about to delete.
PorBorrar == ListaDe(liberando, {i \in Interfaces : liberando[i] # NULL})

Ubicados == queueNews \o queueReadys \o queueAux \o listBlockeds \o FueraDeColas \o PorBorrar

\* Every pid that was ever given out is in one place: in freePids, waiting for a
\* new process, or in exactly one queue, message or thread, and then the memory
\* keeps its program.  No interleaving of the planners, the CPU's answers, the
\* interfaces and FINALIZAR_PROCESO duplicates a PCB or loses one.
CadaPidEnUnLugar ==
    /\ IsInjective(Ubicados)
    /\ IsInjective(freePids)
    /\ ToSet(Ubicados) \cap ToSet(freePids) = {}
    /\ ToSet(Ubicados) \cup ToSet(freePids) = 1 .. nextPid - 1
    /\ listPcbToMemory = ToSet(Ubicados)

-------------------------------------------------------------------------------
(* Who has the CPU. *)

PcbEn(canal) == Si(canal # <<>> /\ EsPcb(Head(canal)))

\* sRunningProcess ("Binario que indica si hay algun proceso en ejecucion") is a
\* token: it is in the semaphore, in runnerProcessToExecute's hands, in a PCB on
\* a socket, in the CPU, or in checkResponseOfCpu's hands, and there is one.
FichasDeCpu ==
    sRunningProcess + Si(toExecute = "listo")
        + PcbEn(socketCpuDispatch) + sCanExecuteInstruction + Si(esperaRecurso # NULL)
        + PcbEn(respuestasCpu) + Si(respuesta.pc = "pcb")

\* One process in the CPU: there is one token, so that a PCB never reaches a CPU
\* that still runs another (operate would free it), and the semaphore is binary.
\* The two directions of the dispatch socket are a dialogue: each carries at most
\* a message, and an answer to WAIT or SIGNAL finds the instruction waiting.
CpuExclusiva ==
    /\ FichasDeCpu = 1
    /\ Len(socketCpuDispatch) + Len(respuestasCpu) + Si(respuesta.pc # "recv") <= 1
    /\ \A i \in DOMAIN socketCpuDispatch : socketCpuDispatch[i].op \in Respuestas
                                             => esperaRecurso # NULL
    /\ \A i \in DOMAIN respuestasCpu : respuestasCpu[i].op \in {"WAIT", "SIGNAL"}
                                         => /\ esperaRecurso = respuestasCpu[i].res
                                            /\ pcbExecute = respuestasCpu[i].pid
    /\ respuesta.pc \notin {"recv", "pcb"} => esperaRecurso = respuesta.res

\* The processes given to the CPU: on their way to it, in it, or on their way back.
EnLaCpu == PcbEn(socketCpuDispatch) + Si(CpuOcupada) + PcbEn(respuestasCpu)

\* currentyRunningPcb, which checkResponseOfCpu clears and FINALIZAR_PROCESO reads
\* without a lock, names the process that has the CPU, from executePcb until its
\* PCB is back, and is NULL the rest of the time.
CurrentEsElQueCorre ==
    /\ EnLaCpu = Si(currentyRunningPcb # NULL)
    /\ \A canal \in {socketCpuDispatch, respuestasCpu} : \A i \in DOMAIN canal :
         EsPcb(canal[i]) => canal[i].pid = currentyRunningPcb
    /\ CpuOcupada => pcbExecute = currentyRunningPcb

-------------------------------------------------------------------------------
(* What the counting semaphores count. *)

\* The processes that have left NEW and are not deleted.
Admitidos ==
    Len(queueReadys) + Len(queueAux) + Len(listBlockeds) + EnLaCpu + Si(respuesta.pc = "pcb")
        + Cardinality({i \in Interfaces : liberando[i] # NULL})

\* The degree of multiprogramming: the free places, the places taken and the one
\* runnerProcessNewToReady holds add up to GRADO_MULTIPROGRAMACION, also while
\* MULTIPROGRAMACION takes places away one at a time.
GradoRespetado ==
    sQueueReadysMax + Admitidos + Si(newToReady \in {"plan", "mover"})
        = IF consola.pc = "bajar" THEN consola.valor + consola.falta
                                  ELSE gradoMultiprogramacion

\* sQueueReadysAvaiable, as main.h states it: "Cantidad de procesos que hay dentro
\* de Ready".
ReadyComoCantidad == sQueueReadysAvaiable = Len(queueReadys) + Len(queueAux)

\* Every process that waits in READY, with priority or without, has a unit of
\* sQueueReadysAvaiable and every unit has a process; the same of NEW, where
\* runnerProcessNewToReady may hold one.  So the planners never pop an empty queue.
SemaforosDeColas ==
    /\ ReadyComoCantidad
    /\ sQueueNewsAvaiable + Si(newToReady # "news") = Len(queueNews)

\* Degree of multiprogramming, as main.h states it of sQueueReadysMax: the number
\* of processes that may enter Ready is at most the configured one.
GradoComoTope ==
    consola.pc # "bajar" => Admitidos <= gradoMultiprogramacion

-------------------------------------------------------------------------------
(* The resources. *)

\* The processes that wait for r after a WAIT: from the count that turned negative
\* (the answer is BLOCK) until they are taken out of listBlockeds.
BloqueadosPor(r) ==
    Cardinality({p \in Pids : Esta(listBlockeds, p) /\ contexto[p].info = r})
      + Si(respuesta.pc = "responder" /\ respuesta.res = r /\ recursos[r] < 0)
      + Si(\E i \in DOMAIN socketCpuDispatch :
             socketCpuDispatch[i].op = "BLOCK" /\ esperaRecurso = r)
      + Si(\E p \in Pids : /\ \/ \E i \in DOMAIN respuestasCpu :
                                   EsPcb(respuestasCpu[i]) /\ respuestasCpu[i].pid = p
                              \/ respuesta.pc = "pcb" /\ respuesta.pid = p
                           /\ contexto[p].reason = "WAIT" /\ contexto[p].info = r)

\* A SIGNAL of r has been counted, for a process that still waits.
SignalEnCurso(r) ==
    /\ respuesta.pc \in {"probar", "buscar", "despertar"}
    /\ respuesta.res = r
    /\ recursos[r] <= 0

\* A request about r that nobody will answer: no message is on the socket and
\* checkResponseOfCpu is back at it.  ProbarSignal leaves it so when the count is
\* still negative.
SinRespuesta(r) ==
    /\ esperaRecurso = r
    /\ socketCpuDispatch = <<>> /\ respuestasCpu = <<>>
    /\ respuesta.pc = "recv"

\* A negative count says how many processes wait for the resource, and nobody
\* waits for a resource that is free: no WAIT is forgotten between the test of the
\* count and blockPcb, and no SIGNAL wakes more than one or the wrong one.  One more
\* waits than the count says while a SIGNAL goes to wake the first of them, and
\* from the SIGNAL that gets no answer on.
EsperasExactas ==
    \A r \in Recursos :
        BloqueadosPor(r) = (IF recursos[r] < 0 THEN -recursos[r] ELSE 0)
                             + Si(SignalEnCurso(r)) + Si(SinRespuesta(r))

\* The steps of the request that the CPU waits for: on the socket, in
\* checkResponseOfCpu's hands, or its answer on the way back.
PasosDelPedido ==
    Len(respuestasCpu) + Len(socketCpuDispatch) + Si(respuesta.pc # "recv")

\* An instruction that waits for an answer will get one, and one only, but in one
\* case: a SIGNAL that leaves two processes or more waiting.  The code sends none
\* then (ProbarSignal), and the CPU waits for ever.
PedidoEnCurso ==
    esperaRecurso # NULL
      => \/ PasosDelPedido = 1
         \/ PasosDelPedido = 0 /\ esperaRecurso \in Recursos /\ BloqueadosPor(esperaRecurso) >= 2

\* "Incrementar la instancia del recurso" (main.c:1583).  Each WAIT takes an
\* instance and each SIGNAL and each release gives one, so that the count moves by
\* one: a thread that writes a value read before another thread's write breaks it.
UnaInstanciaPorVez ==
    [][\A r \in Recursos : recursos'[r] \in recursos[r] - 1 .. recursos[r] + 1]_vars

-------------------------------------------------------------------------------
(* Actions and liveness. *)

\* main.h says of sCanPlan: "Semaforo que indica si puedo ejecutar el
\* planificador".  While planning is stopped no process is given the CPU.
DetenidoNoDespacha ==
    [][~plannerIsRunning => currentyRunningPcb' \in {currentyRunningPcb, NULL}]_vars

\* If from some moment on planning is not stopped any more, every process ends
\* and its program leaves the memory, whatever the algorithm; for finite programs
\* that ask for no resource.
TodoTermina ==
    <>[]plannerIsRunning
      => \A p \in Pids : p \in listPcbToMemory ~> p \notin listPcbToMemory

\* MULTIPROGRAMACION with a smaller value, which blocks the console until the
\* places are free, returns in the end.
BajarTermina == <>[]plannerIsRunning => (consola.pc = "bajar" ~> consola.pc = "libre")

===============================================================================
