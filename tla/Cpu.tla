--------------------------------- MODULE Cpu ----------------------------------
(***************************************************************************)
(* cpu/src/main.c and the part of cpu/src/operations.c that leaves the CPU *)
(* or talks to the kernel.  Three threads: operate reads the dispatch      *)
(* socket, serverInterrupt the interrupt socket, executeInstrucions runs   *)
(* the process in pcbExecute one instruction at a time.                    *)
(*                                                                         *)
(* What an instruction computes is left out: an instruction is one of the  *)
(* kinds that the scheduling tells apart.  The fetch from memory is in the *)
(* module of the memory.                                                   *)
(***************************************************************************)
EXTENDS Canales

CONSTANT Programas   \* pid -> what kinds its first instruction, its second... may be

Instrucciones == {"COMUN", "IO", "ERROR", "WAIT", "SIGNAL", "EXIT"}

ASSUME ProgramasAssumption == Programas \in [Pids -> Seq(SUBSET Instrucciones)]

VARIABLES
    pcbExecute,              \* the process the CPU runs, or ran last
    sCanExecuteInstruction,  \* semaphore: executeInstrucions may go on
    esperaRecurso,           \* WAIT or SIGNAL in course: NULL or its resource
    sInterrupt,              \* semaphore: interrupts not attended yet
    reasonForInterruption    \* the reason the last interrupt brought

cpuVars == <<pcbExecute, sCanExecuteInstruction, esperaRecurso, sInterrupt,
             reasonForInterruption>>

\* A process is in the CPU.
CpuOcupada == sCanExecuteInstruction > 0 \/ esperaRecurso # NULL

CpuTypeOK ==
    /\ pcbExecute \in Pids \cup {NULL}
    /\ sCanExecuteInstruction \in Nat
    /\ esperaRecurso \in NombresRecursos \cup {NULL}
    /\ sInterrupt \in Nat
    /\ reasonForInterruption \in {"QUANTUM", "CONSOLE", NULL}
    /\ CpuOcupada => pcbExecute \in Pids

CpuInit ==
    /\ pcbExecute = NULL
    /\ sCanExecuteInstruction = 0
    /\ esperaRecurso = NULL
    /\ sInterrupt = 0
    /\ reasonForInterruption = NULL

\* operate, case PCB: whatever pcbExecute held is freed and overwritten.
RecibirPcb ==
    /\ socketCpuDispatch # <<>>
    /\ Head(socketCpuDispatch).op = "PCB"
    /\ pcbExecute' = Head(socketCpuDispatch).pid
    /\ sCanExecuteInstruction' = sCanExecuteInstruction + 1
    /\ socketCpuDispatch' = Tail(socketCpuDispatch)
    /\ UNCHANGED <<respuestasCpu, socketCpuInterrupt, contexto, esperaRecurso,
                   sInterrupt, reasonForInterruption>>

\* serverInterrupt: one variable holds the reason of every pending interrupt.
RecibirInterrupcion ==
    /\ socketCpuInterrupt # <<>>
    /\ reasonForInterruption' = Head(socketCpuInterrupt)
    /\ sInterrupt' = sInterrupt + 1
    /\ socketCpuInterrupt' = Tail(socketCpuInterrupt)
    /\ UNCHANGED <<socketCpuDispatch, respuestasCpu, contexto, pcbExecute,
                   sCanExecuteInstruction, esperaRecurso>>

\* The break out of executeInstrucions' inner loop, and sendPcb.
DevolverPcb(c) ==
    /\ contexto' = [contexto EXCEPT ![pcbExecute] = c]
    /\ respuestasCpu' = Append(respuestasCpu, Mensaje("PCB", pcbExecute, NULL))

\* After an instruction that does not leave the CPU: sem_trywait(&sInterrupt),
\* and sem_post(&sCanExecuteInstruction) when there is no interrupt.  libres is
\* the value of the semaphore while the instruction runs.
Sondear(c, libres) ==
    \/ /\ sInterrupt > 0
       /\ sInterrupt' = sInterrupt - 1
       /\ DevolverPcb([c EXCEPT !.reason = reasonForInterruption,
                                !.quantum = IF reasonForInterruption = "QUANTUM"
                                              THEN 0 ELSE @])
       /\ sCanExecuteInstruction' = libres
    \/ /\ sInterrupt = 0
       /\ contexto' = [contexto EXCEPT ![pcbExecute] = c]
       /\ sCanExecuteInstruction' = libres + 1
       /\ UNCHANGED <<sInterrupt, respuestasCpu>>

\* sem_wait(&sCanExecuteInstruction) and the fetch of an instruction of kind k.
\* A program is a file that ends in EXIT.
PuedeEjecutar(k) ==
    LET n == contexto[pcbExecute].pc + 1 IN
    /\ sCanExecuteInstruction > 0
    /\ esperaRecurso = NULL
    /\ IF n \in DOMAIN Programas[pcbExecute] THEN k \in Programas[pcbExecute][n]
                                            ELSE k = "EXIT"

TrasIncrementarPc == [contexto[pcbExecute] EXCEPT !.pc = @ + 1]

\* SET, SUM, SUB, JNZ, MOV_IN, MOV_OUT, RESIZE, COPY_STRING: no system call.
EjecutarComun ==
    /\ PuedeEjecutar("COMUN")
    /\ Sondear(TrasIncrementarPc, sCanExecuteInstruction - 1)
    /\ UNCHANGED <<socketCpuDispatch, socketCpuInterrupt, pcbExecute,
                   esperaRecurso, reasonForInterruption>>

\* EXIT, an IO_ operation, or an instruction that fails: executeOperations
\* returns 1 with the reason in the context, and sInterrupt is not looked at.
EjecutarYSalir(k) ==
    /\ PuedeEjecutar(k)
    /\ sCanExecuteInstruction' = sCanExecuteInstruction - 1
    /\ DevolverPcb([TrasIncrementarPc EXCEPT
                      !.reason = k, !.info = IF k = "IO" THEN "IO" ELSE NULL])
    /\ UNCHANGED <<socketCpuDispatch, socketCpuInterrupt, pcbExecute,
                   esperaRecurso, sInterrupt, reasonForInterruption>>

\* WAIT and SIGNAL: the request goes out and the thread waits for the answer
\* on sExecuteCodeOpResources.
PedirRecurso(k, r) ==
    /\ PuedeEjecutar(k)
    /\ sCanExecuteInstruction' = sCanExecuteInstruction - 1
    /\ esperaRecurso' = r
    /\ contexto' = [contexto EXCEPT ![pcbExecute] = TrasIncrementarPc]
    /\ respuestasCpu' = Append(respuestasCpu, Mensaje(k, pcbExecute, r))
    /\ UNCHANGED <<socketCpuDispatch, socketCpuInterrupt, pcbExecute,
                   sInterrupt, reasonForInterruption>>

\* operate stores the answer in cod_op_resource and posts the semaphore; the
\* instruction ends: CONTINUE goes on, the other two leave the CPU.
RecibirRespuesta ==
    LET c == contexto[pcbExecute] IN
    /\ esperaRecurso # NULL
    /\ socketCpuDispatch # <<>>
    /\ Head(socketCpuDispatch).op \in Respuestas
    /\ \/ /\ Head(socketCpuDispatch).op = "CONTINUE"
          /\ Sondear(c, sCanExecuteInstruction)
       \/ /\ Head(socketCpuDispatch).op = "BLOCK"
          /\ DevolverPcb([c EXCEPT !.reason = "WAIT", !.info = esperaRecurso])
          /\ UNCHANGED <<sInterrupt, sCanExecuteInstruction>>
       \/ /\ Head(socketCpuDispatch).op = "EMPTY_INSTANCE"
          /\ DevolverPcb([c EXCEPT !.reason = "EXIT", !.info = NULL])
          /\ UNCHANGED <<sInterrupt, sCanExecuteInstruction>>
    /\ esperaRecurso' = NULL
    /\ socketCpuDispatch' = Tail(socketCpuDispatch)
    /\ UNCHANGED <<socketCpuInterrupt, pcbExecute, reasonForInterruption>>

EjecutarInstruccion ==
    \/ EjecutarComun
    \/ \E k \in {"EXIT", "IO", "ERROR"} : EjecutarYSalir(k)
    \/ \E k \in {"WAIT", "SIGNAL"}, r \in NombresRecursos : PedirRecurso(k, r)

===============================================================================
