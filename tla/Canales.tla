------------------------------- MODULE Canales --------------------------------
(***************************************************************************)
(* What the kernel and the CPU share: the two sockets between them and the *)
(* PCBs that travel over the first one.                                    *)
(*                                                                         *)
(* A socket is a pair of sequences, one per direction, read at the head.   *)
(* sendPcb serialises a PCB and recvPcb builds a new one, so there is one  *)
(* live copy of each PCB at a time: contexto[p] is that copy's content and *)
(* a message names the pid alone.                                          *)
(***************************************************************************)
EXTENDS Integers, Sequences

CONSTANTS
    MaxPid,            \* bound on the pids handed out by nextPid
    Recursos,          \* RECURSOS of kernel.config: the resources that exist
    NombresRecursos,   \* the resource names the programs use
    Quantum,           \* QUANTUM of kernel.config, in ticks of the counter
    NULL               \* no process, no resource, an empty string

ASSUME ConstantesDeCanales ==
    /\ MaxPid \in Nat \ {0}
    /\ Quantum \in Nat \ {0}
    /\ Recursos \subseteq NombresRecursos
    /\ NULL \notin Nat \cup NombresRecursos \cup {"IO", "WAIT"}
    /\ "IO" \notin NombresRecursos

VARIABLES
    socketCpuDispatch,   \* kernel to CPU: PCBs, answers to WAIT and SIGNAL
    respuestasCpu,       \* CPU to kernel, the same socket: PCBs, WAIT, SIGNAL
    socketCpuInterrupt,  \* kernel to CPU: the reason of each interrupt
    contexto             \* pid -> PC, quantum and contextSwitch of its PCB

canales == <<socketCpuDispatch, respuestasCpu, socketCpuInterrupt, contexto>>

Pids == 1 .. MaxPid

Razones == {"EXIT", "ERROR", "IO", "WAIT", "QUANTUM", "CONSOLE"}
Respuestas == {"CONTINUE", "BLOCK", "EMPTY_INSTANCE"}

\* context->info: the resource a WAIT blocked on, the text of an IO operation
\* (abstracted to "IO"), or the empty string.
Infos == NombresRecursos \cup {"IO", NULL}

\* pc counts the instructions that the process has run: a jump only makes the
\* program longer.
Contextos == [pc : Nat, quantum : 0 .. Quantum,
              reason : Razones \cup {NULL}, info : Infos]

ContextoInicial == [pc |-> 0, quantum |-> 0, reason |-> NULL, info |-> NULL]

Mensaje(op, pid, res) == [op |-> op, pid |-> pid, res |-> res]

Pcbs == [op : {"PCB"}, pid : Pids, res : {NULL}]
MensajesDelKernel == Pcbs \cup [op : Respuestas, pid : {NULL}, res : {NULL}]
MensajesDeLaCpu == Pcbs \cup [op : {"WAIT", "SIGNAL"}, pid : Pids, res : NombresRecursos]

CanalesTypeOK ==
    /\ socketCpuDispatch \in Seq(MensajesDelKernel)
    /\ respuestasCpu \in Seq(MensajesDeLaCpu)
    /\ socketCpuInterrupt \in Seq({"QUANTUM", "CONSOLE"})
    /\ contexto \in [Pids -> Contextos]

CanalesInit ==
    /\ socketCpuDispatch = <<>>
    /\ respuestasCpu = <<>>
    /\ socketCpuInterrupt = <<>>
    /\ contexto = [p \in Pids |-> ContextoInicial]

===============================================================================
