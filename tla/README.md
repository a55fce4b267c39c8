# RonaldinhOS: a verification project

RonaldinhOS is a distributed operating-system simulator: four kinds of program
(`kernel`, `cpu`, `memoria`, `entradasalida`) joined by TCP sockets, and a
library (`utils`) that serialises what travels on them. This directory holds a
TLA+ model of it, TLC configurations that check the model on small instances,
and proofs checked by TLAPS for every value of the constants.

Paths such as `kernel/src/main.c:422` are relative to the repository.
Definitions keep the names of the source where TLA+ allows it.

## 1. Inventory

| Component | State | Operations | Talks to |
|---|---|---|---|
| kernel, planners (`kernel/src/main.c`) | `queueNews`, `queueReadys`, `queueAux`, `listBlockeds`, the semaphores `sQueueNewsAvaiable`, `sQueueReadysMax`, `sQueueReadysAvaiable`, `sRunningProcess`, `sCanPlan`, `currentyRunningPcb` | `runnerProcessNewToReady`, `runnerProcessToExecute` (FIFO, RR, VRR) | CPU: PCBs on dispatch, reasons on interrupt; memory: the program of a process |
| kernel, `checkResponseOfCpu` | the same queues, `paramsIo` | a PCB back (EXIT, ERROR, IO, WAIT, QUANTUM, CONSOLE), WAIT, SIGNAL | CPU: answers on the dispatch socket |
| kernel, resources | `recursos[]` (name, `instancia`), `listResourcesPcbs` | WAIT, SIGNAL, `liberarRecursos` | the queues |
| kernel, interfaces (`ioFunction`, `operate`) | `interfaces[]`, `listBlockeds` | a request, FINISHED_IO, FINISHED_IO_ERROR, connection, disconnection | each interface's socket |
| kernel, console (`interactive_console.c`) | degree of multiprogramming, `freePids`, `nextPid`, `plannerIsRunning` | INICIAR_PROCESO, FINALIZAR_PROCESO, INICIAR/DETENER_PLANIFICACION, MULTIPROGRAMACION, PROCESO_ESTADO, EJECUTAR_SCRIPT | everything above |
| cpu, instruction cycle (`cpu/src/main.c`, `operations.c`) | `pcbExecute`, `sCanExecuteInstruction`, `sExecuteCodeOpResources`, `sInterrupt`, `reasonForInterruption` | `operate`, `serverInterrupt`, `executeInstrucions` | kernel, memory |
| cpu, registers and arithmetic (`operations.c`) | eleven registers of 8 and 32 bits | SET, SUM, SUB, JNZ, MOV_IN, MOV_OUT, COPY_STRING | MMU, memory |
| cpu, MMU (`MMU.c`) | the TLB | translation, FIFO and LRU replacement | memory |
| memoria, paging (`paginacion.c`) | bitmap of frames, page tables, the user space | CREATION, `resize`, reads, writes, `getFrame` | CPU, interfaces |
| memoria, instructions (`memory.c`) | one global array of instructions | PROCESSTOMEMORY, REQUESTINSTRUCTIONS | kernel, CPU |
| entradasalida, interfaces (`main.c`) | type of the interface | GENERICA, STDIN, STDOUT, DIALFS requests | kernel, memory |
| entradasalida, DialFS (`utils_io.c`) | bitmap and blocks (mmap), metadata files, `globalOpenFiles` | create, delete, truncate, read, write, relocate, compact | memory |
| utils | none | PCB, messages, buffers | all |

How they interact: the kernel gives the CPU one PCB at a time and the CPU gives
it back with a reason; WAIT and SIGNAL are a dialogue on the same socket while
the process stays in the CPU. The kernel blocks a process for IO and a thread of
its own asks the interface, whose answer is read by another thread. The console
changes all of it from outside.

What makes it hard: nine kinds of thread in the kernel and three in the CPU;
counting semaphores that must follow queues changed in other places;
`currentyRunningPcb` read and written by three threads without a lock; one
variable for the reason of every interrupt; a local (`paramsIo`) handed by
pointer to a thread; FINALIZAR_PROCESO, that removes a process from wherever it
is; a memory whose two clients race for one array; a TLB that is never
invalidated; a disk whose bitmap and metadata are changed in several steps and
outlive the program. `PROJECT.json` lists each hazard at its line, with the
properties that watch it.

What makes each component correct: no process is lost or duplicated and each
semaphore counts what `main.h` says it counts (planners, console); one process
in the CPU and one answer per request (CPU, `checkResponseOfCpu`); instances
neither lost nor given twice (resources); a translation that agrees with the
page table (MMU); frames owned by one process and as many as its size needs
(paging); the program fetched is the one of the process that runs
(instructions); each answer of the memory received by the question it answers
(`memory.c` and its clients); and, of the whole data path, that a process sees
registers and a flat memory of its own, whatever pages, messages, interfaces and
other processes are in between. Extents disjoint and equal to the bitmap (DialFS).

## 2. Modules

| Module | What it is |
|---|---|
| `Canales` | the two sockets between kernel and CPU and the PCBs on them |
| `Cpu` | `cpu/src/main.c` and the part of `operations.c` that leaves the CPU |
| `Kernel` | `kernel/src/main.c` and the console |
| `Sistema` | kernel and CPU together: `Next`, fairness, the properties |
| `MCSistema` | values of the constants for TLC |
| `SistemaProofs` | the theorems about kernel and CPU: types, the token, the queues and their semaphores |
| `ProcesosProofs` | the theorems about where each process is and what it waits for |
| `Paginacion` | `memoria/src/paginacion.c`: bitmap of frames, page tables, `resize` |
| `Mmu` | `cpu/src/MMU.c` over `Paginacion`: translation and TLB, `getFrame` |
| `MCMmu` | values of the constants of both |
| `PaginacionProofs` | the theorems about `Paginacion` |
| `MmuProofs` | the theorems about `Mmu` |
| `Minimos` | a lemma about the library's `Min`, for the proofs |
| `Registros` | the registers and what the instructions of `operations.c` compute, with their widths |
| `EspacioDeUsuario` | `paginacion.c`: the bytes of the frames, reads and writes that go on in other pages; over `Paginacion` |
| `Memoria` | `memory.c`: the requests of each connection and their answers, the one array of instructions |
| `Ejecucion` | the data path: CPU, memory, `ioFunction` and the four kinds of interface together; its properties |
| `Maquina` | abstract specification: registers and a flat memory for each process; `Ejecucion` implements it |
| `MCEjecucion` | the pairs of programs and the values of the constants |
| `EjecucionProofs` | the theorems about `Ejecucion`: the dialogue, the program loaded, the frames |
| `AccesosProofs` | the theorems about its accesses: types, addresses, bytes, writes |
| `Disco` | abstract specification: files with disjoint sets of blocks |
| `DialFS` | `entradasalida/src/utils_io.c`: bitmap and metadata files; implements `Disco` |
| `MCDialFS` | values of the constants of `DialFS` |
| `DialFSProofs` | the theorems about `DialFS` |

`Memoria` EXTENDS `EspacioDeUsuario`, which EXTENDS `Paginacion` and `Registros`;
`Ejecucion` EXTENDS `Memoria` and instantiates `Maquina`.

There are four models to check: `Sistema` (who runs), `Mmu` (where a page is),
`Ejecucion` (what a process computes, reads and writes) and `DialFS` (where a
file is). They share little in the code: the scheduling never looks at the data,
and a translation is one question and one answer. Their product would only
multiply the states, so each has of the others what it needs: in `Sistema` a
fetch is immediate and an instruction is its kind; in `Ejecucion` the ready
queue is one, the quantum ends whenever it likes, the TLB has no rows
(`CANTIDAD_ENTRADAS_TLB=0`, as in `cpu.config`) and a file is what is read of it.

### How state and actions correspond to the code

* A **socket** is one sequence per direction. A PCB is copied by value when it
  is sent and there is one live copy at a time, so a message names the pid and
  `contexto[pid]` is the content of the live copy (`pc`, `quantum`, and the
  `reason`/`info` of `contextSwitch`). The registers are left out.
* Each **thread** has a program counter (`newToReady`, `toExecute`,
  `respuesta.pc`, `consola.pc`, `esperaRecurso` in the CPU); a step goes from
  one wait, socket read or unlocked read of shared state to the next. A push under
  a mutex and the `sem_post` after it are one step, and so are
  `sem_wait(&sQueueReadysAvaiable)` and the pop: only the thread that waited pops.
* **`instancia++`** and **`instancia--`** have no lock in any of the three places
  where they are, and the console, `checkResponseOfCpu` and the thread of each
  interface may be in them at once: the read and the write are two steps
  (`RecibirPedido` and `AnotarWait` or `QuitarSignal`;
  `QuitarDeLaLista` and `LiberarUno`), with what was read in `leida`. The branch that
  follows reads the count again (`ResponderWait`, `ProbarSignal`), and the search of
  a waiter and `desblockPcb`, that searches again after an unlock, are two steps more
  (`BuscarEnEspera`, `DespertarPorSignal`; `BuscarAlLiberar`, `DespertarPorLiberar`).
* **`createPcb`** is two steps: up to the post of `sQueueNewsAvaiable`
  (`IniciarProceso`), and the list of resources (`CrearRecursosDePid`). In between the
  process may be admitted, run and WAIT; `AnotarWait` then takes the instance and
  notes it nowhere, because the code finds no list (`main.c:925`).
* What stays indivisible though the code has no lock: one change of a list
  (`listResourcesPcbs`, `freePids`) and `nextPid++`. Two threads inside the same list
  of `commons` are undefined behaviour that the model does not have.
* A **counting semaphore** is a natural. `sCanPlan` is 1 exactly while
  `plannerIsRunning`, so passing its wait and post is the test of that flag.
* A **mutex** is the atomicity of the step that holds it.
* `liberarRecursos` may be interrupted by anything between two resources and inside
  `liberarRecurso` (`liberando`, `devolucion`); the order of the resources in
  `listResourcesPcbs` is left out, a pid's list is a count per resource.
* **FINALIZAR_PROCESO** is stepwise: the unlocked test of `currentyRunningPcb`,
  the read of its pid, then one step for each queue it searches.
* An **IO thread** starts by reading the shared `paramsIo` (`ArrancarIo`), which
  the next process that blocks may have overwritten; then it finds the interface
  (or deletes the process). An interface answers its oldest request, with
  success or with an error. It is modelled as the kernel sees it.
* **`contexto.quantum`** is always 0: the count that VRR keeps goes to
  the kernel's own copy of the PCB (`main.c:494`), which `recvPcb` abandons.
* A **NULL pointer that is followed** ends the kernel: `Caer` sets `crashed` and
  nothing happens afterwards.
* An **instruction** is one of the kinds the scheduling tells apart:
  `COMUN`, `IO`, `ERROR`, `WAIT`, `SIGNAL`, `EXIT`. `Programas` says which kinds
  the first instruction that a process runs may be of, the second, and so on, and
  EXIT follows; JNZ only makes a program longer, so `contexto.pc` counts the
  instructions run.
* The order in which threads read one variable without a lock is free; the
  values they read are whole (`currentyRunningPcb` is a pointer, `instancia` an
  `int`).

* **`Paginacion`**: the CPU's connection is the only one that asks for RESIZE
  and frames and it waits for the answer, so `Resize` is one step with one
  disjunct per branch of `resize`: no table (`playingGod`), same size, larger,
  out of memory, smaller. `bitArrayOcupiedFrames` is the set of frames whose bit
  is 1. The buffer of `*` that `resize` measures with `strlen` has no
  terminator, so the number of pages is a choice (`StrlenPages`).
* **`Mmu`**: a row of the TLB is pid, page, frame and time. A translation is
  `Translate`: `hitOrMiss` renews the row that it finds, whatever its frame, and
  `buscarFrameEnMemoria` adds one after a miss or a frame -1. The clock counts
  translations, not microseconds; `AsInt` is the conversion to `int` in
  `findMinimum`. `uses` and `reduced` are history, read by the properties only.
* **`Registros`**: a byte has `Base` values (256 in the code); a register of 8
  bits is one and one of 32 bits four. `Set` cuts to the width of the register;
  `Sum` and `Sub` have the branches of `SUM` and `SUB`, the one that adds where
  it should subtract included. `CadenaANumero` reads the text up to its first
  `'\0'`, as the memory does when it answers MOV_IN; `PartesDeMovOut` cuts in two
  halves of 16 bits whatever the page leaves.
* **`EspacioDeUsuario`**: `mainMemory` maps each physical address to a byte.
  `Destino` and `Origen` say where the byte `k` of a write or a read is, by the
  arithmetic of `ocupyPhysicalAddress` and `leer_a_partir_de_direccion`, which
  find the next page by the frame of the address. `EscrituraCae` and `LecturaCae`
  are the calls whose count of bytes is negative or whose page is not there.
* **`Memoria`**: `aMemoria[c]` and `deMemoria[c]` are the two directions of the
  socket of the client `c`, attended by a thread of its own. An action is a case
  of `operate`. The mutexes of the code are the atomicity of the action. What an
  answer carries is its type and its datum: as in the code, not what it answers.
  A bad answer is no answer: `FinDelArreglo` and `WriteSinTabla` put the client
  in `mudas`.
* **`Ejecucion`**: the CPU's thread has a phase for each place where it waits
  (`cpu.fase`), and the parts of the access in course. `registros[p]` are those of
  the live copy of the PCB. An operation of IO carries its physical address in
  `info[p]`, as the text that the CPU writes in `context->info`. The kernel keeps
  here only what the data pass through: dispatch (`executePcb`, in two sends),
  the PCB back, `ioFunction` with the shared `paramsIo`, FINISHED_IO. The thread
  of an interface takes a request, talks to the memory or not, and answers; the
  result of FS_READ is announced before the memory has written it.
* **What stops the model of the data path**: `crashed` (NULL followed, a copy of a
  negative length), `derrame` (a write over a frame of another page, or through an
  address that is no more that of its logical one) and `pisado` (`paramsIo`
  written over before it is read). All three are reached; C promises nothing
  after the first two, and after the third a process waits for ever.
  The properties say what holds until then. The buffer that is copied past its end
  (`Desborde`, `Basura`) and the `'*'` that `strlen` counts too many (`Sobra`) do
  not stop it: they are choices.
* **`Maquina`** has no pages, frames, messages or interfaces. What the code lets a
  process see of them is in its actions: a number over the end of a page is read
  and written in two parts, `Cambia` leaves to chance the bytes that MOV_OUT takes
  from beyond one char, a file that was read comes late (`tardias`), and the
  program may be of another process (`Instruccion`), because the first fetch may
  meet the array of the one before.
  A part of an access takes effect when the memory attends it, a RESIZE when it is
  answered, an operation of IO when the memory or the interface does it
  (`ioHecha`), and an answer that is on its way has been received already
  (`RegsDe`, `SalidaDe`, `Terminados`).
* **`DialFS`**: the interface attends one request at a time, but a request
  writes the disk many times. A step is one loop over the bitmap or one
  rewritten metadata file; `op` holds the program counter and the locals of
  `fsTruncate`, `realocate` and `compaction`. `bitmap` is the set of bits that
  are 1 and may hold numbers past `BLOCK_COUNT`, as the mapped page does. The
  unsigned comparison that makes `realocate` keep the bits of a file in block 0
  is in `Soltar`. `reubico` is history.

### Bounds, and why they are enough

`MaxPid`, the length of `Programas`, `MaxCrear` and `MaxFinalizar` bound what an operator
and a program may do; `Quantum` is a constant of the code (`QUANTUM`) at a small
value. Two processes already meet in every queue, race for the CPU and compete
for a resource; three are used where degree and queues interact
(`planificacion`) and where two wait and a third signals: there the resource starts
with no instance, so that one instruction each is enough. One FINALIZAR_PROCESO finds
its process in any state. In `consola` a process takes a resource and then uses the
interface, so that its end in any state, or the interface's failure, releases what
another one waits for; a pid is given out again, so that answers and
interrupts for the old process meet the new one. `instancia_perdida` has the commands
of `consola` that one lost update needs.

`ejecucion`: two processes share four frames of four bytes, each byte of four
values (`Base`), so that a register of 32 bits is as long as a page and every one
that is not aligned is in two. The programs are nine pairs, because the bound is
what happens and not how long they are: `Partido` has a number over the end of a
page, with pages that are not contiguous; `Texto` types, copies and prints
over two pages; `Archivos` and `Tarde` go on while what was read of a file is on
its way, and free the page it goes to; `Esperas` has two requests of IO at once
(`paramsIo`) and files its memory; `Cuentas` passes over every width, loops, jumps
out of the program and asks for more than the memory; `Errores` and `Ausente` ask
interfaces for what they cannot do, or one that is not there, or print without
memory; `Llena` asks for 0 bytes of a full memory. `MaxDesalojos = 2`: a process
can be taken out in the middle of its program and the other too.
`MaxAdelantada = 2`: only the first two instructions of a process may be fetched
before its program is loaded; later ones meet the same race. `Basura` has one
byte that no program writes there, `Sobra` none or one.

`memoria`: two processes compete for three frames, so that each branch of
`resize` happens with memory free, short and exhausted; sizes 0, half a page,
two pages and more than the memory; a TLB of two rows for four pages, so that it
is full, replaced and holds rows with frame -1; `IntMax = 4` and `MaxClock = 6`
let the clock pass the width of its `int`. `dialfs`: eight blocks and three
files of one or three blocks: the disk fills, files relocate, compaction moves
one, two or three files, and the last blocks of the disk are reached.

## 3. Runs

| Run | Instance | What it shows |
|---|---|---|
| `consola` | VRR, 2 processes, resource with 1 instance, interface and an unknown one, one FINALIZAR_PROCESO in any state | `TypeOK`; `CadaPidEnUnLugar`: every pid is in exactly one queue, message, thread or in `freePids`; `CpuExclusiva`; `CurrentEsElQueCorre` |
| `planificacion` | FIFO and VRR, 3 processes, degree 2 moved to 1 and 3, planning stopped and resumed; two processes that may wait for a resource, one that signals it or uses an interface | `GradoRespetado`, `SemaforosDeColas`, `CpuExclusiva`, `EsperasExactas`, `PedidoEnCurso` |
| `vivacidad` | the three algorithms, 2 processes, IO, failures, MULTIPROGRAMACION, DETENER | `TodoTermina`, `BajarTermina` |
| `grado_excedido` | FINALIZAR_PROCESO in NEW | violates `GradoComoTope` (finding) |
| `ready_descontado` | FINALIZAR_PROCESO in READY | violates `ReadyComoCantidad` (finding) |
| `detenido_despacha` | DETENER_PLANIFICACION while the planner waits | violates `DetenidoNoDespacha` (finding) |
| `instancia_perdida` | FINALIZAR_PROCESO of the holder of a resource while another process asks for it | violates `UnaInstanciaPorVez` (finding) |
| `memoria` | 2 processes, 3 frames of 2 bytes, 2 rows, FIFO and LRU | `MmuTypeOK`, `MarcosExclusivos`, `IdsSeguidos`, `TamanioPedido`, `TlbFiel`, `VictimaLru` |
| `tlb_desactualizada` | the same | violates `TlbVigente` (finding) |
| `dialfs` | 3 files, 8 blocks, sizes of 1 and 3 blocks | `DialFSTypeOK`, `MapaCubre`, `MapaExacto`, `CompactaSinHuecos`, `ImplementaDisco`, `SiempreResponde` |
| `ejecucion` | 9 pairs of programs, 4 frames of 4 bytes, an interface of each kind, 2 ends of quantum | `EjecucionTypeOK`, `MarcosExclusivos`, `DialogoConLaMemoria`, `DireccionesVigentes`, `AccesosFieles`, `EscriturasAsentadas`, `CargadoElQueCorre`, `ImplementaMaquina`, `TodosTerminan` |
| `disco_excedido` | the same as `dialfs` | violates `DentroDelDisco` (finding) |

The properties:

* **`CadaPidEnUnLugar`** relates five queues, two sockets, the CPU, a thread's
  locals, `freePids` and `listPcbToMemory`.
* **`CpuExclusiva`**: `sRunningProcess` is a token. It is in the semaphore, in
  the planner's hands, on a socket, in the CPU or with `checkResponseOfCpu`, and
  there is one. `operate` frees the PCB it had when another arrives: two tokens
  would lose a process. The dispatch socket is a dialogue.
* **`CurrentEsElQueCorre`**: the pointer that the console reads without a lock
  names the process in the CPU or is NULL, and there is a process there exactly when
  it is not NULL.
* **`GradoRespetado`**, **`SemaforosDeColas`**: what each semaphore counts,
  including the unit a planner holds. They hold **without** FINALIZAR_PROCESO
  of a process in NEW or READY; `grado_excedido` and `ready_descontado` show how they break.
* **`EsperasExactas`**: a negative count is the number of processes that wait,
  whatever the answers and the threads in between; one more waits while a SIGNAL
  wakes the first (`Despierta`), and from a SIGNAL that nobody answers on
  (`SinRespuesta`).
* **`PedidoEnCurso`**: a request that the CPU waits for has one answer on its way, or
  it is a SIGNAL of a resource that two processes or more still wait for. That is the
  only case: there the code sends nothing (`main.c:973`), and the CPU waits for ever
  on `sExecuteCodeOpResources`. The run has three processes and reaches it; no line
  of the repository promises the answer, so the deadlock is a hazard and no finding.
* **`UnaInstanciaPorVez`**: the count of a resource moves by one. It is violated: two
  threads read it before either writes.
* **`TodoTermina`**, **`BajarTermina`**: liveness, below.
* **`MarcosExclusivos`**: the bitmap, that chooses frames, and the page tables,
  that own them, are changed by different functions and never disagree, and no
  frame has two pages.
* **`IdsSeguidos`**: the id of a page is its place in the table, although the
  ids of a new table come from `idGlobal`, later ones from `lastUsedPageID`, and
  both are put back by hand.
* **`TamanioPedido`**: a process with a table that is answered 1 has the bytes it
  asked for and less than two pages more: reducing keeps a page too many, which is
  what `freePagesFromTheEnd` does (it frees `numberPages - 1`).
* **`TlbFiel`**: until a page is freed, whatever is translated, inserted or
  replaced, a row agrees with the page table. **`VictimaLru`** compares the row
  that `findMinimum` takes with what has really been used.
* **`ImplementaDisco`** is refinement: with `extension` computed from the
  metadata, every write (in the middle of a relocation too) is a step of
  `Disco`, that changes the blocks of one file and gives it none of another's.
  **`MapaCubre`** and **`MapaExacto`** relate the bitmap to the metadata between
  requests; the second only until a file is relocated, because `realocate` leaks
  the blocks of a file that starts in block 0. **`CompactaSinHuecos`** is what
  compaction is for.

* **`DialogoConLaMemoria`**: no message of the memory says which request it is
  for, some requests have no answer, and one client sends both kinds. A client that
  waits has one question or one answer, of the type it will read, and a client that
  does not wait has no answer coming; one that was left without an answer has
  nothing on its socket.
* **`DireccionesVigentes`**: the physical address that a message or a request of
  IO carries is still that of its logical one, though other processes resize in
  between. What was read of a file is the exception: it comes when the process
  is running again, and the run reaches `derrame` by it (`Tarde`).
* **`AccesosFieles`**: the arithmetic of reads and writes against the translation
  byte by byte (`Traducida`).
* **`EscriturasAsentadas`**: the CPU sends a write and goes on; it is in the memory
  before the next instruction is executed, because the fetch is on the same socket.
* **`CargadoElQueCorre`**: the array of instructions and the process that runs,
  changed by two sockets in the wrong order, agree once both have been attended.
* **`ImplementaMaquina`** is refinement. Everything between a process and its bytes
  disappears, and no step of any other process changes them.
* **`TodosTerminan`**: every process ends, or the model stopped, or a client waits
  for an answer that is never sent.

Deadlock is checked in the runs of `DialFS`, where a request can always go on or
come. It is not checked in `memoria` and `tlb_desactualizada`, which stop when the memory has
followed NULL (`CreateFromNull`), nor in `ejecucion`, which
stops when both programs have ended, when nothing more is promised and when the
CPU is left without an answer, nor in those of kernel and CPU: the system stops when the operator types
nothing more and every program has ended, and when the kernel has crashed. The
same configurations leave the crash reachable where FINALIZAR_PROCESO can cause
it, so that the invariants are also checked in the states that lead to it.

Only one process of each instance asks for IO. Two requests in course share
`paramsIo`: one can be sent twice and the other never (hazard at `main.c:890`),
and then no process of the second would ever come back.

### Fairness

`FairSpec` adds weak fairness for each thread: `runnerProcessNewToReady`,
`runnerProcessToExecute`, `checkResponseOfCpu`, the console inside a command,
each IO thread, each interface, each `liberarRecursos` and the threads of the
CPU. `pthread_create` starts them all and each blocks only in a semaphore, a
mutex or a socket read, so an enabled one is scheduled in the end. A thread that waits for a
semaphore that others take continuously has no guarantee from weak
fairness, nor from the code. Nothing is assumed of the operator: no fairness on
commands, and `<>[]plannerIsRunning` is a hypothesis of the properties.

`EjecucionFairness` is weak fairness of each thread of the data path: the CPU, the
planner, `checkResponseOfCpu`, the thread of the request of IO, the one of each
interface, the one that reads its answers and the one of each connection of the
memory. Each is a loop that blocks only in a socket read or a semaphore, and once
enabled a step of it stays enabled until it is taken.

`DialFSFairSpec` adds weak fairness of `Seguir`: the interface is one thread that
never waits inside a request (`SiempreResponde`).

### Findings

1. `FINALIZAR_PROCESO` of a process in NEW posts `sQueueReadysMax`
   (`deletePcb`, `main.c:704`), a place the process never took; `main.h:97` says
   the semaphore is "La cantidad maxima de procesos que puede entrar a Ready
   (Multiprogramacion)". One more process than the degree is admitted from then on.
2. `FINALIZAR_PROCESO` of a process in READY leaves `sQueueReadysAvaiable`
   counting it; `main.h:98` says "Cantidad de procesos que hay dentro de Ready".
   The planner later pops an empty queue.
3. The planner passes `sCanPlan` **before** it waits for the CPU and a process
   (`main.c:422-433`); `main.h:105` says "Semaforo que indica si puedo ejecutar
   el planificador". A process is dispatched after DETENER_PLANIFICACION.
4. `liberarRecursos` ("Incrementar la instancia del recurso", `main.c:1583-1584`) is
   run by the console or by the thread of an interface with no lock, beside the
   `instancia--` of a WAIT (`main.c:914`). One reads the count before the other writes
   it and writes after: the increment is lost, and the resource has one instance less
   from then on. In the trace the holder is gone, one process asks
   for the resource, and the count ends at -1 instead of 0: it is told to block.
5. Nothing takes a row out of the TLB: after a RESIZE that frees a page and one
   that gives it back, `hitOrMiss` answers the old frame, while `MMU.c:11-12`
   says "buscar en TLB el marco/frame", "sino buscar en memoria el marco/frame"
   as two ways to the same frame. The same row is found by a new process that is
   given the pid.
6. `nextBlocksAvaiable` has no bound (`utils_io.c:606-613`): a file at the end of
   the disk is given blocks past `BLOCK_COUNT` ("Todos los bloques están
   disponibles").

## 4. Proofs

TLAPS checks, for any number of processes, resources, interfaces and places,
any programs and the three algorithms, and any commands where nothing else is
said:

* **`TiposCorrectos`** (`SistemaProofs`): `Spec => []TypeOK`. `TypeOK` is
  inductive as it stands. It says more than types: no semaphore goes below
  zero, no queue or message names a pid that does not exist, the CPU has a
  process whenever it may execute, and each thread's program counter goes with
  its locals. The proof has a lemma per thread and variable group (queues, pids,
  semaphores, resources, IO, planners, commands, answers, sockets), so that each
  step is checked against the part of the invariant it changes; the CPU's steps
  need `CpuOcupada => pcbExecute \in Pids`, because they index `contexto` with
  it.
* **`ExclusionDeLaCpu`** (`SistemaProofs`): `Spec => []CpuExclusiva`. The
  invariant that is carried is `TypeOK /\ CpuExclusiva`: the token argument
  needs that the counts are naturals, so that a sum of seven terms equal to 1
  has exactly one term that is 1. Each step is then one of three: the token
  moves from one term to another (`EsperarCpu`, `Despachar`, `RecibirPcb`,
  `DevolverPcb`, `PcbDevuelto`, `CpuLibre`), the dialogue goes on while the
  token rests in the CPU (`PedirRecurso`, `AtenderPedido`, `RecibirRespuesta`), or
  nothing of either changes. It is what makes sharing `pcbExecute` between two
  threads of the CPU harmless.

* **`CurrentDelQueCorre`** (`SistemaProofs`): `Spec => []CurrentEsElQueCorre`,
  from `CpuExclusiva`. A step puts the process in the CPU (`Despachar`: the token
  was elsewhere, so both sockets are empty and the CPU is free), takes it back
  (`PcbDevuelto`) or moves it between the sockets and the CPU. No command breaks
  it, so what the console reads without a lock is either the process that runs or
  NULL; it may be old when the console uses it, which is another hazard.
* **`ColasContadas`**, **`ColasNoVacias`**: `Spec => []SemaforosDeColas`, and the
  planners never pop an empty queue, **when `Comandos` has neither
  `FINALIZAR_NEW` nor `FINALIZAR_READY`**. Without the assumption the first is
  false: `ready_descontado`. Every `add_queue` goes with its post, and a planner
  that has waited holds the unit of the element it will pop; `LiberarRecursos`,
  that four threads run, adds to READY one process for each post (`ColasTrasDesblock`).
* **`GradoConservado`**: `Spec => []GradoRespetado`, **when `Comandos` has no
  `FINALIZAR_NEW`**; with it the sum is false: `grado_excedido`. The invariant
  carried, `GradoIInv`, counts the place of the process in the CPU by the token
  (`CpuTomada`) instead of by sockets and threads, so that the dialogue between
  kernel and CPU does not change it; `UnProcesoConFicha` shows that the two counts
  are the same. `ConsolaEnOrden` is the rest of it: MULTIPROGRAMACION waits for
  one place at a time, and the console does not lower the degree while it releases
  the resources of a process.
* **`CadaPidUbicado`** (`ProcesosProofs`): `Spec => []CadaPidEnUnLugar`, with no
  assumption on the commands. The property counts: the places of a pid add up to
  one. The invariant that is carried, `UbicacionInv`, has sets: the eight places
  that the kernel's variables name (`EnSitio`) are a partition of the pids given
  out, no queue has a pid twice, and `listPcbToMemory` has those that are not free.
  A step of a thread then moves one process from a place to another
  (`UbicacionTraslada`) or nobody. The place of the CPU is read off
  `currentyRunningPcb`; that it stands for both sockets and the CPU's variables is
  `CurrentEsElQueCorre` and `CpuExclusiva`, so neither the dialogue nor the CPU's
  steps move anybody.
* **`EsperasContadas`**: `Spec => []EsperasExactas`, **when no process is finished
  by the operator (`MaxFinalizar = 0`) and a process that uses an interface takes no
  resource (`IoSinRecursos`)**. `MotivosInv` is needed first: a process is in
  `listBlockeds` for what its context says, and the context of a blocked process
  does not change; the threads of the interfaces have processes of IO only, what is
  asked for comes from a process that asks for resources (`PedidosDePrograma`), and
  `liberarRecursos` has nothing to release (`NadaQueLiberar`). Then nobody else writes
  a count, and what `checkResponseOfCpu` read of it is what it is when it writes
  (`LecturaAlDia`). `EsperasInv` is an equation for each resource: the blocked
  processes and the one on its way to be (`EnCamino`) are what the count owes and the
  one being woken or forgotten. WAIT and SIGNAL move both sides, each half by itself
  (`EsperasTrasWait`, `EsperasTrasSignal`, `EsperasTrasProbar`, `EsperasTrasBuscar`),
  `blockPcb` moves a process from one term to the other, and of the rest a step leaves
  every term (`FaseDeLaCpu`, `FaseDelKernel`, `EsperandoIgual`).
* **`PedidosConRespuesta`**: `Spec => []PedidoEnCurso`, under the same two hypotheses
  and for any number of processes on a resource. A request without an answer comes
  from `ProbarSignal` alone, and the count is negative from then on, because the CPU
  is the only one that asks (`SoloNegativos`); `EsperasInv` turns the count into two
  blocked processes.

  TLC shows what the hypotheses are for. A process that holds a resource and uses an
  interface releases it when the interface fails, and so does FINALIZAR_PROCESO:
  `liberarRecursos` wakes a process that the count does not owe, and writes the count
  beside `checkResponseOfCpu` (`instancia_perdida`). With either, `EsperasExactas`
  fails.

* **`LosMarcosSonExclusivos`**, **`LosIdsSonSeguidos`**,
  **`ElTamanioEsElPedido`** (`PaginacionProofs`): `PaginacionSpec =>
  []MarcosExclusivos`, `[]IdsSeguidos`, `[]TamanioPedido`, for any number of
  processes and frames, any size of a page and any sequence of RESIZE. The
  inductive invariant `IInv` is the conjunction of the three with the types and
  `idGlobal = 0`: the first id of a table is `idGlobal`, and only because
  `playingGod` puts it back are the ids of the next table right. A step is one of
  three: pages with frames that were free are appended (`AddingPages`), the last
  pages leave and their bits are cleared (`RemovingPages`), or tables and bitmap
  stay. `MarcosExclusivos` needs that `saveInPage` takes free frames, each once
  (`SavedFramesAreFree`); `TamanioPedido` needs that there are as many as pages
  were asked for (`SavedFramesAreEnough`, a bijection argument: when fewer are
  taken, all the free ones are) and the arithmetic of `ceil`
  (`CeilPagesBounds`, `CeilPagesRange`).

* **`LaMmuEstaEnTipo`**, **`LaTlbEsFiel`**, **`LruSacaElMenosUsado`**
  (`MmuProofs`): `MmuSpec => []MmuTypeOK`, `[]TlbFiel`, `VictimaLru`, for any
  number of processes, pages, frames and rows. `TlbFiel` needs that a RESIZE that
  frees nothing leaves every frame where it was (`ResizeKeepsFrames`, over `IInv`
  of `PaginacionProofs`) and that replacing takes rows and alters none
  (`InsertedRows`). `VictimaLru` is an action property: its invariant, `UsosInv`,
  relates the times of the rows to the last use of their pages, and has to face a
  page with several rows, that a frame -1 leaves behind: under LRU, if the row of
  the last use leaves, the others are of that time too. `findMinimum` is proved to
  find the least while the times fit in an int (`MinimumFound`).

* **`CadaRespuestaEsDeSuPregunta`** (`EjecucionProofs`): `EjecucionSpec =>
  []DialogoConLaMemoria`, for any programs, interfaces and texts. The invariant
  carried is `DialogoInv`, with the shape of the sockets (`Forma`, that says
  nothing of what the messages contain). A step changes one connection (`LasOtras`)
  and is of one of two kinds: of the client, that takes the answer it waited for or
  waited for none (`DejaDeEsperar`) and then sends what needs no answer, at most
  one question, and stops (`Manda`); or of the memory, that takes the first request
  and answers, keeps silent or leaves the client without an answer (`Atiende`).
  The types of the answers need that a client asks for what it will read.
* **`SeCargaElQueCorre`**: `EjecucionSpec => []CargadoElQueCorre`. The
  strengthening `Carga` has the two moments before: while the program is still to
  be sent the process in the CPU is the one it is of, and afterwards the last
  message of the kernel's connection names it. Only CargarPrograma and
  FinDelArreglo change the array (`ProgramaCargado`).
* **`LosMarcosSiguenSiendoExclusivos`**: `EjecucionSpec => []MarcosExclusivos`.
  `PaginacionProofs` proves it of a memory that is given a pid that exists and a
  size at every call; here both come in a message, from a process that executes an
  instruction. `MarcosInv` adds that every RESIZE on its way is of a pid and of a
  natural (`Mensajes`) and that whatever goes round names processes (`Procesos`).
  It needs the dialogue: what the CPU takes for an instruction is one because only
  a fetch is answered with one.
* **`TiposDeLaEjecucion`**, **`LasEscriturasSeAsientan`**,
  **`LasDireccionesSiguenVigentes`**, **`LosAccesosSonFieles`** (`AccesosProofs`):
  `EjecucionSpec => []EjecucionTypeOK`, `[]EscriturasAsentadas`,
  `[]DireccionesVigentes`, `[]AccesosFieles`, for any programs, frames and
  interfaces, and any size of a page. The invariant, `AccesosInv`, adds to
  `MarcosInv` where each process is (`Lugares`: in the queue, in the CPU or on its
  way back, or blocked with a request that somebody has, of the pages it named), how
  far the instruction in the CPU has come (`EnCurso`: which parts of the access have
  an address and which have been read) and what each message is for (`Preguntas`).
  That a pid is in one place is why an address stays good: a process that resizes is
  in the CPU, so no request of IO of its pages travels, and only an answer
  to a question of its own may follow its RESIZE (`SinDeudas`: the CPU lets a
  process go with the socket attended, except at the end of a quantum). That
  frames have one place (`MarcosExclusivos`) is why the next page is found from a
  frame. The exception, `derrame`, stays in the properties as it is in the runs: what
  was read of a file may arrive when its pages are gone.

* **`ElMapaCubre`**, **`LaCompactacionNoDejaHuecos`**, **`DialFSImplementaDisco`**,
  **`ElMapaEsExacto`**, **`LosArchivosEstanEnTipo`** (`DialFSProofs`): `DialFSSpec =>
  []MapaCubre`, `[]CompactaSinHuecos`, `ImplementaDisco`, `[]MapaExacto`,
  `[]DialFSTypeOK`, for any files, disk, size of block and sizes. None of the
  invariants is inductive: in the middle of a request the bitmap has more or less
  than the metadata say. `DiscoInv` gives each file three sets: its extent, the
  blocks that nobody else may have (`Reserva`: also those it is growing into or being
  moved to) and those whose bits have to be 1 (`Cubre`: none of a file between
  `soltar` and `ocupar`); no two reserves meet and the bitmap has all of `Cubre`.
  A step is about one file, and `PasoSeguro` says what it has to do with it. The
  compaction needs `Apilados`: the files it has reached fill the disk exactly up to
  `newPosition` and the others begin after it, which the order of `list_sort` gives,
  and only because a file has a block at least; and `Movido`, that `realocate`, given
  blocks for bytes, never takes more blocks than the file had (`BlocksCota`).
  `ElMapaEsExacto` has an invariant of its own, `Reparto`, that holds until the first
  relocation. The refinement is then short: a write to the metadata changes one
  extent, and the reserves of after the step do not meet.

Assumptions on the constants (evaluated by TLC in every run):
`ConstantesDePaginacion` (a frame and a byte per page at least),
`ConstantesDeLaMmu` (a row at least, one of the two algorithms),
`BaseAssumption`, `ConstantesDelEspacio` (what is in a buffer is bytes),
`ConstantesDeEjecucion` (who the clients are, a type for each interface,
finitely many processes), `ProgramasBienEscritos` (an instruction has two
registers and a natural, as `getNextWord` leaves them),
`ConstantesDeDialFS` (a block and a byte per block at least, a metadata file is no
`NULL`), `ConstantesDeCanales`, `ConstantesDelKernel`, `ProgramasAssumption`: at least
one pid, quantum and degree positive, `NULL` no other value, resources among the
names, `Interfaces` finite.

Only model-checked: of the safety properties the refinement `ImplementaMaquina`,
whose steps rest on what `AccesosInv` says; and the liveness: `TodoTermina`,
`BajarTermina`, `TodosTerminan`, `SiempreResponde`.
Three things are out of the prover's reach and stay
with TLC: liveness under fairness and `ENABLED`; induction over data (what a
fold or `SelectSeq` computes for every input); recursive operators.

## 5. Not modelled, and what could follow

Not modelled:

* the byte layout of messages, logs, configuration files, the parsing of
  pseudocode: their wording is in no property;
* a socket that breaks: the kernel and the CPU exit, and no code recovers;
* an interface that connects or disconnects while the kernel runs
  (`checkIfIos`, case -1 of `operate`): the array never shrinks and a freed
  entry is still read, so that what follows is undefined from the first
  disconnection on;
* the content of the files of DialFS (`fsWrite`, `fsRead`): `DialFS` has which
  blocks a file has, `Ejecucion` has that a read returns any text. The file
  pointer (`operations.c:587`) is the address of a register when the register has
  32 bits, and any of its values goes to the same place of the model;
* a DialFS interface that stops between two writes and starts again: the order of
  the writes is modelled, and nothing in the repository says what the disk should
  keep.

What could follow: `ImplementaMaquina` from `AccesosInv`, a step of `Maquina` for each
instruction that ends and a stutter for the rest; `MapaExacto` of `DialFS` with the
relocation that leaks named, instead of until the first one.
