----------------------------- MODULE SistemaProofs -----------------------------
(***************************************************************************)
(* What the threads of Sistema keep, for any number of processes,          *)
(* resources, interfaces and places, any programs and every algorithm:     *)
(* the types, that one process is in the CPU, that currentyRunningPcb      *)
(* names it, and what the semaphores of the queues say.                    *)
(*                                                                         *)
(* TypeOK is inductive; a lemma for each thread says that its steps        *)
(* preserve it, and inside it a step for each action and each group of     *)
(* variables that the action writes.                                       *)
(*                                                                         *)
(* What the semaphores say assumes that the operator uses no command that  *)
(* breaks it: finishProcess deletes a process of NEW or of READY, takes no *)
(* unit of the semaphore that counts the queue, and gives back for one of  *)
(* NEW a place it did not have (the runs ready_descontado and              *)
(* grado_excedido show it).                                                *)
(***************************************************************************)
EXTENDS Sistema, SequenceTheorems, FiniteSetTheorems, Minimos, TLAPS

\* list_remove_element leaves a list of the same elements.
LEMMA RemoveFirstTipo ==
    ASSUME NEW S, NEW s \in Seq(S), NEW e
    PROVE  RemoveFirst(s, e) \in Seq(S)
<1>1. CASE \E i \in 1 .. Len(s) : s[i] = e
  <2> DEFINE I == {i \in 1 .. Len(s) : s[i] = e}
  <2> DEFINE k == Min(I)
  <2>1. I \in SUBSET Nat /\ I # {}
    BY <1>1
  <2>2. k \in 1 .. Len(s)
    BY <2>1, MinDeNaturales
  <2>3. RemoveFirst(s, e) = SubSeq(s, 1, k - 1) \o SubSeq(s, k + 1, Len(s))
    BY <1>1, <2>1 DEF RemoveFirst, RemoveAt, SelectInSeq
  <2> HIDE DEF k
  <2>4. SubSeq(s, 1, k - 1) \in Seq(S)
    BY <2>2, SubSeqProperties
  <2>5. SubSeq(s, k + 1, Len(s)) \in Seq(S)
    BY <2>2, SubSeqProperties
  <2>6. QED BY <2>3, <2>4, <2>5
<1>2. CASE ~\E i \in 1 .. Len(s) : s[i] = e
  BY <1>2 DEF RemoveFirst
<1>3. QED BY <1>1, <1>2

-------------------------------------------------------------------------------

\* The type invariant has a part for each group of variables: an action keeps
\* the parts whose group it leaves alone.
LEMMA TiposSinCambio ==
    /\ ColasTypeOK /\ UNCHANGED colas => ColasTypeOK'
    /\ PidsTypeOK /\ UNCHANGED pids => PidsTypeOK'
    /\ SemaforosTypeOK /\ UNCHANGED semaforos => SemaforosTypeOK'
    /\ RecursosTypeOK /\ UNCHANGED recursosVars => RecursosTypeOK'
    /\ IoTypeOK /\ UNCHANGED ioVars => IoTypeOK'
    /\ PlanTypeOK /\ UNCHANGED planVars => PlanTypeOK'
    /\ MandosTypeOK /\ UNCHANGED mandos => MandosTypeOK'
    /\ RespuestaTypeOK /\ UNCHANGED respuesta => RespuestaTypeOK'
    /\ CanalesTypeOK /\ UNCHANGED canales => CanalesTypeOK'
    /\ CpuTypeOK /\ UNCHANGED cpuVars => CpuTypeOK'
<1>1. ColasTypeOK /\ UNCHANGED colas => ColasTypeOK'
  BY DEF colas, ColasTypeOK
<1>2. PidsTypeOK /\ UNCHANGED pids => PidsTypeOK'
  BY DEF pids, PidsTypeOK
<1>3. SemaforosTypeOK /\ UNCHANGED semaforos => SemaforosTypeOK'
  BY DEF semaforos, SemaforosTypeOK
<1>4. RecursosTypeOK /\ UNCHANGED recursosVars => RecursosTypeOK'
  BY DEF recursosVars, RecursosTypeOK
<1>5. IoTypeOK /\ UNCHANGED ioVars => IoTypeOK'
  BY DEF ioVars, IoTypeOK
<1>6. PlanTypeOK /\ UNCHANGED planVars => PlanTypeOK'
  BY DEF planVars, PlanTypeOK
<1>7. MandosTypeOK /\ UNCHANGED mandos => MandosTypeOK'
  BY DEF mandos, MandosTypeOK, ConsolaTypeOK
<1>8. RespuestaTypeOK /\ UNCHANGED respuesta => RespuestaTypeOK'
  BY DEF RespuestaTypeOK
<1>9. CanalesTypeOK /\ UNCHANGED canales => CanalesTypeOK'
  BY DEF canales, CanalesTypeOK
<1>10. CpuTypeOK /\ UNCHANGED cpuVars => CpuTypeOK'
  BY DEF cpuVars, CpuTypeOK, CpuOcupada
<1>11. QED
  BY <1>1, <1>2, <1>3, <1>4, <1>5, <1>6, <1>7, <1>8, <1>9, <1>10, Zenon

\* queue_push, list_add and a send: a sequence of the same elements.
LEMMA AppendTipo ==
    ASSUME NEW S, NEW s \in Seq(S), NEW e \in S
    PROVE  Append(s, e) \in Seq(S)
OBVIOUS

\* The process that list_find picks in listBlockeds is a process.
LEMMA PrimeroTipo ==
    ASSUME ColasTypeOK, NEW r, Esperan(r) # {}
    PROVE  PrimeroQueEspera(r) \in Pids
<1>1. Esperan(r) \in SUBSET Nat /\ Esperan(r) \subseteq DOMAIN listBlockeds
  BY DEF Esperan, ColasTypeOK
<1>2. Min(Esperan(r)) \in DOMAIN listBlockeds
  BY <1>1, MinDeNaturales
<1>3. QED BY <1>2 DEF PrimeroQueEspera, ColasTypeOK

\* desblockPcb keeps the types of the queues, whichever queue it pushes into.
LEMMA DesblockTipo ==
    ASSUME ColasTypeOK, SemaforosTypeOK, NEW p \in Pids, DesblockPcb(p), UNCHANGED queueNews
    PROVE  ColasTypeOK' /\ sQueueReadysAvaiable' \in Nat
<1>1. listBlockeds' \in Seq(Pids)
  BY RemoveFirstTipo DEF DesblockPcb, ColasTypeOK
<1>2. queueReadys' \in Seq(Pids) /\ queueAux' \in Seq(Pids)
  <2>1. CASE chosenPlanner = "VRR" /\ contexto[p].quantum < Quantum
    BY <2>1, Zenon, AppendTipo DEF DesblockPcb, ColasTypeOK
  <2>2. CASE ~(chosenPlanner = "VRR" /\ contexto[p].quantum < Quantum)
    BY <2>2, Zenon, AppendTipo DEF DesblockPcb, ColasTypeOK
  <2>3. QED BY <2>1, <2>2
<1>3. QED BY <1>1, <1>2 DEF DesblockPcb, ColasTypeOK, SemaforosTypeOK

\* The steps of runnerProcessNewToReady keep the types.
LEMMA TipoNewToReady ==
    ASSUME TypeOK, PasoDeKernel(NewToReady)
    PROVE  TypeOK'
<1> USE DEF TypeOK, KernelTypeOK, PasoDeKernel, PasoDeCpu
<1>1. CASE EsperarNews
  <2>1. SemaforosTypeOK'
    BY <1>1 DEF EsperarNews, SemaforosTypeOK
  <2>2. PlanTypeOK'
    BY <1>1 DEF EsperarNews, PlanTypeOK
  <2>3. QED BY <1>1, <2>1, <2>2, TiposSinCambio DEF EsperarNews
<1>2. CASE EsperarLugar
  <2>1. SemaforosTypeOK'
    BY <1>2 DEF EsperarLugar, SemaforosTypeOK
  <2>2. PlanTypeOK'
    BY <1>2 DEF EsperarLugar, PlanTypeOK
  <2>3. QED BY <1>2, <2>1, <2>2, TiposSinCambio DEF EsperarLugar
<1>3. CASE PasarPlanNews
  <2>1. PlanTypeOK'
    BY <1>3 DEF PasarPlanNews, PlanTypeOK
  <2>2. QED BY <1>3, <2>1, TiposSinCambio DEF PasarPlanNews
<1>4. CASE MoverAReady
  <2>1. ColasTypeOK'
    BY <1>4 DEF MoverAReady, ColasTypeOK
  <2>2. SemaforosTypeOK'
    BY <1>4 DEF MoverAReady, SemaforosTypeOK
  <2>3. PlanTypeOK'
    BY <1>4 DEF MoverAReady, PlanTypeOK
  <2>4. QED BY <1>4, <2>1, <2>2, <2>3, TiposSinCambio DEF MoverAReady
<1>5. QED BY <1>1, <1>2, <1>3, <1>4 DEF NewToReady

\* executePcb, of a process: the count of ticks and the socket keep their types.
LEMMA ExecuteTipo ==
    ASSUME PlanTypeOK, CanalesTypeOK, NEW p \in Pids, ExecutePcb(p)
    PROVE  PlanTypeOK' /\ CanalesTypeOK'
<1> USE DEF ExecutePcb
<1>1. contexto[p].quantum \in 0 .. Quantum
  BY DEF CanalesTypeOK, Contextos
<1>2. quantum' \in 0 .. Quantum
  BY <1>1, ConstantesDeCanales
<1>3. PlanTypeOK'
  BY <1>2 DEF PlanTypeOK
<1>4. Mensaje("PCB", p, NULL) \in MensajesDelKernel
  BY DEF Mensaje, MensajesDelKernel, Pcbs
<1>5. socketCpuDispatch' \in Seq(MensajesDelKernel)
  BY <1>4, AppendTipo DEF CanalesTypeOK
<1>6. CanalesTypeOK'
  BY <1>5 DEF CanalesTypeOK
<1>7. QED BY <1>3, <1>6

\* The steps of runnerProcessToExecute keep the types.  sRunningProcess and
\* sQueueReadysAvaiable are only taken when they are positive.
LEMMA TipoToExecute ==
    ASSUME TypeOK, PasoDeKernel(ToExecute)
    PROVE  TypeOK'
<1> USE DEF TypeOK, KernelTypeOK, PasoDeKernel, PasoDeCpu
<1>1. CASE PasarPlanExec
  <2>1. PlanTypeOK'
    BY <1>1 DEF PasarPlanExec, PlanTypeOK
  <2>2. QED BY <1>1, <2>1, TiposSinCambio DEF PasarPlanExec
<1>2. CASE EsperarCpu
  <2>1. SemaforosTypeOK'
    BY <1>2 DEF EsperarCpu, SemaforosTypeOK
  <2>2. PlanTypeOK'
    BY <1>2 DEF EsperarCpu, PlanTypeOK
  <2>3. QED BY <1>2, <2>1, <2>2, TiposSinCambio DEF EsperarCpu
<1>3. CASE Despachar
  <2>1. ColasTypeOK'
    BY <1>3 DEF Despachar, PuedeDespachar, ExecutePcb, ColasTypeOK
  <2>2. SemaforosTypeOK'
    BY <1>3 DEF Despachar, PuedeDespachar, ExecutePcb, SemaforosTypeOK
  <2>3. Head(queueReadys) \in Pids
    BY <1>3 DEF Despachar, PuedeDespachar, ColasTypeOK
  <2>4. PlanTypeOK' /\ CanalesTypeOK'
    <3>1. PICK p \in Pids : p = Head(queueReadys)
      BY <2>3
    <3>2. ExecutePcb(p)
      BY <1>3, <3>1 DEF Despachar, ExecutePcb
    <3>3. QED BY <3>2, ExecuteTipo
  <2>5. QED BY <1>3, <2>1, <2>2, <2>3, <2>4, TiposSinCambio DEF Despachar, PuedeDespachar,
       ExecutePcb
<1>4. CASE DespacharConPrioridad
  <2>1. ColasTypeOK'
    BY <1>4 DEF DespacharConPrioridad, PuedeDespachar, ConPrioridad, ExecutePcb, ColasTypeOK
  <2>2. SemaforosTypeOK'
    BY <1>4 DEF DespacharConPrioridad, PuedeDespachar, ConPrioridad, ExecutePcb, SemaforosTypeOK
  <2>3. Head(queueAux) \in Pids
    BY <1>4 DEF DespacharConPrioridad, PuedeDespachar, ConPrioridad, ColasTypeOK
  <2>4. PlanTypeOK' /\ CanalesTypeOK'
    <3>1. PICK p \in Pids : p = Head(queueAux)
      BY <2>3
    <3>2. ExecutePcb(p)
      BY <1>4, <3>1 DEF DespacharConPrioridad, ExecutePcb
    <3>3. QED BY <3>2, ExecuteTipo
  <2>5. QED BY <1>4, <2>1, <2>2, <2>3, <2>4, TiposSinCambio DEF DespacharConPrioridad,
       PuedeDespachar, ConPrioridad, ExecutePcb
<1>5. CASE ContarQuantum
  <2>1. PlanTypeOK'
    BY <1>5, ConstantesDeCanales DEF ContarQuantum, PlanTypeOK
  <2>2. QED BY <1>5, <2>1, TiposSinCambio DEF ContarQuantum
<1>6. CASE InterrumpirPorQuantum
  <2>1. PlanTypeOK'
    BY <1>6 DEF InterrumpirPorQuantum, PlanTypeOK
  <2>2. CanalesTypeOK'
    BY <1>6 DEF InterrumpirPorQuantum, CanalesTypeOK
  <2>3. QED BY <1>6, <2>1, <2>2, TiposSinCambio DEF InterrumpirPorQuantum
<1>7. QED BY <1>1, <1>2, <1>3, <1>4, <1>5, <1>6 DEF ToExecute

\* What checkResponseOfCpu reads names a process.
LEMMA LeerTipo ==
    ASSUME CanalesTypeOK, NEW op, LeerRespuesta(op)
    PROVE  /\ respuestasCpu' \in Seq(MensajesDeLaCpu)
           /\ Head(respuestasCpu).pid \in Pids
<1>1. Head(respuestasCpu) \in MensajesDeLaCpu /\ respuestasCpu' \in Seq(MensajesDeLaCpu)
  BY DEF LeerRespuesta, CanalesTypeOK
<1>2. QED BY <1>1 DEF MensajesDeLaCpu, Pcbs

\* What checkResponseOfCpu answers is a message of the socket.
LEMMA ResponderTipo ==
    ASSUME CanalesTypeOK, NEW op \in Respuestas, Responder(op)
    PROVE  socketCpuDispatch' \in Seq(MensajesDelKernel)
<1>1. Mensaje(op, NULL, NULL) \in MensajesDelKernel
  BY DEF Mensaje, MensajesDelKernel
<1>2. QED BY <1>1, AppendTipo DEF Responder, CanalesTypeOK

\* A request in checkResponseOfCpu's hands is about a resource that exists, for a
\* process, and what was read of its count is an integer.
LEMMA PedidoTipo ==
    ASSUME RespuestaTypeOK
    PROVE  /\ respuesta.pc \in {"restar", "sumar"}
                => respuesta.pid \in Pids /\ respuesta.res \in Recursos
                     /\ respuesta.leida \in Int
           /\ respuesta.pc \in DialogoPcs => respuesta.res \in Recursos
           /\ respuesta.pc = "pcb" => respuesta.pid \in Pids
           /\ EnRecv \in [pc : {"recv"}, pid : {NULL}, res : {NULL}, leida : {0}]
           /\ \A pc \in DialogoPcs, r \in Recursos :
                EnDialogo(pc, r)
                  \in [pc : DialogoPcs, pid : {NULL}, res : Recursos, leida : {0}]
BY DEF RespuestaTypeOK, DialogoPcs, EnRecv, EnDialogo

\* The fields of checkResponseOfCpu's locals, at the socket and in a dialogue.
LEMMA CamposDeRespuesta ==
    /\ EnRecv.pc = "recv" /\ EnRecv.pid = NULL /\ EnRecv.res = NULL
    /\ \A pc, r : /\ EnDialogo(pc, r).pc = pc /\ EnDialogo(pc, r).pid = NULL
                  /\ EnDialogo(pc, r).res = r
BY DEF EnRecv, EnDialogo

\* WAIT and SIGNAL, one step after another, keep the types.
LEMMA TipoAtenderPedido ==
    ASSUME TypeOK, PasoDeKernel(AtenderPedido)
    PROVE  TypeOK'
<1> USE DEF TypeOK, KernelTypeOK, PasoDeKernel, PasoDeCpu
<1>1. ASSUME NEW op \in {"WAIT", "SIGNAL"}, RecursoDesconocido(op)
  PROVE TypeOK'
  <2>1. CanalesTypeOK'
    BY <1>1 DEF RecursoDesconocido, LeerRespuesta, Responder, CanalesTypeOK, Mensaje,
       MensajesDelKernel, Respuestas
  <2>2. QED BY <1>1, <2>1, TiposSinCambio DEF RecursoDesconocido, LeerRespuesta, Responder
<1>2. ASSUME NEW op \in {"WAIT", "SIGNAL"}, RecibirPedido(op)
  PROVE TypeOK'
  <2> DEFINE m == Head(respuestasCpu)
  <2>1. m.pid \in Pids /\ m.res \in Recursos /\ recursos[m.res] \in Int
    BY <1>2, LeerTipo DEF RecibirPedido, RecursosTypeOK
  <2>2. RespuestaTypeOK'
    BY <1>2, <2>1 DEF RecibirPedido, RespuestaTypeOK
  <2>3. CanalesTypeOK'
    BY <1>2, LeerTipo DEF RecibirPedido, CanalesTypeOK
  <2>4. QED BY <1>2, <2>2, <2>3, TiposSinCambio DEF RecibirPedido
<1>3. CASE AnotarWait \/ QuitarSignal
  <2>1. respuesta.pid \in Pids /\ respuesta.res \in Recursos /\ respuesta.leida \in Int
    BY <1>3, PedidoTipo DEF AnotarWait, QuitarSignal
  <2>2. recursos' \in [Recursos -> Int]
    BY <1>3, <2>1 DEF AnotarWait, QuitarSignal, RecursosTypeOK
  <2>3. recursosDePid' \in [Pids -> [Recursos -> Nat]]
    <3> DEFINE p == respuesta.pid
               r == respuesta.res
    <3>1. PICK n : recursosDePid' = [recursosDePid EXCEPT ![p][r] = n]
                   /\ \/ n = recursosDePid[p][r] \/ n = recursosDePid[p][r] + 1
                      \/ n = 0
                      \/ n = recursosDePid[p][r] - 1 /\ recursosDePid[p][r] > 0
      BY <1>3 DEF AnotarWait, QuitarSignal
    <3>2. p \in Pids /\ r \in Recursos
      BY <2>1
    <3> HIDE DEF p, r
    <3>3. n \in Nat
      BY <3>1, <3>2 DEF RecursosTypeOK
    <3>4. QED BY <3>1, <3>2, <3>3 DEF RecursosTypeOK
  <2>4. RecursosTypeOK'
    BY <1>3, <2>2, <2>3 DEF AnotarWait, QuitarSignal, RecursosTypeOK
  <2>5. RespuestaTypeOK'
    BY <1>3, <2>1, PedidoTipo DEF AnotarWait, QuitarSignal, RespuestaTypeOK, DialogoPcs
  <2>6. QED BY <1>3, <2>4, <2>5, TiposSinCambio DEF AnotarWait, QuitarSignal
<1>4. CASE ResponderWait
  <2>1. CanalesTypeOK'
    BY <1>4, ResponderTipo DEF ResponderWait, CanalesTypeOK, Respuestas
  <2>2. RespuestaTypeOK'
    BY <1>4, PedidoTipo DEF ResponderWait, RespuestaTypeOK
  <2>3. QED BY <1>4, <2>1, <2>2, TiposSinCambio DEF ResponderWait
<1>5. CASE ProbarSignal
  <2>1. RespuestaTypeOK'
    BY <1>5, PedidoTipo DEF ProbarSignal, RespuestaTypeOK, DialogoPcs
  <2>2. QED BY <1>5, <2>1, TiposSinCambio DEF ProbarSignal
<1>6. CASE BuscarEnEspera
  <2>1. "CONTINUE" \in Respuestas
    BY DEF Respuestas
  <2>2. socketCpuDispatch' \in Seq(MensajesDelKernel)
    BY <1>6, <2>1, ResponderTipo DEF BuscarEnEspera, CanalesTypeOK
  <2>3. CanalesTypeOK'
    BY <1>6, <2>2 DEF BuscarEnEspera, CanalesTypeOK
  <2>4. RespuestaTypeOK'
    BY <1>6, PedidoTipo DEF BuscarEnEspera, RespuestaTypeOK, DialogoPcs
  <2>5. QED BY <1>6, <2>3, <2>4, TiposSinCambio DEF BuscarEnEspera
<1>7. QED BY <1>1, <1>2, <1>3, <1>4, <1>5, <1>6 DEF AtenderPedido

\* The steps of checkResponseOfCpu keep the types.
LEMMA TipoCheckResponseOfCpu ==
    ASSUME TypeOK, PasoDeKernel(CheckResponseOfCpu)
    PROVE  TypeOK'
<1> USE DEF TypeOK, KernelTypeOK, PasoDeKernel, PasoDeCpu
<1>1. CASE PcbDevuelto
  <2>1. RespuestaTypeOK'
    BY <1>1, LeerTipo DEF PcbDevuelto, EnRecv, RespuestaTypeOK
  <2>2. CanalesTypeOK'
    BY <1>1 DEF PcbDevuelto, LeerRespuesta, EnRecv, CanalesTypeOK, MensajesDeLaCpu,
       MensajesDelKernel
  <2>3. QED BY <1>1, <2>1, <2>2, TiposSinCambio DEF PcbDevuelto, LeerRespuesta, EnRecv
<1>2. CASE PcbTermina
  <2>1. ColasTypeOK'
    BY <1>2, PedidoTipo DEF PcbTermina, DeletePcb, CpuLibre, EnRecv, ColasTypeOK
  <2>2. PidsTypeOK'
    BY <1>2, PedidoTipo DEF PcbTermina, DeletePcb, CpuLibre, EnRecv, PidsTypeOK
  <2>3. SemaforosTypeOK'
    BY <1>2 DEF PcbTermina, DeletePcb, CpuLibre, EnRecv, SemaforosTypeOK
  <2>4. IoTypeOK'
    BY <1>2, PedidoTipo DEF PcbTermina, DeletePcb, CpuLibre, EnRecv, IoTypeOK
  <2>5. RespuestaTypeOK'
    BY <1>2 DEF PcbTermina, DeletePcb, CpuLibre, EnRecv, RespuestaTypeOK
  <2>6. QED BY <1>2, <2>1, <2>2, <2>3, <2>4, <2>5, TiposSinCambio DEF PcbTermina, DeletePcb,
       CpuLibre, EnRecv
<1>3. CASE PcbDesalojado
  <2>1. ColasTypeOK'
    BY <1>3, PedidoTipo DEF PcbDesalojado, CpuLibre, EnRecv, ColasTypeOK
  <2>2. PidsTypeOK'
    BY <1>3, PedidoTipo DEF PcbDesalojado, CpuLibre, EnRecv, PidsTypeOK
  <2>3. SemaforosTypeOK'
    BY <1>3 DEF PcbDesalojado, CpuLibre, EnRecv, SemaforosTypeOK
  <2>4. IoTypeOK'
    BY <1>3, PedidoTipo DEF PcbDesalojado, CpuLibre, EnRecv, IoTypeOK
  <2>5. RespuestaTypeOK'
    BY <1>3 DEF PcbDesalojado, CpuLibre, EnRecv, RespuestaTypeOK
  <2>6. QED BY <1>3, <2>1, <2>2, <2>3, <2>4, <2>5, TiposSinCambio DEF PcbDesalojado, CpuLibre,
       EnRecv
<1>4. CASE PcbBloqueado
  <2>1. ColasTypeOK'
    BY <1>4, PedidoTipo DEF PcbBloqueado, CpuLibre, EnRecv, ColasTypeOK
  <2>2. PidsTypeOK'
    BY <1>4, PedidoTipo DEF PcbBloqueado, CpuLibre, EnRecv, PidsTypeOK
  <2>3. SemaforosTypeOK'
    BY <1>4 DEF PcbBloqueado, CpuLibre, EnRecv, SemaforosTypeOK
  <2>4. IoTypeOK'
    BY <1>4, PedidoTipo DEF PcbBloqueado, CpuLibre, EnRecv, IoTypeOK
  <2>5. RespuestaTypeOK'
    BY <1>4 DEF PcbBloqueado, CpuLibre, EnRecv, RespuestaTypeOK
  <2>6. QED BY <1>4, <2>1, <2>2, <2>3, <2>4, <2>5, TiposSinCambio DEF PcbBloqueado, CpuLibre, EnRecv
<1>5. CASE AtenderPedido
  BY <1>5, TipoAtenderPedido
<1>6. CASE DespertarPorSignal
  <2>1. ColasTypeOK'
    BY <1>6, PrimeroTipo, DesblockTipo DEF DespertarPorSignal, Responder, ColasTypeOK
  <2>2. SemaforosTypeOK'
    BY <1>6, PrimeroTipo, DesblockTipo DEF DespertarPorSignal, Responder, SemaforosTypeOK
  <2>3. CanalesTypeOK'
    BY <1>6 DEF DespertarPorSignal, Responder, CanalesTypeOK, Mensaje, MensajesDelKernel, Respuestas
  <2>4. RespuestaTypeOK'
    BY <1>6 DEF DespertarPorSignal, Responder, RespuestaTypeOK, EnRecv
  <2>5. QED BY <1>6, <2>1, <2>2, <2>3, <2>4, TiposSinCambio DEF DespertarPorSignal, Responder
<1>7. QED BY <1>1, <1>2, <1>3, <1>4, <1>5, <1>6 DEF CheckResponseOfCpu

\* The start of an ioFunction thread keeps the types.
LEMMA TipoArrancarIo ==
    ASSUME TypeOK, PasoDeKernel(ArrancarIo)
    PROVE  TypeOK'
<1> USE DEF TypeOK, KernelTypeOK, PasoDeKernel, PasoDeCpu
<1>1. CASE ArrancarIo
  <2>1. ioListos' \in [Pids -> Nat]
    <3>1. CASE ioParams \in Pids
      BY <1>1, <3>1 DEF ArrancarIo, IoTypeOK
    <3>2. CASE ioParams \notin Pids
      BY <1>1, <3>2 DEF ArrancarIo, IoTypeOK
    <3>3. QED BY <3>1, <3>2
  <2>2. IoTypeOK'
    BY <1>1, <2>1 DEF ArrancarIo, IoTypeOK
  <2>3. QED BY <1>1, <2>2, TiposSinCambio DEF ArrancarIo
<1>2. QED BY <1>1 DEF ArrancarIo

\* The rest of ioFunction keeps the types.
LEMMA TipoIoFunction ==
    ASSUME TypeOK, NEW p \in Pids, PasoDeKernel(IoFunction(p))
    PROVE  TypeOK'
<1> USE DEF TypeOK, KernelTypeOK, PasoDeKernel, PasoDeCpu
<1>1. ASSUME NEW i \in Interfaces, PedirIo(p, i)
  PROVE TypeOK'
  <2>1. ColasTypeOK'
    BY <1>1 DEF PedirIo, TerminarIo, ColasTypeOK
  <2>2. PidsTypeOK'
    BY <1>1 DEF PedirIo, TerminarIo, PidsTypeOK
  <2>3. SemaforosTypeOK'
    BY <1>1 DEF PedirIo, TerminarIo, SemaforosTypeOK
  <2>4. IoTypeOK'
    BY <1>1 DEF PedirIo, TerminarIo, IoTypeOK
  <2>5. QED BY <1>1, <2>1, <2>2, <2>3, <2>4, TiposSinCambio DEF PedirIo, TerminarIo
<1>2. CASE PerderIo(p)
  <2>1. ColasTypeOK'
    BY <1>2 DEF PerderIo, TerminarIo, ColasTypeOK
  <2>2. PidsTypeOK'
    BY <1>2 DEF PerderIo, TerminarIo, PidsTypeOK
  <2>3. SemaforosTypeOK'
    BY <1>2 DEF PerderIo, TerminarIo, SemaforosTypeOK
  <2>4. IoTypeOK'
    BY <1>2 DEF PerderIo, TerminarIo, IoTypeOK
  <2>5. QED BY <1>2, <2>1, <2>2, <2>3, <2>4, TiposSinCambio DEF PerderIo, TerminarIo
<1>3. CASE IoSinInterfaz(p)
  <2>1. ColasTypeOK'
    BY <1>3, RemoveFirstTipo DEF IoSinInterfaz, TerminarIo, DeletePcb, ColasTypeOK
  <2>2. PidsTypeOK'
    BY <1>3 DEF IoSinInterfaz, TerminarIo, DeletePcb, PidsTypeOK
  <2>3. SemaforosTypeOK'
    BY <1>3 DEF IoSinInterfaz, TerminarIo, DeletePcb, SemaforosTypeOK
  <2>4. IoTypeOK'
    BY <1>3 DEF IoSinInterfaz, TerminarIo, DeletePcb, IoTypeOK
  <2>5. QED BY <1>3, <2>1, <2>2, <2>3, <2>4, TiposSinCambio DEF IoSinInterfaz, TerminarIo, DeletePcb
<1>4. QED BY <1>1, <1>2, <1>3 DEF IoFunction

\* The answers of an interface keep the types.
LEMMA TipoOperate ==
    ASSUME TypeOK, NEW i \in Interfaces, PasoDeKernel(Operate(i))
    PROVE  TypeOK'
<1> USE DEF TypeOK, KernelTypeOK, PasoDeKernel, PasoDeCpu
<1>0. ioPedidos[i] # <<>> => Head(ioPedidos[i]) \in Pids
  BY DEF IoTypeOK
<1>1. CASE FinishedIo(i)
  <2>1. ColasTypeOK'
    BY <1>1, <1>0, DesblockTipo DEF FinishedIo, RespuestaDeInterfaz, ColasTypeOK
  <2>2. SemaforosTypeOK'
    BY <1>1, <1>0, DesblockTipo DEF FinishedIo, RespuestaDeInterfaz, SemaforosTypeOK
  <2>3. IoTypeOK'
    BY <1>1 DEF FinishedIo, RespuestaDeInterfaz, IoTypeOK
  <2>4. QED BY <1>1, <2>1, <2>2, <2>3, TiposSinCambio DEF FinishedIo, RespuestaDeInterfaz
<1>2. CASE FinishedIoError(i)
  <2>1. ColasTypeOK'
    BY <1>2, <1>0, RemoveFirstTipo DEF FinishedIoError, RespuestaDeInterfaz, ColasTypeOK
  <2>2. RecursosTypeOK'
    BY <1>2, <1>0 DEF FinishedIoError, RespuestaDeInterfaz, RecursosTypeOK, Liberadores
  <2>3. IoTypeOK'
    BY <1>2 DEF FinishedIoError, RespuestaDeInterfaz, IoTypeOK
  <2>4. QED BY <1>2, <2>1, <2>2, <2>3, TiposSinCambio DEF FinishedIoError, RespuestaDeInterfaz
<1>3. QED BY <1>1, <1>2 DEF Operate

\* liberarRecursos keeps the types, in the console and in an interface's thread.
LEMMA TipoLiberarRecursos ==
    ASSUME TypeOK, NEW t \in Liberadores, PasoDeKernel(LiberarRecursos(t))
    PROVE  TypeOK'
<1> USE DEF TypeOK, KernelTypeOK, PasoDeKernel, PasoDeCpu
<1>1. CASE QuitarDeLaLista(t)
  <2>1. PICK r \in Recursos :
          /\ recursosDePid[liberando[t]][r] > 0
          /\ recursosDePid' = [recursosDePid EXCEPT ![liberando[t]][r] = @ - 1]
          /\ devolucion' = [devolucion EXCEPT
                              ![t] = [pc |-> "sumar", res |-> r, leida |-> recursos[r]]]
    BY <1>1 DEF QuitarDeLaLista
  <2>2. liberando[t] \in Pids
    BY <1>1 DEF QuitarDeLaLista, RecursosTypeOK
  <2>3. recursosDePid' \in [Pids -> [Recursos -> Nat]]
    BY <2>1, <2>2 DEF RecursosTypeOK
  <2>4. [pc |-> "sumar", res |-> r, leida |-> recursos[r]] \in Devoluciones
    BY DEF RecursosTypeOK, Devoluciones
  <2>5. RecursosTypeOK'
    BY <1>1, <2>1, <2>3, <2>4 DEF QuitarDeLaLista, RecursosTypeOK
  <2>6. QED BY <1>1, <2>5, TiposSinCambio DEF QuitarDeLaLista
<1>2. CASE LiberarUno(t) \/ BuscarAlLiberar(t)
  <2>1. devolucion[t] \in Devoluciones
    BY DEF RecursosTypeOK
  <2>2. devolucion'[t] \in Devoluciones
    <3> DEFINE d == devolucion[t]
    <3>1. CASE LiberarUno(t)
      <4>1. devolucion'[t] = [d EXCEPT !.pc = "buscar", !.leida = 0] /\ d.pc = "sumar"
        BY <3>1 DEF LiberarUno, RecursosTypeOK
      <4>2. QED BY <2>1, <4>1 DEF Devoluciones
    <3>2. CASE BuscarAlLiberar(t)
      <4>1. /\ devolucion'[t] = SinDevolucion \/ devolucion'[t] = [d EXCEPT !.pc = "despertar"]
            /\ d.pc = "buscar"
        BY <3>2 DEF BuscarAlLiberar, RecursosTypeOK
      <4>2. QED BY <2>1, <4>1 DEF Devoluciones, SinDevolucion
    <3>3. QED BY <1>2, <3>1, <3>2
  <2>3. \A x \in Liberadores \ {t} : devolucion'[x] = devolucion[x]
    BY <1>2 DEF LiberarUno, BuscarAlLiberar, RecursosTypeOK
  <2>4. devolucion' = [x \in Liberadores |-> devolucion'[x]]
    BY <1>2 DEF LiberarUno, BuscarAlLiberar, RecursosTypeOK
  <2>5. devolucion' \in [Liberadores -> Devoluciones]
    BY <2>2, <2>3, <2>4 DEF RecursosTypeOK
  <2>6. recursos' \in [Recursos -> Int]
    BY <1>2, <2>1 DEF LiberarUno, BuscarAlLiberar, RecursosTypeOK, Devoluciones
  <2>7. RecursosTypeOK'
    BY <1>2, <2>5, <2>6 DEF LiberarUno, BuscarAlLiberar, RecursosTypeOK
  <2>8. QED BY <1>2, <2>7, TiposSinCambio DEF LiberarUno, BuscarAlLiberar
<1>4. CASE DespertarPorLiberar(t)
  <2>1. ColasTypeOK'
    BY <1>4, PrimeroTipo, DesblockTipo DEF DespertarPorLiberar, ColasTypeOK
  <2>2. SemaforosTypeOK'
    BY <1>4, PrimeroTipo, DesblockTipo DEF DespertarPorLiberar, SemaforosTypeOK
  <2>3. SinDevolucion \in Devoluciones
    BY DEF SinDevolucion, Devoluciones
  <2>4. RecursosTypeOK'
    BY <1>4, <2>3 DEF DespertarPorLiberar, RecursosTypeOK
  <2>5. QED BY <1>4, <2>1, <2>2, <2>4, TiposSinCambio DEF DespertarPorLiberar
<1>3. CASE TerminarDeLiberar(t)
  <2>1. PidsTypeOK'
    <3>1. CASE t = "consola"
      BY <1>3, <3>1 DEF TerminarDeLiberar, PidsTypeOK
    <3>2. CASE t # "consola"
      <4>1. liberando[t] \in Pids
        BY <1>3 DEF TerminarDeLiberar, RecursosTypeOK
      <4>2. QED BY <1>3, <3>2, <4>1 DEF TerminarDeLiberar, DeletePcb, PidsTypeOK
    <3>3. QED BY <3>1, <3>2
  <2>2. SemaforosTypeOK'
    BY <1>3 DEF TerminarDeLiberar, DeletePcb, SemaforosTypeOK
  <2>3. RecursosTypeOK'
    BY <1>3 DEF TerminarDeLiberar, DeletePcb, RecursosTypeOK
  <2>4. MandosTypeOK'
    BY <1>3 DEF TerminarDeLiberar, DeletePcb, MandosTypeOK, ConsolaTypeOK, ConsolaLibre, EnConsola
  <2>5. QED BY <1>3, <2>1, <2>2, <2>3, <2>4, TiposSinCambio DEF TerminarDeLiberar, DeletePcb
<1>5. QED BY <1>1, <1>2, <1>3, <1>4 DEF LiberarRecursos

\* The commands of the console keep the types.
LEMMA TipoConsola ==
    ASSUME TypeOK, PasoDeKernel(Consola)
    PROVE  TypeOK'
<1> USE DEF TypeOK, KernelTypeOK, PasoDeKernel, PasoDeCpu
<1>1. CASE IniciarProceso
  <2>1. PidNuevo \in Pids
    BY <1>1, ConstantesDeCanales DEF IniciarProceso, PidNuevo, HayPid, PidsTypeOK, Pids
  <2>2. ColasTypeOK'
    BY <1>1, <2>1 DEF IniciarProceso, ColasTypeOK
  <2>3. freePids' \in Seq(Pids) /\ nextPid' \in 1 .. MaxPid + 1
    <3>1. CASE freePids # <<>>
      <4>1. Tail(freePids) \in Seq(Pids)
        BY <3>1 DEF PidsTypeOK
      <4>2. freePids' = Tail(freePids) /\ nextPid' = nextPid
        BY <1>1, <3>1, Zenon DEF IniciarProceso
      <4>3. QED BY <4>1, <4>2 DEF PidsTypeOK
    <3>2. CASE freePids = <<>>
      BY <1>1, <3>2, ConstantesDeCanales DEF IniciarProceso, HayPid, PidsTypeOK
    <3>3. QED BY <3>1, <3>2
  <2>4. PidsTypeOK'
    BY <1>1, <2>1, <2>3 DEF IniciarProceso, PidsTypeOK
  <2>5. SemaforosTypeOK'
    BY <1>1 DEF IniciarProceso, SemaforosTypeOK
  <2>6. porCrear' \in 0 .. MaxCrear
    BY <1>1, ConstantesDelKernel DEF IniciarProceso, MandosTypeOK
  <2>7. MandosTypeOK'
    BY <1>1, <2>1, <2>6 DEF IniciarProceso, MandosTypeOK, ConsolaTypeOK, EnConsola
  <2>8. ContextoInicial \in Contextos
    BY ConstantesDeCanales DEF ContextoInicial, Contextos, Infos
  <2>9. CanalesTypeOK'
    BY <1>1, <2>8 DEF IniciarProceso, CanalesTypeOK
  <2>10. QED BY <1>1, <2>2, <2>4, <2>5, <2>7, <2>9, TiposSinCambio DEF IniciarProceso
<1>2. ASSUME NEW b \in BOOLEAN, CambiarPlanificador(b)
  PROVE TypeOK'
  <2>1. MandosTypeOK'
    BY <1>2 DEF CambiarPlanificador, MandosTypeOK, ConsolaTypeOK
  <2>2. QED BY <1>2, <2>1, TiposSinCambio DEF CambiarPlanificador
<1>3. ASSUME NEW v \in Grados, SubirGrado(v)
  PROVE TypeOK'
  <2>1. SemaforosTypeOK'
    BY <1>3, ConstantesDelKernel DEF SubirGrado, SemaforosTypeOK, MandosTypeOK
  <2>2. MandosTypeOK'
    BY <1>3, ConstantesDelKernel DEF SubirGrado, MandosTypeOK, ConsolaTypeOK
  <2>3. QED BY <1>3, <2>1, <2>2, TiposSinCambio DEF SubirGrado
<1>4. ASSUME NEW v \in Grados, BajarGrado(v)
  PROVE TypeOK'
  <2>1. consola' = [pc |-> "bajar", pid |-> NULL, valor |-> v,
                    falta |-> gradoMultiprogramacion - v]
    BY <1>4 DEF BajarGrado, ConsolaLibre, EnConsola
  <2>2. gradoMultiprogramacion - v \in Nat /\ v \in Nat \ {0}
    BY <1>4, ConstantesDelKernel DEF BajarGrado, MandosTypeOK
  <2>3. ConsolaTypeOK'
    BY <2>1, <2>2 DEF ConsolaTypeOK
  <2>4. MandosTypeOK'
    BY <1>4, <2>3 DEF BajarGrado, MandosTypeOK
  <2>5. QED BY <1>4, <2>4, TiposSinCambio DEF BajarGrado
<1>5. ASSUME NEW p \in Pids, FinalizarProceso(p)
  PROVE TypeOK'
  <2>1. ConsolaTypeOK'
    BY <1>5 DEF FinalizarProceso, ConsolaTypeOK, EnConsola, BuscandoPcs
  <2>2. porFinalizar' \in 0 .. MaxFinalizar
    BY <1>5, ConstantesDelKernel DEF FinalizarProceso, MandosTypeOK
  <2>3. MandosTypeOK'
    BY <1>5, <2>1, <2>2 DEF FinalizarProceso, MandosTypeOK
  <2>4. QED BY <1>5, <2>3, TiposSinCambio DEF FinalizarProceso
<1>6. QED BY <1>1, <1>2, <1>3, <1>4, <1>5 DEF Consola

\* MULTIPROGRAMACION and FINALIZAR_PROCESO in course keep the types.
LEMMA TipoConsolaEnCurso ==
    ASSUME TypeOK, PasoDeKernel(ConsolaEnCurso)
    PROVE  TypeOK'
<1> USE DEF TypeOK, KernelTypeOK, PasoDeKernel, PasoDeCpu
<1>1. CASE QuitarLugar
  <2>1. SemaforosTypeOK'
    BY <1>1 DEF QuitarLugar, SemaforosTypeOK
  <2>2. MandosTypeOK'
    BY <1>1 DEF QuitarLugar, MandosTypeOK, ConsolaTypeOK, EnConsola, ConsolaLibre, BuscandoPcs
  <2>3. QED BY <1>1, <2>1, <2>2, TiposSinCambio DEF QuitarLugar
<1>2. CASE FinalizarEnEjecucion
  <2>1. MandosTypeOK'
    BY <1>2 DEF FinalizarEnEjecucion, MandosTypeOK, ConsolaTypeOK, EnConsola, ConsolaLibre,
       BuscandoPcs
  <2>2. CanalesTypeOK'
    <3>1. \/ socketCpuInterrupt' = Append(socketCpuInterrupt, "CONSOLE")
          \/ socketCpuInterrupt' = socketCpuInterrupt
      BY <1>2, Zenon DEF FinalizarEnEjecucion
    <3>2. socketCpuInterrupt' \in Seq({"QUANTUM", "CONSOLE"})
      BY <3>1, AppendTipo DEF CanalesTypeOK
    <3>3. QED BY <1>2, <3>2 DEF FinalizarEnEjecucion, CanalesTypeOK
  <2>3. QED BY <1>2, <2>1, <2>2, TiposSinCambio DEF FinalizarEnEjecucion
<1>3. CASE SeguirBuscando
  <2>1. MandosTypeOK'
    BY <1>3 DEF SeguirBuscando, Buscar, MandosTypeOK, ConsolaTypeOK, EnConsola, ConsolaLibre,
       BuscandoPcs
  <2>2. QED BY <1>3, <2>1, TiposSinCambio DEF SeguirBuscando, Buscar
<1>4. CASE FinalizarNew
  <2>1. ColasTypeOK'
    BY <1>4, RemoveFirstTipo DEF FinalizarNew, Encontrado, DeletePcb, ColasTypeOK
  <2>2. PidsTypeOK'
    BY <1>4 DEF FinalizarNew, Encontrado, DeletePcb, PidsTypeOK, MandosTypeOK, ConsolaTypeOK,
       BuscandoPcs
  <2>3. SemaforosTypeOK'
    BY <1>4 DEF FinalizarNew, Encontrado, DeletePcb, SemaforosTypeOK
  <2>4. RecursosTypeOK'
    BY <1>4 DEF FinalizarNew, Encontrado, DeletePcb, RecursosTypeOK, MandosTypeOK, ConsolaTypeOK,
       BuscandoPcs, Liberadores
  <2>5. MandosTypeOK'
    BY <1>4 DEF FinalizarNew, Encontrado, DeletePcb, MandosTypeOK, ConsolaTypeOK, EnConsola,
       ConsolaLibre, BuscandoPcs
  <2>6. QED BY <1>4, <2>1, <2>2, <2>3, <2>4, <2>5, TiposSinCambio DEF FinalizarNew, Encontrado,
       DeletePcb
<1>5. CASE FinalizarReady
  <2>1. ColasTypeOK'
    BY <1>5, RemoveFirstTipo DEF FinalizarReady, Encontrado, DeletePcb, ColasTypeOK
  <2>2. PidsTypeOK'
    BY <1>5 DEF FinalizarReady, Encontrado, DeletePcb, PidsTypeOK, MandosTypeOK, ConsolaTypeOK,
       BuscandoPcs
  <2>3. SemaforosTypeOK'
    BY <1>5 DEF FinalizarReady, Encontrado, DeletePcb, SemaforosTypeOK
  <2>4. RecursosTypeOK'
    BY <1>5 DEF FinalizarReady, Encontrado, DeletePcb, RecursosTypeOK, MandosTypeOK,
       ConsolaTypeOK, BuscandoPcs, Liberadores
  <2>5. MandosTypeOK'
    BY <1>5 DEF FinalizarReady, Encontrado, DeletePcb, MandosTypeOK, ConsolaTypeOK, EnConsola,
       ConsolaLibre, BuscandoPcs
  <2>6. QED BY <1>5, <2>1, <2>2, <2>3, <2>4, <2>5, TiposSinCambio DEF FinalizarReady, Encontrado,
       DeletePcb
<1>6. CASE FinalizarAux
  <2>1. ColasTypeOK'
    BY <1>6, RemoveFirstTipo DEF FinalizarAux, Encontrado, DeletePcb, ColasTypeOK
  <2>2. PidsTypeOK'
    BY <1>6 DEF FinalizarAux, Encontrado, DeletePcb, PidsTypeOK, MandosTypeOK, ConsolaTypeOK,
       BuscandoPcs
  <2>3. SemaforosTypeOK'
    BY <1>6 DEF FinalizarAux, Encontrado, DeletePcb, SemaforosTypeOK
  <2>4. RecursosTypeOK'
    BY <1>6 DEF FinalizarAux, Encontrado, DeletePcb, RecursosTypeOK, MandosTypeOK, ConsolaTypeOK,
       BuscandoPcs, Liberadores
  <2>5. MandosTypeOK'
    BY <1>6 DEF FinalizarAux, Encontrado, DeletePcb, MandosTypeOK, ConsolaTypeOK, EnConsola,
       ConsolaLibre, BuscandoPcs
  <2>6. QED BY <1>6, <2>1, <2>2, <2>3, <2>4, <2>5, TiposSinCambio DEF FinalizarAux, Encontrado,
       DeletePcb
<1>7. CASE FinalizarBlocked
  <2>1. ColasTypeOK'
    BY <1>7, RemoveFirstTipo DEF FinalizarBlocked, Encontrado, DeletePcb, ColasTypeOK
  <2>2. PidsTypeOK'
    BY <1>7 DEF FinalizarBlocked, Encontrado, DeletePcb, PidsTypeOK, MandosTypeOK, ConsolaTypeOK,
       BuscandoPcs
  <2>3. SemaforosTypeOK'
    BY <1>7 DEF FinalizarBlocked, Encontrado, DeletePcb, SemaforosTypeOK
  <2>4. RecursosTypeOK'
    BY <1>7 DEF FinalizarBlocked, Encontrado, DeletePcb, RecursosTypeOK, MandosTypeOK,
       ConsolaTypeOK, BuscandoPcs, Liberadores
  <2>5. MandosTypeOK'
    BY <1>7 DEF FinalizarBlocked, Encontrado, DeletePcb, MandosTypeOK, ConsolaTypeOK, EnConsola,
       ConsolaLibre, BuscandoPcs
  <2>6. QED BY <1>7, <2>1, <2>2, <2>3, <2>4, <2>5, TiposSinCambio DEF FinalizarBlocked,
       Encontrado, DeletePcb
<1>8. CASE CrearRecursosDePid
  <2>1. consola.pid \in Pids
    BY <1>8 DEF CrearRecursosDePid, MandosTypeOK, ConsolaTypeOK, BuscandoPcs
  <2>2. RecursosTypeOK'
    BY <1>8, <2>1 DEF CrearRecursosDePid, RecursosTypeOK
  <2>3. MandosTypeOK'
    BY <1>8 DEF CrearRecursosDePid, MandosTypeOK, ConsolaTypeOK, EnConsola, ConsolaLibre
  <2>4. QED BY <1>8, <2>2, <2>3, TiposSinCambio DEF CrearRecursosDePid
<1>9. QED BY <1>1, <1>2, <1>3, <1>4, <1>5, <1>6, <1>7, <1>8 DEF ConsolaEnCurso

\* So does the end of the kernel.
LEMMA TipoCaer ==
    ASSUME TypeOK, PasoDeKernel(Caer)
    PROVE  TypeOK'
<1> USE DEF TypeOK, KernelTypeOK, PasoDeKernel, PasoDeCpu
<1>1. CASE Caer
  BY <1>1, TiposSinCambio DEF Caer
<1>2. QED BY <1>1 DEF Caer

\* A step of the CPU keeps the types of the kernel.
LEMMA KernelSinCambio ==
    ASSUME KernelTypeOK, UNCHANGED kernelVars
    PROVE  KernelTypeOK'
BY TiposSinCambio DEF kernelVars, KernelTypeOK

\* The PCB of a process is a message the CPU may send.
LEMMA PcbTipo ==
    ASSUME NEW p \in Pids
    PROVE  Mensaje("PCB", p, NULL) \in MensajesDeLaCpu
BY DEF Mensaje, MensajesDeLaCpu, Pcbs

\* sendPcb of the CPU's process keeps the types of the channels.
LEMMA DevolverTipo ==
    ASSUME CanalesTypeOK, pcbExecute \in Pids, NEW c \in Contextos, DevolverPcb(c)
    PROVE  contexto' \in [Pids -> Contextos] /\ respuestasCpu' \in Seq(MensajesDeLaCpu)
BY PcbTipo, AppendTipo DEF DevolverPcb, CanalesTypeOK

\* So does the end of an instruction, interrupted or not.
LEMMA SondearTipo ==
    ASSUME CanalesTypeOK, CpuTypeOK, pcbExecute \in Pids,
           NEW c \in Contextos, NEW n \in Nat, Sondear(c, n)
    PROVE  /\ contexto' \in [Pids -> Contextos]
           /\ respuestasCpu' \in Seq(MensajesDeLaCpu)
           /\ sInterrupt' \in Nat /\ sCanExecuteInstruction' \in Nat
<1>1. CASE sInterrupt > 0
  <2> DEFINE d == [c EXCEPT !.reason = reasonForInterruption,
                            !.quantum = IF reasonForInterruption = "QUANTUM"
                                          THEN 0 ELSE @]
  <2>1. d \in Contextos
    <3>1. \A x \in Razones \cup {NULL}, q \in 0 .. Quantum :
            [c EXCEPT !.reason = x, !.quantum = q] \in Contextos
      BY DEF Contextos
    <3>2. reasonForInterruption \in Razones \cup {NULL}
      BY DEF CpuTypeOK, Razones
    <3>3. 0 \in 0 .. Quantum /\ c.quantum \in 0 .. Quantum
      BY ConstantesDeCanales DEF Contextos
    <3>4. CASE reasonForInterruption = "QUANTUM"
      BY <3>1, <3>2, <3>3, <3>4
    <3>5. CASE reasonForInterruption # "QUANTUM"
      BY <3>1, <3>2, <3>3, <3>5
    <3>6. QED BY <3>4, <3>5
  <2>2. DevolverPcb(d) /\ sInterrupt' = sInterrupt - 1 /\ sCanExecuteInstruction' = n
    <3>1. sInterrupt # 0
      BY <1>1
    <3>2. QED BY <3>1, Zenon DEF Sondear
  <2> HIDE DEF d
  <2>3. QED BY <1>1, <2>1, <2>2, DevolverTipo DEF CpuTypeOK
<1>2. CASE sInterrupt = 0
  <2>1. /\ contexto' = [contexto EXCEPT ![pcbExecute] = c]
        /\ sCanExecuteInstruction' = n + 1 /\ UNCHANGED <<sInterrupt, respuestasCpu>>
    BY <1>2 DEF Sondear
  <2>2. contexto' \in [Pids -> Contextos]
    BY <2>1 DEF CanalesTypeOK
  <2>3. respuestasCpu' \in Seq(MensajesDeLaCpu)
    BY <2>1 DEF CanalesTypeOK
  <2>4. sInterrupt' \in Nat /\ sCanExecuteInstruction' \in Nat
    BY <2>1 DEF CpuTypeOK
  <2>5. QED BY <2>2, <2>3, <2>4
<1>3. QED BY <1>1, <1>2 DEF CpuTypeOK

\* The context of the CPU's process, before and after the PC is incremented.
LEMMA ContextoTipo ==
    ASSUME CanalesTypeOK, pcbExecute \in Pids
    PROVE  contexto[pcbExecute] \in Contextos /\ TrasIncrementarPc \in Contextos
<1>1. contexto[pcbExecute] \in Contextos
  BY DEF CanalesTypeOK
<1>2. \A c \in Contextos : [c EXCEPT !.pc = @ + 1] \in Contextos
  BY ConstantesDeCanales DEF Contextos
<1>3. QED BY <1>1, <1>2 DEF TrasIncrementarPc

\* The CPU's thread that reads the dispatch socket keeps the types: a PCB...
LEMMA TipoRecibirPcb ==
    ASSUME TypeOK, PasoDeCpu(RecibirPcb)
    PROVE  TypeOK'
<1> USE DEF TypeOK, PasoDeCpu, RecibirPcb
<1>1. KernelTypeOK'
  BY KernelSinCambio
<1>2. Head(socketCpuDispatch).pid \in Pids
  <2>1. socketCpuDispatch \in Seq(MensajesDelKernel) /\ socketCpuDispatch # <<>>
    BY DEF CanalesTypeOK
  <2>2. Head(socketCpuDispatch) \in MensajesDelKernel
    BY <2>1
  <2>3. QED BY <2>2 DEF MensajesDelKernel, Pcbs, Respuestas
<1>3. CpuTypeOK'
  BY <1>2 DEF CpuTypeOK
<1>4. CanalesTypeOK'
  BY DEF CanalesTypeOK
<1>5. QED BY <1>1, <1>3, <1>4

\* ...and the one that reads the interrupt socket.
LEMMA TipoRecibirInterrupcion ==
    ASSUME TypeOK, PasoDeCpu(RecibirInterrupcion)
    PROVE  TypeOK'
<1> USE DEF TypeOK, PasoDeCpu, RecibirInterrupcion
<1>1. KernelTypeOK'
  BY KernelSinCambio
<1>2. CpuTypeOK'
  BY DEF CpuTypeOK, CpuOcupada, CanalesTypeOK
<1>3. CanalesTypeOK'
  BY DEF CanalesTypeOK
<1>4. QED BY <1>1, <1>2, <1>3

\* executeInstrucions keeps the types, whatever the instruction.
LEMMA TipoEjecutarInstruccion ==
    ASSUME TypeOK, PasoDeCpu(EjecutarInstruccion)
    PROVE  TypeOK'
<1> USE DEF TypeOK, PasoDeCpu
<1>1. KernelTypeOK'
  BY KernelSinCambio
<1>2. CASE EjecutarComun
  <2>1. pcbExecute \in Pids /\ sCanExecuteInstruction - 1 \in Nat
    BY <1>2 DEF EjecutarComun, PuedeEjecutar, CpuTypeOK, CpuOcupada
  <2>2. /\ contexto' \in [Pids -> Contextos]
        /\ respuestasCpu' \in Seq(MensajesDeLaCpu)
        /\ sInterrupt' \in Nat /\ sCanExecuteInstruction' \in Nat
    BY <1>2, <2>1, ContextoTipo, SondearTipo DEF EjecutarComun
  <2>3. CpuTypeOK'
    BY <1>2, <2>1, <2>2 DEF EjecutarComun, CpuTypeOK
  <2>4. CanalesTypeOK'
    BY <1>2, <2>2 DEF EjecutarComun, CanalesTypeOK
  <2>5. QED BY <1>1, <2>3, <2>4
<1>3. ASSUME NEW k \in {"EXIT", "IO", "ERROR"}, EjecutarYSalir(k)
      PROVE  TypeOK'
  <2>1. pcbExecute \in Pids /\ sCanExecuteInstruction - 1 \in Nat
    BY <1>3 DEF EjecutarYSalir, PuedeEjecutar, CpuTypeOK, CpuOcupada
  <2> DEFINE c == [TrasIncrementarPc EXCEPT
                     !.reason = k, !.info = IF k = "IO" THEN "IO" ELSE NULL]
  <2>2. c \in Contextos
    BY <2>1, ContextoTipo DEF Contextos, Razones, Infos
  <2>3. DevolverPcb(c)
    BY <1>3 DEF EjecutarYSalir
  <2> HIDE DEF c
  <2>4. contexto' \in [Pids -> Contextos] /\ respuestasCpu' \in Seq(MensajesDeLaCpu)
    BY <2>1, <2>2, <2>3, DevolverTipo
  <2>5. CpuTypeOK'
    BY <1>3, <2>1 DEF EjecutarYSalir, CpuTypeOK
  <2>6. CanalesTypeOK'
    BY <1>3, <2>4 DEF EjecutarYSalir, CanalesTypeOK
  <2>7. QED BY <1>1, <2>5, <2>6
<1>4. ASSUME NEW k \in {"WAIT", "SIGNAL"}, NEW r \in NombresRecursos, PedirRecurso(k, r)
      PROVE  TypeOK'
  <2>1. pcbExecute \in Pids /\ sCanExecuteInstruction - 1 \in Nat
    BY <1>4 DEF PedirRecurso, PuedeEjecutar, CpuTypeOK, CpuOcupada
  <2>2. contexto' \in [Pids -> Contextos]
    BY <1>4, <2>1, ContextoTipo DEF PedirRecurso, CanalesTypeOK
  <2>3. Mensaje(k, pcbExecute, r) \in MensajesDeLaCpu
    BY <2>1 DEF Mensaje, MensajesDeLaCpu
  <2>4. CpuTypeOK'
    BY <1>4, <2>1 DEF PedirRecurso, CpuTypeOK
  <2>5. CanalesTypeOK'
    BY <1>4, <2>2, <2>3, AppendTipo DEF PedirRecurso, CanalesTypeOK
  <2>6. QED BY <1>1, <2>4, <2>5
<1>5. QED BY <1>2, <1>3, <1>4 DEF EjecutarInstruccion

\* The three ways a WAIT or a SIGNAL ends.
LEMMA FinDeRespuesta ==
    ASSUME RecibirRespuesta
    PROVE  \/ Sondear(contexto[pcbExecute], sCanExecuteInstruction)
           \/ /\ DevolverPcb([contexto[pcbExecute] EXCEPT !.reason = "WAIT",
                                                        !.info = esperaRecurso])
              /\ UNCHANGED <<sInterrupt, sCanExecuteInstruction>>
           \/ /\ DevolverPcb([contexto[pcbExecute] EXCEPT !.reason = "EXIT", !.info = NULL])
              /\ UNCHANGED <<sInterrupt, sCanExecuteInstruction>>
BY DEF RecibirRespuesta

\* The answer of the kernel keeps the types.
LEMMA TipoRecibirRespuesta ==
    ASSUME TypeOK, PasoDeCpu(RecibirRespuesta)
    PROVE  TypeOK'
<1> USE DEF TypeOK, PasoDeCpu
<1>1. KernelTypeOK'
  BY KernelSinCambio
<1>2. pcbExecute \in Pids /\ contexto[pcbExecute] \in Contextos /\ esperaRecurso \in Infos
  BY ContextoTipo DEF RecibirRespuesta, CpuTypeOK, CpuOcupada, Infos
<1>3. /\ contexto' \in [Pids -> Contextos]
      /\ respuestasCpu' \in Seq(MensajesDeLaCpu)
      /\ sInterrupt' \in Nat /\ sCanExecuteInstruction' \in Nat
  <2> DEFINE c == contexto[pcbExecute]
  <2>1. CASE Sondear(c, sCanExecuteInstruction)
    BY <1>2, <2>1, SondearTipo DEF CpuTypeOK
  <2> DEFINE dBlock == [c EXCEPT !.reason = "WAIT", !.info = esperaRecurso]
             dExit == [c EXCEPT !.reason = "EXIT", !.info = NULL]
  <2>2. dBlock \in Contextos /\ dExit \in Contextos
    BY <1>2 DEF Contextos, Razones, Infos
  <2>3. \/ Sondear(c, sCanExecuteInstruction)
        \/ DevolverPcb(dBlock) /\ UNCHANGED <<sInterrupt, sCanExecuteInstruction>>
        \/ DevolverPcb(dExit) /\ UNCHANGED <<sInterrupt, sCanExecuteInstruction>>
    BY FinDeRespuesta
  <2> HIDE DEF dBlock, dExit
  <2>4. CASE /\ DevolverPcb(dBlock) \/ DevolverPcb(dExit)
             /\ UNCHANGED <<sInterrupt, sCanExecuteInstruction>>
    <3>1. PICK d \in Contextos : DevolverPcb(d)
      BY <2>2, <2>4 DEF DevolverPcb
    <3>2. contexto' \in [Pids -> Contextos] /\ respuestasCpu' \in Seq(MensajesDeLaCpu)
      BY <1>2, <3>1, DevolverTipo
    <3>3. QED BY <2>4, <3>2 DEF CpuTypeOK
  <2>5. QED BY <2>1, <2>3, <2>4
<1>4. CpuTypeOK'
  BY <1>2, <1>3 DEF RecibirRespuesta, CpuTypeOK
<1>5. CanalesTypeOK'
  BY <1>3 DEF RecibirRespuesta, CanalesTypeOK
<1>6. QED BY <1>1, <1>4, <1>5

\* The initial state has the types.
LEMMA TipoInicial == Init => TypeOK
<1> SUFFICES ASSUME Init PROVE TypeOK
  OBVIOUS
<1> USE DEF Init
<1>1. ContextoInicial \in Contextos
  BY ConstantesDeCanales DEF ContextoInicial, Contextos, Infos
<1>2. CanalesTypeOK
  BY <1>1 DEF CanalesInit, CanalesTypeOK
<1>3. CpuTypeOK
  BY DEF CpuInit, CpuTypeOK, CpuOcupada
<1>4. ColasTypeOK /\ SemaforosTypeOK /\ PlanTypeOK
  BY ConstantesDelKernel, ConstantesDeCanales
     DEF KernelInit, ColasTypeOK, SemaforosTypeOK, PlanTypeOK
<1>5. PidsTypeOK
  BY ConstantesDeCanales DEF KernelInit, PidsTypeOK
<1>6. RecursosTypeOK
  BY ConstantesDelKernel DEF KernelInit, RecursosTypeOK, Devoluciones, SinDevolucion
<1>7. IoTypeOK
  BY DEF KernelInit, IoTypeOK
<1>8. MandosTypeOK
  <2>1. consola = [pc |-> "libre", pid |-> NULL, valor |-> 0, falta |-> 0]
    BY DEF KernelInit, ConsolaLibre, EnConsola
  <2>2. ConsolaTypeOK
    BY <2>1 DEF ConsolaTypeOK
  <2>3. porCrear \in 0 .. MaxCrear /\ porFinalizar \in 0 .. MaxFinalizar
    <3>1. porCrear = MaxCrear /\ porFinalizar = MaxFinalizar
      BY DEF KernelInit
    <3>2. QED BY <3>1, ConstantesDelKernel
  <2>4. plannerIsRunning \in BOOLEAN
    BY DEF KernelInit
  <2>5. chosenPlanner \in Algoritmos /\ gradoMultiprogramacion = Grado
    BY DEF KernelInit
  <2>6. QED BY <2>2, <2>3, <2>4, <2>5, ConstantesDelKernel DEF MandosTypeOK
<1>9. RespuestaTypeOK
  BY DEF KernelInit, RespuestaTypeOK, EnRecv
<1>10. QED
  BY <1>2, <1>3, <1>4, <1>5, <1>6, <1>7, <1>8, <1>9 DEF TypeOK, KernelTypeOK, KernelInit

\* A stuttering step keeps the types.
LEMMA TipoSinPaso == TypeOK /\ UNCHANGED vars => TypeOK'
BY KernelSinCambio, TiposSinCambio DEF TypeOK, vars

\* Every variable keeps its type, whatever the number of processes, resources,
\* interfaces and places: in particular no semaphore goes below zero, no message
\* of another kind appears on a socket and every pid in a queue was given out.
THEOREM TiposCorrectos == Spec => []TypeOK
<1>1. Init => TypeOK
  BY TipoInicial
<1>2. TypeOK /\ [Next]_vars => TypeOK'
  <2> SUFFICES ASSUME TypeOK, [Next]_vars PROVE TypeOK'
    OBVIOUS
  <2>1. CASE UNCHANGED vars
    BY <2>1, TipoSinPaso
  <2>2. CASE Next
    BY <2>2, TipoConsola, TipoConsolaEnCurso, TipoNewToReady, TipoToExecute,
       TipoCheckResponseOfCpu, TipoArrancarIo, TipoIoFunction, TipoOperate,
       TipoLiberarRecursos, TipoCaer, TipoRecibirPcb, TipoRecibirInterrupcion,
       TipoEjecutarInstruccion, TipoRecibirRespuesta DEF Next
  <2>3. QED BY <2>1, <2>2
<1>3. QED BY <1>1, <1>2, PTL DEF Spec

-------------------------------------------------------------------------------
(* One process in the CPU: CpuExclusiva, under every algorithm and with any    *)
(* commands.  It is inductive together with the types.  The token is in one of *)
(* four kinds of place, and each of the four lemmas that follow says what the  *)
(* rest of the system looks like when it is there; an action is then a move of *)
(* the token, or leaves it alone.                                              *)

\* One or no PCB at the head of a socket; one when the message read is a PCB.
LEMMA PcbEnValores ==
    /\ PcbEn(<<>>) = 0
    /\ \A m : PcbEn(<<m>>) = IF m.op = "PCB" THEN 1 ELSE 0
    /\ \A canal : PcbEn(canal) \in {0, 1}
BY DEF PcbEn, Si, EsPcb

\* The parts of the sum are naturals, so at most one of them is not zero.
LEMMA FichaUnica ==
    ASSUME TypeOK, CpuExclusiva
    PROVE  /\ sRunningProcess \in {0, 1} /\ sCanExecuteInstruction \in {0, 1}
           /\ toExecute = "listo" \/ esperaRecurso # NULL \/ respuesta.pc = "pcb"
                => sRunningProcess = 0 /\ sCanExecuteInstruction = 0
           /\ toExecute = "listo" => esperaRecurso = NULL /\ respuesta.pc # "pcb"
           /\ esperaRecurso # NULL => toExecute # "listo" /\ respuesta.pc # "pcb"
           /\ sRunningProcess = 1 =>
                /\ toExecute # "listo" /\ sCanExecuteInstruction = 0
                /\ esperaRecurso = NULL /\ respuesta.pc # "pcb"
           /\ sCanExecuteInstruction = 1 =>
                /\ toExecute # "listo" /\ sRunningProcess = 0
                /\ esperaRecurso = NULL /\ respuesta.pc # "pcb"
           /\ PcbEn(socketCpuDispatch) = 1 \/ PcbEn(respuestasCpu) = 1 =>
                /\ sRunningProcess = 0 /\ sCanExecuteInstruction = 0
                /\ toExecute # "listo" /\ esperaRecurso = NULL /\ respuesta.pc # "pcb"
<1>1. sRunningProcess \in Nat /\ sCanExecuteInstruction \in Nat
  BY DEF TypeOK, KernelTypeOK, SemaforosTypeOK, CpuTypeOK
<1>2. PcbEn(socketCpuDispatch) \in {0, 1} /\ PcbEn(respuestasCpu) \in {0, 1}
  BY PcbEnValores
<1>3. FichasDeCpu = 1
  BY DEF CpuExclusiva
<1>4. QED BY <1>1, <1>2, <1>3 DEF FichasDeCpu, Si

\* The first message of a socket of the dialogue is the only one.
LEMMA UnMensaje ==
    ASSUME NEW S, NEW c \in Seq(S), Len(c) <= 1, c # <<>>
    PROVE  c = <<Head(c)>> /\ Head(c) = c[1] /\ 1 \in DOMAIN c /\ Len(c) = 1 /\ Tail(c) = <<>>
<1>1. Len(c) \in Nat /\ Len(c) # 0
  OBVIOUS
<1>2. Len(c) = 1
  BY <1>1
<1>3. 1 \in DOMAIN c /\ Head(c) = c[1]
  BY <1>2
<1>4. c = <<c[1]>>
  BY <1>2
<1>5. Tail(c) = <<>>
  <2>1. Tail(c) \in Seq(S) /\ Len(Tail(c)) = 0
    BY <1>2
  <2>2. QED BY <2>1, EmptySeq
<1>6. QED BY <1>2, <1>3, <1>4, <1>5

\* The lengths that CpuExclusiva adds up.
LEMMA Dialogo ==
    ASSUME TypeOK, CpuExclusiva
    PROVE  /\ Len(socketCpuDispatch) <= 1 /\ Len(respuestasCpu) <= 1
           /\ socketCpuDispatch # <<>> => respuestasCpu = <<>> /\ respuesta.pc = "recv"
           /\ respuestasCpu # <<>> => socketCpuDispatch = <<>> /\ respuesta.pc = "recv"
           /\ respuesta.pc # "recv" => socketCpuDispatch = <<>> /\ respuestasCpu = <<>>
<1>1. Len(socketCpuDispatch) + Len(respuestasCpu) + Si(respuesta.pc # "recv") <= 1
  BY DEF CpuExclusiva
<1>2. /\ socketCpuDispatch \in Seq(MensajesDelKernel)
      /\ respuestasCpu \in Seq(MensajesDeLaCpu)
  BY DEF TypeOK, CanalesTypeOK
<1>3. /\ Len(socketCpuDispatch) \in Nat /\ Len(respuestasCpu) \in Nat
      /\ socketCpuDispatch # <<>> => Len(socketCpuDispatch) > 0
      /\ respuestasCpu # <<>> => Len(respuestasCpu) > 0
  BY <1>2
<1>4. QED BY <1>1, <1>3 DEF Si

\* A message to the CPU is a PCB, and nobody waits for an answer, or it is the
\* answer to an instruction that waits for it.
LEMMA ConMensaje ==
    ASSUME TypeOK, CpuExclusiva, socketCpuDispatch # <<>>
    PROVE  /\ socketCpuDispatch = <<Head(socketCpuDispatch)>>
           /\ Tail(socketCpuDispatch) = <<>>
           /\ respuestasCpu = <<>> /\ respuesta.pc = "recv"
           /\ sRunningProcess = 0 /\ toExecute # "listo" /\ sCanExecuteInstruction = 0
           /\ (Head(socketCpuDispatch).op = "PCB") <=> (esperaRecurso = NULL)
<1> DEFINE m == Head(socketCpuDispatch)
<1>1. /\ socketCpuDispatch = <<m>> /\ m = socketCpuDispatch[1]
      /\ 1 \in DOMAIN socketCpuDispatch /\ Tail(socketCpuDispatch) = <<>>
      /\ m \in MensajesDelKernel
  BY Dialogo, UnMensaje DEF TypeOK, CanalesTypeOK
<1>2. m.op = "PCB" \/ m.op \in Respuestas
  BY <1>1 DEF MensajesDelKernel, Pcbs
<1>3. m.op \in Respuestas => m.op # "PCB" /\ esperaRecurso # NULL
  BY <1>1 DEF CpuExclusiva, Respuestas
<1>4. PcbEn(socketCpuDispatch) = IF m.op = "PCB" THEN 1 ELSE 0
  BY <1>1, PcbEnValores
<1> HIDE DEF m
<1>5. respuestasCpu = <<>> /\ respuesta.pc = "recv"
  BY Dialogo
<1>6. CASE m.op = "PCB"
  BY <1>1, <1>4, <1>5, <1>6, FichaUnica DEF m
<1>7. CASE m.op \in Respuestas
  BY <1>1, <1>3, <1>5, <1>7, FichaUnica DEF m
<1>8. QED BY <1>2, <1>6, <1>7

\* A message from the CPU is a PCB that comes back, or the request of the
\* instruction that waits.
LEMMA ConRespuesta ==
    ASSUME TypeOK, CpuExclusiva, respuestasCpu # <<>>
    PROVE  /\ respuestasCpu = <<Head(respuestasCpu)>> /\ Tail(respuestasCpu) = <<>>
           /\ socketCpuDispatch = <<>> /\ respuesta.pc = "recv"
           /\ sRunningProcess = 0 /\ toExecute # "listo" /\ sCanExecuteInstruction = 0
           /\ Head(respuestasCpu).op = "PCB" => esperaRecurso = NULL
           /\ Head(respuestasCpu).op \in {"WAIT", "SIGNAL"} =>
                /\ esperaRecurso # NULL
                /\ esperaRecurso = Head(respuestasCpu).res
<1> DEFINE m == Head(respuestasCpu)
<1>1. /\ respuestasCpu = <<m>> /\ m = respuestasCpu[1]
      /\ 1 \in DOMAIN respuestasCpu /\ Tail(respuestasCpu) = <<>>
      /\ m \in MensajesDeLaCpu
  BY Dialogo, UnMensaje DEF TypeOK, CanalesTypeOK
<1>2. m.op = "PCB" \/ (m.op \in {"WAIT", "SIGNAL"} /\ m.res # NULL)
  BY <1>1, ConstantesDeCanales DEF MensajesDeLaCpu, Pcbs
<1>3. m.op \in {"WAIT", "SIGNAL"} => esperaRecurso = m.res
  BY <1>1 DEF CpuExclusiva
<1>4. PcbEn(respuestasCpu) = IF m.op = "PCB" THEN 1 ELSE 0
  BY <1>1, PcbEnValores
<1>5. socketCpuDispatch = <<>> /\ respuesta.pc = "recv"
  BY Dialogo
<1> HIDE DEF m
<1>6. CASE m.op = "PCB"
  BY <1>1, <1>4, <1>5, <1>6, FichaUnica DEF m
<1>7. CASE m.op \in {"WAIT", "SIGNAL"}
  BY <1>1, <1>2, <1>3, <1>5, <1>7, FichaUnica DEF m
<1>8. QED BY <1>2, <1>6, <1>7

\* checkResponseOfCpu holds a PCB, or the request of the instruction that waits.
LEMMA EnManos ==
    ASSUME TypeOK, CpuExclusiva, respuesta.pc # "recv"
    PROVE  /\ socketCpuDispatch = <<>> /\ respuestasCpu = <<>>
           /\ sRunningProcess = 0 /\ toExecute # "listo" /\ sCanExecuteInstruction = 0
           /\ respuesta.pc = "pcb" => esperaRecurso = NULL
           /\ respuesta.pc # "pcb"
                => esperaRecurso # NULL /\ esperaRecurso = respuesta.res
<1>1. respuesta.pc # "pcb" => respuesta.res # NULL
  BY ConstantesDeCanales DEF TypeOK, KernelTypeOK, RespuestaTypeOK
<1>2. respuesta.pc # "pcb" => esperaRecurso = respuesta.res
  BY DEF CpuExclusiva
<1>3. socketCpuDispatch = <<>> /\ respuestasCpu = <<>>
  BY Dialogo
<1>4. CASE respuesta.pc = "pcb"
  BY <1>3, <1>4, FichaUnica
<1>5. CASE respuesta.pc # "pcb"
  BY <1>1, <1>2, <1>3, <1>5, FichaUnica
<1>6. QED BY <1>4, <1>5

\* The cases WAIT and SIGNAL change the counts, the lists of resources, the answer
\* and checkResponseOfCpu's locals, and nothing else.
LEMMA PedidoQuieto ==
    ASSUME AtenderPedido
    PROVE  UNCHANGED <<colas, pids, semaforos, ioVars, planVars, mandos, listResourcesPcbs,
                       liberando, devolucion, currentyRunningPcb, crashed,
                       socketCpuInterrupt, contexto>>
<1> USE DEF recursosVars, canales
<1>1. ASSUME NEW op \in {"WAIT", "SIGNAL"}, RecursoDesconocido(op) \/ RecibirPedido(op)
      PROVE  UNCHANGED <<colas, pids, semaforos, ioVars, planVars, mandos,
                         listResourcesPcbs, liberando, devolucion, currentyRunningPcb,
                         crashed, socketCpuInterrupt, contexto>>
  BY <1>1 DEF RecursoDesconocido, RecibirPedido
<1>2. CASE AnotarWait \/ ResponderWait
  BY <1>2 DEF AnotarWait, ResponderWait
<1>3. CASE QuitarSignal \/ ProbarSignal \/ BuscarEnEspera
  BY <1>3 DEF QuitarSignal, ProbarSignal, BuscarEnEspera
<1>4. QED BY <1>1, <1>2, <1>3 DEF AtenderPedido

\* They run while the CPU waits, and send one answer at most.
LEMMA PedidoMensajes ==
    ASSUME TypeOK, CpuExclusiva, AtenderPedido
    PROVE  /\ socketCpuDispatch = <<>> /\ PcbEn(respuestasCpu) = 0 /\ respuestasCpu' = <<>>
           /\ respuesta.pc # "pcb" /\ respuesta'.pc # "pcb"
           /\ esperaRecurso # NULL
           /\ \/ UNCHANGED socketCpuDispatch
              \/ \E op \in Respuestas : Responder(op)
<1>1. ASSUME NEW op \in {"WAIT", "SIGNAL"}, LeerRespuesta(op)
      PROVE  /\ socketCpuDispatch = <<>> /\ PcbEn(respuestasCpu) = 0
             /\ respuestasCpu' = <<>> /\ respuesta.pc = "recv" /\ esperaRecurso # NULL
  BY <1>1, ConRespuesta DEF LeerRespuesta, PcbEn, Si, EsPcb
<1>2. ASSUME NEW op \in {"WAIT", "SIGNAL"}, RecursoDesconocido(op)
      PROVE  /\ socketCpuDispatch = <<>> /\ PcbEn(respuestasCpu) = 0
             /\ respuestasCpu' = <<>> /\ respuesta.pc # "pcb" /\ respuesta'.pc # "pcb"
             /\ esperaRecurso # NULL /\ \E x \in Respuestas : Responder(x)
  BY <1>1, <1>2 DEF RecursoDesconocido, Respuestas
<1>3. ASSUME NEW op \in {"WAIT", "SIGNAL"}, RecibirPedido(op)
      PROVE  /\ socketCpuDispatch = <<>> /\ PcbEn(respuestasCpu) = 0
             /\ respuestasCpu' = <<>> /\ respuesta.pc # "pcb" /\ respuesta'.pc # "pcb"
             /\ esperaRecurso # NULL /\ UNCHANGED socketCpuDispatch
  BY <1>1, <1>3 DEF RecibirPedido
<1>4. ASSUME respuesta.pc \notin {"recv", "pcb"}, UNCHANGED respuestasCpu
      PROVE  /\ socketCpuDispatch = <<>> /\ PcbEn(respuestasCpu) = 0
             /\ respuestasCpu' = <<>> /\ esperaRecurso # NULL
  BY <1>4, EnManos, PcbEnValores
<1>5. CASE AnotarWait \/ QuitarSignal \/ ProbarSignal
  BY <1>4, <1>5, CamposDeRespuesta DEF AnotarWait, QuitarSignal, ProbarSignal, canales
<1>6. CASE ResponderWait
  BY <1>4, <1>6, CamposDeRespuesta DEF ResponderWait, Respuestas
<1>7. CASE BuscarEnEspera
  BY <1>4, <1>7, CamposDeRespuesta DEF BuscarEnEspera, Respuestas
<1>8. QED BY <1>2, <1>3, <1>5, <1>6, <1>7 DEF AtenderPedido

\* The CPU is free or about to be given, or it is between two instructions: the
\* sockets are empty and nobody waits.
LEMMA ConFicha ==
    ASSUME TypeOK, CpuExclusiva,
           sRunningProcess > 0 \/ toExecute = "listo" \/ sCanExecuteInstruction > 0
    PROVE  /\ socketCpuDispatch = <<>> /\ respuestasCpu = <<>> /\ respuesta.pc = "recv"
           /\ esperaRecurso = NULL
           /\ sRunningProcess + sCanExecuteInstruction + Si(toExecute = "listo") = 1
<1>1. socketCpuDispatch = <<>> /\ respuestasCpu = <<>> /\ respuesta.pc = "recv"
  BY ConMensaje, ConRespuesta, EnManos, FichaUnica
<1>2. esperaRecurso = NULL
  BY FichaUnica
<1>3. QED BY <1>1, <1>2, FichaUnica DEF Si

\* A step that leaves the token where it is.
LEMMA FichaQuieta ==
    ASSUME CpuExclusiva,
           UNCHANGED <<sRunningProcess, socketCpuDispatch, respuestasCpu, respuesta,
                       sCanExecuteInstruction, esperaRecurso, pcbExecute>>,
           (toExecute' = "listo") <=> (toExecute = "listo")
    PROVE  CpuExclusiva'
<1>1. FichasDeCpu' = FichasDeCpu
  BY DEF FichasDeCpu, Si, PcbEn, EsPcb
<1>2. QED BY <1>1 DEF CpuExclusiva, Si

-------------------------------------------------------------------------------
(* The steps that move the token, thread by thread. *)

\* runnerProcessToExecute takes the token and sends it with the PCB.
LEMMA ExclusionToExecute ==
    ASSUME TypeOK, CpuExclusiva, PasoDeKernel(ToExecute)
    PROVE  CpuExclusiva'
<1> USE DEF PasoDeKernel, cpuVars
<1>1. CASE PasarPlanExec
  BY <1>1, FichaQuieta DEF PasarPlanExec, semaforos, canales
<1>2. CASE EsperarCpu
  <2>1. /\ socketCpuDispatch = <<>> /\ respuestasCpu = <<>> /\ respuesta.pc = "recv"
        /\ esperaRecurso = NULL /\ sRunningProcess = 1 /\ sCanExecuteInstruction = 0
    BY <1>2, ConFicha, FichaUnica DEF EsperarCpu
  <2>2. /\ UNCHANGED <<socketCpuDispatch, respuestasCpu, respuesta, esperaRecurso,
                       sCanExecuteInstruction>>
        /\ sRunningProcess' = 0 /\ toExecute' = "listo"
    BY <1>2, <2>1 DEF EsperarCpu, canales
  <2>3. QED BY <2>1, <2>2, PcbEnValores DEF CpuExclusiva, FichasDeCpu, Si
<1>3. ASSUME toExecute = "listo", NEW p \in Pids, ExecutePcb(p)
      PROVE  CpuExclusiva'
  <2>1. /\ socketCpuDispatch = <<>> /\ respuestasCpu = <<>> /\ respuesta.pc = "recv"
        /\ esperaRecurso = NULL /\ sRunningProcess = 0 /\ sCanExecuteInstruction = 0
    BY <1>3, ConFicha, FichaUnica
  <2>2. /\ UNCHANGED <<respuestasCpu, respuesta, esperaRecurso, sRunningProcess,
                       sCanExecuteInstruction>>
        /\ toExecute' # "listo"
    BY <1>3 DEF ExecutePcb
  <2>3. socketCpuDispatch' = <<Mensaje("PCB", p, NULL)>>
    BY <1>3, <2>1 DEF ExecutePcb
  <2>4. PcbEn(socketCpuDispatch)' = 1 /\ PcbEn(respuestasCpu)' = 0
    BY <2>1, <2>2, <2>3, PcbEnValores DEF Mensaje
  <2>5. FichasDeCpu' = 1
    BY <2>1, <2>2, <2>4 DEF FichasDeCpu, Si
  <2>6. QED BY <2>1, <2>2, <2>3, <2>5 DEF CpuExclusiva, Si, Mensaje, Respuestas
<1>4. CASE Despachar
  <2>1. PICK p \in Pids : p = Head(queueReadys)
    BY <1>4 DEF Despachar, TypeOK, KernelTypeOK, ColasTypeOK
  <2>2. toExecute = "listo" /\ ExecutePcb(p)
    BY <1>4, <2>1 DEF Despachar, PuedeDespachar, ExecutePcb
  <2>3. QED BY <1>3, <2>2
<1>5. CASE DespacharConPrioridad
  <2>1. PICK p \in Pids : p = Head(queueAux)
    BY <1>5 DEF DespacharConPrioridad, ConPrioridad, TypeOK, KernelTypeOK, ColasTypeOK
  <2>2. toExecute = "listo" /\ ExecutePcb(p)
    BY <1>5, <2>1 DEF DespacharConPrioridad, PuedeDespachar, ExecutePcb
  <2>3. QED BY <1>3, <2>2
<1>6. CASE ContarQuantum
  BY <1>6, FichaQuieta DEF ContarQuantum, semaforos, canales
<1>7. CASE InterrumpirPorQuantum
  BY <1>7, FichaQuieta DEF InterrumpirPorQuantum, semaforos
<1>8. QED BY <1>1, <1>2, <1>4, <1>5, <1>6, <1>7 DEF ToExecute

\* checkResponseOfCpu takes the PCB from the socket, puts it away and posts
\* sRunningProcess; or it answers the request it has read.
LEMMA ExclusionCheckResponseOfCpu ==
    ASSUME TypeOK, CpuExclusiva, PasoDeKernel(CheckResponseOfCpu)
    PROVE  CpuExclusiva'
<1> USE DEF PasoDeKernel, cpuVars
<1>1. CASE PcbDevuelto
  <2>1. /\ respuestasCpu' = <<>> /\ socketCpuDispatch = <<>> /\ sRunningProcess = 0
        /\ toExecute # "listo" /\ sCanExecuteInstruction = 0 /\ esperaRecurso = NULL
    BY <1>1, ConRespuesta DEF PcbDevuelto, LeerRespuesta
  <2>2. /\ UNCHANGED <<socketCpuDispatch, sRunningProcess, toExecute, esperaRecurso,
                       sCanExecuteInstruction>>
        /\ respuesta'.pc = "pcb"
    BY <1>1 DEF PcbDevuelto, semaforos, planVars, EnRecv
  <2>3. QED BY <2>1, <2>2, PcbEnValores DEF CpuExclusiva, FichasDeCpu, Si
<1>2. ASSUME respuesta.pc = "pcb", CpuLibre
      PROVE  CpuExclusiva'
  <2>1. /\ socketCpuDispatch = <<>> /\ respuestasCpu = <<>> /\ sRunningProcess = 0
        /\ toExecute # "listo" /\ sCanExecuteInstruction = 0 /\ esperaRecurso = NULL
    BY <1>2, EnManos
  <2>2. /\ UNCHANGED <<socketCpuDispatch, respuestasCpu, toExecute, esperaRecurso,
                       sCanExecuteInstruction>>
        /\ respuesta'.pc = "recv" /\ sRunningProcess' = 1
    BY <1>2, <2>1 DEF CpuLibre, planVars, canales, EnRecv
  <2>3. QED BY <2>1, <2>2, PcbEnValores DEF CpuExclusiva, FichasDeCpu, Si
<1>3. CASE PcbTermina \/ PcbDesalojado \/ PcbBloqueado
  BY <1>2, <1>3 DEF PcbTermina, PcbDesalojado, PcbBloqueado
<1>4. ASSUME NEW op \in Respuestas, Responder(op), esperaRecurso # NULL,
             socketCpuDispatch = <<>>, respuestasCpu' = <<>>, respuesta'.pc = "recv",
             sRunningProcess = 0, toExecute # "listo", sCanExecuteInstruction = 0,
             UNCHANGED <<sRunningProcess, toExecute>>
      PROVE  CpuExclusiva'
  <2>1. socketCpuDispatch' = <<Mensaje(op, NULL, NULL)>> /\ UNCHANGED esperaRecurso
    BY <1>4 DEF Responder
  <2>2. PcbEn(socketCpuDispatch)' = 0 /\ PcbEn(respuestasCpu)' = 0
    BY <1>4, <2>1, PcbEnValores DEF Mensaje, Respuestas
  <2>3. FichasDeCpu' = 1
    BY <1>4, <2>1, <2>2 DEF FichasDeCpu, Si
  <2>4. Len(socketCpuDispatch') = 1 /\ Len(respuestasCpu') = 0
    BY <1>4, <2>1
  <2>5. QED BY <1>4, <2>1, <2>3, <2>4 DEF CpuExclusiva, Si
\* What is known when a WAIT or a SIGNAL has just been read.
<1>5. ASSUME NEW op \in {"WAIT", "SIGNAL"}, LeerRespuesta(op)
      PROVE  /\ esperaRecurso # NULL /\ esperaRecurso = Head(respuestasCpu).res
             /\ socketCpuDispatch = <<>> /\ respuestasCpu' = <<>>
             /\ respuesta.pc = "recv" /\ sRunningProcess = 0 /\ toExecute # "listo"
             /\ sCanExecuteInstruction = 0
  BY <1>5, ConRespuesta DEF LeerRespuesta
<1>6. ASSUME NEW op \in {"WAIT", "SIGNAL"}, RecursoDesconocido(op)
      PROVE  CpuExclusiva'
  BY <1>4, <1>5, <1>6 DEF RecursoDesconocido, semaforos, planVars, Respuestas
\* The request goes on in checkResponseOfCpu's hands, or is left without an answer.
<1>7. ASSUME socketCpuDispatch = <<>>, respuestasCpu' = <<>>, esperaRecurso # NULL,
             sRunningProcess = 0, toExecute # "listo", sCanExecuteInstruction = 0,
             UNCHANGED <<sRunningProcess, toExecute, socketCpuDispatch>>,
             respuesta'.pc # "pcb",
             respuesta'.pc # "recv" => respuesta'.res = esperaRecurso
      PROVE  CpuExclusiva'
  <2>1. /\ respuestasCpu' = <<>> /\ socketCpuDispatch' = <<>>
        /\ sRunningProcess' = 0 /\ toExecute' # "listo" /\ sCanExecuteInstruction' = 0
        /\ esperaRecurso' # NULL /\ esperaRecurso' = esperaRecurso
    BY <1>7
  <2>2. FichasDeCpu' = 1
    BY <1>7, <2>1, PcbEnValores DEF FichasDeCpu, Si
  <2>3. QED BY <1>7, <2>1, <2>2 DEF CpuExclusiva, Si
<1>8. ASSUME NEW op \in {"WAIT", "SIGNAL"}, RecibirPedido(op)
      PROVE  CpuExclusiva'
  BY <1>5, <1>7, <1>8 DEF RecibirPedido, semaforos, planVars
<1>9. CASE AnotarWait \/ QuitarSignal \/ ProbarSignal
  <2>1. /\ respuesta.pc \notin {"recv", "pcb"}
        /\ UNCHANGED <<sRunningProcess, toExecute, socketCpuDispatch, respuestasCpu>>
        /\ respuesta'.pc # "pcb"
        /\ respuesta'.pc # "recv" => respuesta'.res = respuesta.res
    BY <1>9, CamposDeRespuesta
       DEF AnotarWait, QuitarSignal, ProbarSignal, semaforos, planVars, canales
  <2>2. QED BY <1>7, <2>1, EnManos
<1>10. CASE ResponderWait
  <2>1. /\ respuesta.pc = "responder" /\ respuesta'.pc = "recv"
        /\ UNCHANGED <<sRunningProcess, toExecute, respuestasCpu>>
        /\ Responder("BLOCK") \/ Responder("CONTINUE")
    BY <1>10 DEF ResponderWait, EnRecv, semaforos, planVars
  <2>2. QED BY <1>4, <2>1, EnManos DEF Respuestas
<1>11. CASE BuscarEnEspera
  <2>1. /\ respuesta.pc = "buscar"
        /\ UNCHANGED <<sRunningProcess, toExecute, respuestasCpu>>
        /\ \/ Responder("CONTINUE") /\ respuesta'.pc = "recv"
           \/ /\ respuesta'.pc = "despertar" /\ respuesta'.res = respuesta.res
              /\ UNCHANGED socketCpuDispatch
    BY <1>11, CamposDeRespuesta DEF BuscarEnEspera, semaforos, planVars
  <2>2. QED BY <1>4, <1>7, <2>1, EnManos DEF Respuestas
<1>12. CASE DespertarPorSignal
  <2>1. /\ Responder("CONTINUE") /\ respuesta.pc = "despertar" /\ respuesta'.pc = "recv"
        /\ UNCHANGED <<sRunningProcess, toExecute, respuestasCpu>>
    BY <1>12 DEF DespertarPorSignal, planVars, EnRecv
  <2>2. QED BY <1>4, <2>1, EnManos DEF Respuestas
<1>13. QED BY <1>1, <1>3, <1>6, <1>8, <1>9, <1>10, <1>11, <1>12
          DEF CheckResponseOfCpu, AtenderPedido

\* The other threads of the kernel do not touch the token.
LEMMA ExclusionOtrosHilos ==
    ASSUME CpuExclusiva,
           \/ PasoDeKernel(Consola) \/ PasoDeKernel(ConsolaEnCurso)
           \/ PasoDeKernel(NewToReady) \/ PasoDeKernel(ArrancarIo) \/ PasoDeKernel(Caer)
           \/ \E p \in Pids : PasoDeKernel(IoFunction(p))
           \/ \E i \in Interfaces : PasoDeKernel(Operate(i))
           \/ \E t \in Liberadores : PasoDeKernel(LiberarRecursos(t))
    PROVE  CpuExclusiva'
<1> USE DEF PasoDeKernel, cpuVars, semaforos, planVars, canales
<1> DEFINE Quieta == /\ UNCHANGED <<sRunningProcess, socketCpuDispatch, respuestasCpu,
                                    respuesta, sCanExecuteInstruction, esperaRecurso,
                                    pcbExecute>>
                     /\ (toExecute' = "listo") <=> (toExecute = "listo")
<1>1. CASE PasoDeKernel(Consola)
  <2>1. IniciarProceso => Quieta
    BY <1>1 DEF IniciarProceso
  <2>2. ASSUME NEW b \in BOOLEAN, CambiarPlanificador(b) PROVE Quieta
    BY <1>1, <2>2 DEF CambiarPlanificador
  <2>3. ASSUME NEW v \in Grados, SubirGrado(v) \/ BajarGrado(v) PROVE Quieta
    BY <1>1, <2>3 DEF SubirGrado, BajarGrado
  <2>4. ASSUME NEW p \in Pids, FinalizarProceso(p) PROVE Quieta
    BY <1>1, <2>4 DEF FinalizarProceso
  <2>5. CASE Quieta
    BY <2>5, FichaQuieta
  <2> HIDE DEF Quieta
  <2>6. QED BY <1>1, <2>1, <2>2, <2>3, <2>4, <2>5 DEF Consola
<1>2. CASE PasoDeKernel(ConsolaEnCurso)
  <2>1. Quieta
    BY <1>2 DEF ConsolaEnCurso, CrearRecursosDePid, QuitarLugar, FinalizarEnEjecucion,
       SeguirBuscando, Buscar, FinalizarNew, FinalizarReady, FinalizarAux,
       FinalizarBlocked, Encontrado
  <2>2. QED BY <2>1, FichaQuieta
<1>3. CASE PasoDeKernel(NewToReady)
  <2>1. Quieta
    BY <1>3 DEF NewToReady, EsperarNews, EsperarLugar, PasarPlanNews, MoverAReady
  <2>2. QED BY <2>1, FichaQuieta
<1>4. CASE PasoDeKernel(ArrancarIo) \/ PasoDeKernel(Caer)
  <2>1. Quieta
    BY <1>4 DEF ArrancarIo, Caer
  <2>2. QED BY <2>1, FichaQuieta
<1>5. ASSUME NEW p \in Pids, PasoDeKernel(IoFunction(p))
      PROVE  CpuExclusiva'
  <2>1. Quieta
    BY <1>5 DEF IoFunction, PedirIo, PerderIo, IoSinInterfaz, TerminarIo
  <2>2. QED BY <2>1, FichaQuieta
<1>6. ASSUME NEW i \in Interfaces, PasoDeKernel(Operate(i))
      PROVE  CpuExclusiva'
  <2>1. Quieta
    BY <1>6 DEF Operate, FinishedIo, FinishedIoError
  <2>2. QED BY <2>1, FichaQuieta
<1>7. ASSUME NEW t \in Liberadores, PasoDeKernel(LiberarRecursos(t))
      PROVE  CpuExclusiva'
  <2>1. Quieta
    BY <1>7 DEF LiberarRecursos, QuitarDeLaLista, LiberarUno, BuscarAlLiberar,
       DespertarPorLiberar, TerminarDeLiberar
  <2>2. QED BY <2>1, FichaQuieta
<1>8. QED BY <1>1, <1>2, <1>3, <1>4, <1>5, <1>6, <1>7

\* The CPU receives the PCB: the token goes from the socket to the CPU.
LEMMA ExclusionRecibirPcb ==
    ASSUME TypeOK, CpuExclusiva, PasoDeCpu(RecibirPcb)
    PROVE  CpuExclusiva'
<1>1. /\ socketCpuDispatch' = <<>> /\ respuestasCpu = <<>> /\ respuesta.pc = "recv"
      /\ sRunningProcess = 0 /\ toExecute # "listo" /\ sCanExecuteInstruction = 0
      /\ esperaRecurso = NULL
  BY ConMensaje DEF PasoDeCpu, RecibirPcb
<1>2. /\ UNCHANGED <<respuestasCpu, respuesta, sRunningProcess, toExecute, esperaRecurso>>
      /\ sCanExecuteInstruction' = 1
  BY <1>1 DEF PasoDeCpu, RecibirPcb, kernelVars, semaforos, planVars
<1>3. QED BY <1>1, <1>2, PcbEnValores DEF CpuExclusiva, FichasDeCpu, Si

\* A process leaves the CPU: its PCB takes the token back to the kernel.
LEMMA ExclusionDevolver ==
    ASSUME NEW c, DevolverPcb(c),
           socketCpuDispatch' = <<>>, respuestasCpu = <<>>, respuesta.pc = "recv",
           sRunningProcess = 0, toExecute # "listo",
           sCanExecuteInstruction' = 0, esperaRecurso' = NULL,
           UNCHANGED kernelVars
    PROVE  CpuExclusiva'
<1>1. respuestasCpu' = <<Mensaje("PCB", pcbExecute, NULL)>>
  BY DEF DevolverPcb
<1>2. PcbEn(socketCpuDispatch)' = 0 /\ PcbEn(respuestasCpu)' = 1
  BY <1>1, PcbEnValores DEF Mensaje
<1>3. UNCHANGED <<respuesta, sRunningProcess, toExecute>>
  BY DEF kernelVars, semaforos, planVars
<1>4. FichasDeCpu' = 1
  BY <1>2, <1>3 DEF FichasDeCpu, Si
<1>5. QED BY <1>1, <1>3, <1>4 DEF CpuExclusiva, Si, Mensaje

\* The end of an instruction that does not leave the CPU by itself.
LEMMA ExclusionSondear ==
    ASSUME NEW c, Sondear(c, 0),
           socketCpuDispatch' = <<>>, respuestasCpu = <<>>, respuesta.pc = "recv",
           sRunningProcess = 0, toExecute # "listo", esperaRecurso' = NULL,
           UNCHANGED kernelVars
    PROVE  CpuExclusiva'
<1>1. CASE sInterrupt > 0
  <2>1. PICK d : DevolverPcb(d) /\ sCanExecuteInstruction' = 0
    BY <1>1 DEF Sondear
  <2>2. QED BY <2>1, ExclusionDevolver
<1>2. CASE sInterrupt = 0
  <2>1. respuestasCpu' = <<>> /\ sCanExecuteInstruction' = 1
    BY <1>2 DEF Sondear
  <2>2. UNCHANGED <<respuesta, sRunningProcess, toExecute>>
    BY DEF kernelVars, semaforos, planVars
  <2>3. QED BY <2>1, <2>2, PcbEnValores DEF CpuExclusiva, FichasDeCpu, Si
<1>3. QED BY <1>1, <1>2 DEF Sondear

\* An instruction starts with the token in the CPU and ends with the token in the
\* CPU, in the instruction that waits, or in the PCB that goes back.
LEMMA ExclusionEjecutarInstruccion ==
    ASSUME TypeOK, CpuExclusiva, PasoDeCpu(EjecutarInstruccion)
    PROVE  CpuExclusiva'
<1> USE DEF PasoDeCpu
<1>1. /\ socketCpuDispatch = <<>> /\ respuestasCpu = <<>> /\ respuesta.pc = "recv"
      /\ esperaRecurso = NULL /\ sRunningProcess = 0 /\ toExecute # "listo"
      /\ sCanExecuteInstruction = 1
  <2>1. sCanExecuteInstruction > 0
    BY DEF EjecutarInstruccion, EjecutarComun, EjecutarYSalir, PedirRecurso, PuedeEjecutar
  <2>2. QED BY <2>1, ConFicha, FichaUnica
<1>2. CASE EjecutarComun
  <2>1. Sondear(TrasIncrementarPc, 0) /\ UNCHANGED <<socketCpuDispatch, esperaRecurso>>
    BY <1>1, <1>2 DEF EjecutarComun
  <2>2. QED BY <1>1, <2>1, ExclusionSondear
<1>3. ASSUME NEW k \in {"EXIT", "IO", "ERROR"}, EjecutarYSalir(k)
      PROVE  CpuExclusiva'
  <2>1. PICK d : DevolverPcb(d)
    BY <1>3 DEF EjecutarYSalir
  <2>2. /\ UNCHANGED <<socketCpuDispatch, esperaRecurso>> /\ sCanExecuteInstruction' = 0
    BY <1>1, <1>3 DEF EjecutarYSalir
  <2>3. QED BY <1>1, <2>1, <2>2, ExclusionDevolver
<1>4. ASSUME NEW k \in {"WAIT", "SIGNAL"}, NEW r \in NombresRecursos, PedirRecurso(k, r)
      PROVE  CpuExclusiva'
  <2>1. /\ respuestasCpu' = <<Mensaje(k, pcbExecute, r)>> /\ socketCpuDispatch' = <<>>
        /\ esperaRecurso' = r /\ r # NULL /\ UNCHANGED pcbExecute
        /\ sCanExecuteInstruction' = 0
    BY <1>1, <1>4, ConstantesDeCanales DEF PedirRecurso
  <2>2. UNCHANGED <<respuesta, sRunningProcess, toExecute>>
    BY <1>4 DEF kernelVars, semaforos, planVars
  <2>3. PcbEn(socketCpuDispatch)' = 0 /\ PcbEn(respuestasCpu)' = 0
    BY <2>1, PcbEnValores DEF Mensaje
  <2>4. FichasDeCpu' = 1
    BY <1>1, <2>1, <2>2, <2>3 DEF FichasDeCpu, Si
  <2>5. QED BY <1>1, <2>1, <2>2, <2>4 DEF CpuExclusiva, Si, Mensaje
<1>5. QED BY <1>2, <1>3, <1>4 DEF EjecutarInstruccion

\* The answer gives the token back to the CPU or to the PCB.
LEMMA ExclusionRecibirRespuesta ==
    ASSUME TypeOK, CpuExclusiva, PasoDeCpu(RecibirRespuesta)
    PROVE  CpuExclusiva'
<1> USE DEF PasoDeCpu
<1>1. /\ socketCpuDispatch' = <<>> /\ respuestasCpu = <<>> /\ respuesta.pc = "recv"
      /\ sRunningProcess = 0 /\ toExecute # "listo" /\ sCanExecuteInstruction = 0
      /\ esperaRecurso' = NULL
  BY ConMensaje DEF RecibirRespuesta
<1>2. CASE Sondear(contexto[pcbExecute], sCanExecuteInstruction)
  BY <1>1, <1>2, ExclusionSondear
<1>3. CASE /\ \E d : DevolverPcb(d)
           /\ UNCHANGED <<sInterrupt, sCanExecuteInstruction>>
  <2>1. PICK d : DevolverPcb(d)
    BY <1>3
  <2>2. QED BY <1>1, <1>3, <2>1, ExclusionDevolver
<1>4. RecibirRespuesta
  OBVIOUS
<1>5. QED BY <1>2, <1>3, <1>4, FinDeRespuesta

\* The CPU is free at the start.
LEMMA ExclusionInicial == Init => CpuExclusiva
BY PcbEnValores DEF Init, KernelInit, CpuInit, CanalesInit, CpuExclusiva, FichasDeCpu, Si,
   EnRecv

\* One process in the CPU at a time, and one request or answer on the way: see
\* CpuExclusiva.  It holds whatever the operator, the programs and the interfaces
\* do: the races of the kernel (READY and NEW semaphores, currentyRunningPcb,
\* listBlockeds) never reach the dispatch socket.
THEOREM ExclusionDeLaCpu == Spec => []CpuExclusiva
<1>1. Init => CpuExclusiva
  BY ExclusionInicial
<1>2. TypeOK /\ CpuExclusiva /\ [Next]_vars => CpuExclusiva'
  <2> SUFFICES ASSUME TypeOK, CpuExclusiva, [Next]_vars PROVE CpuExclusiva'
    OBVIOUS
  <2>1. CASE UNCHANGED vars
    BY <2>1, FichaQuieta DEF vars, kernelVars, cpuVars, canales, semaforos, planVars
  <2>2. CASE PasoDeCpu(RecibirInterrupcion)
    BY <2>2, FichaQuieta
       DEF PasoDeCpu, RecibirInterrupcion, kernelVars, semaforos, planVars
  <2>3. CASE Next
    BY <2>2, <2>3, ExclusionToExecute, ExclusionCheckResponseOfCpu, ExclusionOtrosHilos,
       ExclusionRecibirPcb, ExclusionEjecutarInstruccion, ExclusionRecibirRespuesta
       DEF Next
  <2>4. QED BY <2>1, <2>3
<1>3. QED BY <1>1, <1>2, TiposCorrectos, PTL DEF Spec

-------------------------------------------------------------------------------
(* The semaphores of the queues and currentyRunningPcb. *)

\* list_remove_element of an element of the list: one element less.
LEMMA RemoveFirstLargo ==
    ASSUME NEW S, NEW s \in Seq(S), NEW e, Esta(s, e)
    PROVE  Len(RemoveFirst(s, e)) = Len(s) - 1
<1> DEFINE I == {i \in 1 .. Len(s) : s[i] = e}
<1> DEFINE k == Min(I)
<1>1. I \in SUBSET Nat /\ I # {}
  BY DEF Esta
<1>2. k \in 1 .. Len(s)
  BY <1>1, MinDeNaturales
<1>3. RemoveFirst(s, e) = SubSeq(s, 1, k - 1) \o SubSeq(s, k + 1, Len(s))
  BY <1>1 DEF RemoveFirst, RemoveAt, SelectInSeq
<1> HIDE DEF k
<1> DEFINE antes == SubSeq(s, 1, k - 1)
           luego == SubSeq(s, k + 1, Len(s))
<1>4. antes \in Seq(S) /\ Len(antes) = k - 1
  BY <1>2, SubSeqProperties
<1>5. luego \in Seq(S) /\ Len(luego) = Len(s) - k
  BY <1>2, SubSeqProperties
<1> HIDE DEF antes, luego
<1>6. Len(antes \o luego) = Len(antes) + Len(luego)
  BY <1>4, <1>5
<1>7. Len(s) \in Nat /\ k \in Int
  BY <1>2
<1>8. Len(antes \o luego) = Len(s) - 1
  BY <1>4, <1>5, <1>6, <1>7
<1>9. RemoveFirst(s, e) = antes \o luego
  BY <1>3 DEF antes, luego
<1>10. QED BY <1>8, <1>9

\* The lengths of the queues are naturals.
LEMMA LargosDeColas ==
    ASSUME ColasTypeOK
    PROVE  /\ Len(queueNews) \in Nat /\ Len(queueReadys) \in Nat
           /\ Len(queueAux) \in Nat /\ Len(listBlockeds) \in Nat
BY DEF ColasTypeOK

\* queue_push, list_add: one element more.
LEMMA LargoTrasAppend ==
    ASSUME NEW S, NEW s \in Seq(S), NEW e
    PROVE  Len(Append(s, e)) = Len(s) + 1
OBVIOUS

\* queue_pop of a queue that is not empty: one element less.
LEMMA LargoTrasTail ==
    ASSUME NEW S, NEW s \in Seq(S), s # <<>>
    PROVE  Len(Tail(s)) = Len(s) - 1 /\ Len(s) > 0
OBVIOUS

\* The waiter that list_find picks is in listBlockeds.
LEMMA PrimeroEsta ==
    ASSUME ColasTypeOK, NEW r, Esperan(r) # {}
    PROVE  Esta(listBlockeds, PrimeroQueEspera(r))
<1>1. Esperan(r) \in SUBSET Nat /\ Esperan(r) \subseteq DOMAIN listBlockeds
  BY DEF Esperan, ColasTypeOK
<1>2. Min(Esperan(r)) \in DOMAIN listBlockeds
  BY <1>1, MinDeNaturales
<1>3. QED BY <1>2 DEF PrimeroQueEspera, Esta

\* desblockPcb moves one process from listBlockeds to READY and counts it.
LEMMA DesblockMueve ==
    ASSUME ColasTypeOK, SemaforosTypeOK, NEW p, Esta(listBlockeds, p), DesblockPcb(p)
    PROVE  /\ Len(listBlockeds') = Len(listBlockeds) - 1
           /\ Len(queueReadys') + Len(queueAux') = Len(queueReadys) + Len(queueAux) + 1
           /\ sQueueReadysAvaiable' = sQueueReadysAvaiable + 1
<1>1. Len(listBlockeds') = Len(listBlockeds) - 1
  BY RemoveFirstLargo DEF DesblockPcb, ColasTypeOK
<1>2. Len(queueReadys') + Len(queueAux') = Len(queueReadys) + Len(queueAux) + 1
  <2>1. queueReadys \in Seq(Pids) /\ queueAux \in Seq(Pids)
    BY DEF ColasTypeOK
  <2>2. CASE chosenPlanner = "VRR" /\ contexto[p].quantum < Quantum
    <3>1. queueAux' = Append(queueAux, p) /\ queueReadys' = queueReadys
      BY <2>2 DEF DesblockPcb
    <3>2. QED BY <2>1, <3>1, LargosDeColas, LargoTrasAppend
  <2>3. CASE ~(chosenPlanner = "VRR" /\ contexto[p].quantum < Quantum)
    <3>1. queueReadys' = Append(queueReadys, p) /\ queueAux' = queueAux
      BY <2>3 DEF DesblockPcb
    <3>2. QED BY <2>1, <3>1, LargosDeColas, LargoTrasAppend
  <2>4. QED BY <2>2, <2>3
<1>3. QED BY <1>1, <1>2 DEF DesblockPcb

-------------------------------------------------------------------------------
(* currentyRunningPcb. *)

\* A step that moves no PCB to or from the CPU.
LEMMA CorreQuieto ==
    ASSUME CurrentEsElQueCorre,
           UNCHANGED <<socketCpuDispatch, respuestasCpu, sCanExecuteInstruction,
                       esperaRecurso, pcbExecute, currentyRunningPcb>>
    PROVE  CurrentEsElQueCorre'
BY DEF CurrentEsElQueCorre, EnLaCpu, PcbEn, EsPcb, CpuOcupada, Si

\* The places of a PCB while there is one in the CPU or none: the sockets carry
\* one message or none, and at most one of the three places has a PCB.
LEMMA CorreSegun ==
    ASSUME NEW d, NEW r, d = <<>> \/ d = <<Head(d)>>, r = <<>> \/ r = <<Head(r)>>,
           d = socketCpuDispatch', r = respuestasCpu',
           PcbEn(d) + Si(CpuOcupada') + PcbEn(r) = Si(currentyRunningPcb' # NULL),
           PcbEn(d) = 1 => Head(d).pid = currentyRunningPcb',
           PcbEn(r) = 1 => Head(r).pid = currentyRunningPcb',
           CpuOcupada' => pcbExecute' = currentyRunningPcb'
    PROVE  CurrentEsElQueCorre'
<1>1. EnLaCpu' = Si(currentyRunningPcb' # NULL)
  BY DEF EnLaCpu, PcbEn, Si, EsPcb
<1>2. ASSUME NEW canal \in {d, r}, NEW i \in DOMAIN canal, EsPcb(canal[i])
      PROVE  canal[i].pid = currentyRunningPcb'
  <2>1. canal = <<Head(canal)>>
    BY <1>2
  <2>2. i = 1 /\ canal[i] = Head(canal)
    BY <1>2, <2>1
  <2>3. PcbEn(canal) = 1
    BY <1>2, <2>1, <2>2 DEF PcbEn, Si
  <2>4. QED BY <1>2, <2>2, <2>3
<1>3. QED BY <1>1, <1>2 DEF CurrentEsElQueCorre, EsPcb, Si

\* executePcb writes currentyRunningPcb and sends the PCB; the CPU is empty.
LEMMA CorreToExecute ==
    ASSUME TypeOK, CpuExclusiva, CurrentEsElQueCorre, PasoDeKernel(ToExecute)
    PROVE  CurrentEsElQueCorre'
<1> USE DEF PasoDeKernel, cpuVars
<1>1. CASE PasarPlanExec \/ EsperarCpu \/ ContarQuantum \/ InterrumpirPorQuantum
  BY <1>1, CorreQuieto
     DEF PasarPlanExec, EsperarCpu, ContarQuantum, InterrumpirPorQuantum, canales
<1>2. ASSUME toExecute = "listo", NEW p \in Pids, ExecutePcb(p)
      PROVE  CurrentEsElQueCorre'
  <2>1. /\ socketCpuDispatch = <<>> /\ respuestasCpu = <<>>
        /\ esperaRecurso = NULL /\ sCanExecuteInstruction = 0
    BY <1>2, ConFicha, FichaUnica
  <2>2. /\ socketCpuDispatch' = <<Mensaje("PCB", p, NULL)>> /\ respuestasCpu' = <<>>
        /\ currentyRunningPcb' = p
    BY <1>2, <2>1 DEF ExecutePcb
  <2>3. PcbEn(socketCpuDispatch') = 1 /\ PcbEn(respuestasCpu') = 0
    BY <2>2, PcbEnValores DEF Mensaje
  <2>4. Head(socketCpuDispatch') = Mensaje("PCB", p, NULL)
    BY <2>2
  <2>5. ~CpuOcupada'
    BY <2>1 DEF CpuOcupada
  <2>6. p # NULL
    BY ConstantesDeCanales DEF Pids
  <2>7. QED BY <2>2, <2>3, <2>4, <2>5, <2>6, CorreSegun DEF Si, Mensaje
<1>3. CASE Despachar
  <2>1. PICK p \in Pids : p = Head(queueReadys)
    BY <1>3 DEF Despachar, TypeOK, KernelTypeOK, ColasTypeOK
  <2>2. toExecute = "listo" /\ ExecutePcb(p)
    BY <1>3, <2>1 DEF Despachar, PuedeDespachar, ExecutePcb
  <2>3. QED BY <1>2, <2>2
<1>4. CASE DespacharConPrioridad
  <2>1. PICK p \in Pids : p = Head(queueAux)
    BY <1>4 DEF DespacharConPrioridad, ConPrioridad, TypeOK, KernelTypeOK, ColasTypeOK
  <2>2. toExecute = "listo" /\ ExecutePcb(p)
    BY <1>4, <2>1 DEF DespacharConPrioridad, PuedeDespachar, ExecutePcb
  <2>3. QED BY <1>2, <2>2
<1>5. QED BY <1>1, <1>3, <1>4 DEF ToExecute

\* checkResponseOfCpu clears it when it takes the PCB from the socket; an answer
\* to WAIT or SIGNAL is no PCB.
LEMMA CorreCheckResponseOfCpu ==
    ASSUME TypeOK, CpuExclusiva, CurrentEsElQueCorre, PasoDeKernel(CheckResponseOfCpu)
    PROVE  CurrentEsElQueCorre'
<1> USE DEF PasoDeKernel, cpuVars
<1>1. CASE PcbDevuelto
  <2>1. /\ respuestasCpu' = <<>> /\ socketCpuDispatch' = <<>> /\ currentyRunningPcb' = NULL
        /\ sCanExecuteInstruction = 0 /\ esperaRecurso = NULL
    BY <1>1, ConRespuesta DEF PcbDevuelto, LeerRespuesta
  <2>2. ~CpuOcupada'
    BY <1>1, <2>1 DEF CpuOcupada
  <2>3. QED BY <2>1, <2>2, PcbEnValores, CorreSegun DEF Si
<1>2. CASE PcbTermina \/ PcbDesalojado \/ PcbBloqueado
  <2>1. CpuLibre
    BY <1>2 DEF PcbTermina, PcbDesalojado, PcbBloqueado
  <2>2. QED BY <2>1, CorreQuieto DEF CpuLibre, canales
\* The kernel reads or holds a request, and sends an answer or nothing.
<1>3. ASSUME socketCpuDispatch = <<>>, PcbEn(respuestasCpu) = 0, respuestasCpu' = <<>>,
             \/ UNCHANGED socketCpuDispatch
             \/ \E op \in Respuestas : Responder(op),
             UNCHANGED currentyRunningPcb
      PROVE  CurrentEsElQueCorre'
  <2>1. Si(CpuOcupada) = Si(currentyRunningPcb # NULL)
        /\ (CpuOcupada => pcbExecute = currentyRunningPcb)
    BY <1>3, PcbEnValores DEF CurrentEsElQueCorre, EnLaCpu, Si
  <2>2. UNCHANGED <<CpuOcupada, pcbExecute>>
    BY <1>3 DEF CpuOcupada
  <2>3. \/ socketCpuDispatch' = <<>>
        \/ \E op \in Respuestas : socketCpuDispatch' = <<Mensaje(op, NULL, NULL)>>
    BY <1>3 DEF Responder
  <2>4. PcbEn(socketCpuDispatch') = 0 /\ PcbEn(respuestasCpu') = 0
    BY <1>3, <2>3, PcbEnValores DEF Mensaje, Respuestas
  <2>5. socketCpuDispatch' = <<>> \/ socketCpuDispatch' = <<Head(socketCpuDispatch')>>
    BY <2>3
  <2>6. QED BY <1>3, <2>1, <2>2, <2>4, <2>5, CorreSegun DEF Si
<1>4. CASE AtenderPedido
  BY <1>3, <1>4, PedidoMensajes, PedidoQuieto
<1>5. CASE DespertarPorSignal
  <2>1. socketCpuDispatch = <<>> /\ respuestasCpu = <<>>
    BY <1>5, EnManos DEF DespertarPorSignal
  <2>2. Responder("CONTINUE") /\ respuestasCpu' = <<>> /\ UNCHANGED currentyRunningPcb
    BY <1>5, <2>1 DEF DespertarPorSignal
  <2>3. QED BY <1>3, <2>1, <2>2, PcbEnValores DEF Respuestas
<1>6. QED BY <1>1, <1>2, <1>4, <1>5 DEF CheckResponseOfCpu

\* The other threads of the kernel read it and do not write it.
LEMMA CorreOtrosHilos ==
    ASSUME CurrentEsElQueCorre,
           \/ PasoDeKernel(Consola) \/ PasoDeKernel(ConsolaEnCurso)
           \/ PasoDeKernel(NewToReady) \/ PasoDeKernel(ArrancarIo) \/ PasoDeKernel(Caer)
           \/ \E p \in Pids : PasoDeKernel(IoFunction(p))
           \/ \E i \in Interfaces : PasoDeKernel(Operate(i))
           \/ \E t \in Liberadores : PasoDeKernel(LiberarRecursos(t))
    PROVE  CurrentEsElQueCorre'
<1> USE DEF PasoDeKernel, cpuVars, canales
<1> DEFINE Quieta == UNCHANGED <<socketCpuDispatch, respuestasCpu, sCanExecuteInstruction,
                                 esperaRecurso, pcbExecute, currentyRunningPcb>>
<1>1. CASE PasoDeKernel(Consola)
  <2>1. IniciarProceso => Quieta
    BY <1>1 DEF IniciarProceso
  <2>2. ASSUME NEW b \in BOOLEAN, CambiarPlanificador(b) PROVE Quieta
    BY <1>1, <2>2 DEF CambiarPlanificador
  <2>3. ASSUME NEW v \in Grados, SubirGrado(v) \/ BajarGrado(v) PROVE Quieta
    BY <1>1, <2>3 DEF SubirGrado, BajarGrado
  <2>4. ASSUME NEW p \in Pids, FinalizarProceso(p) PROVE Quieta
    BY <1>1, <2>4 DEF FinalizarProceso
  <2>5. CASE Quieta
    BY <2>5, CorreQuieto
  <2> HIDE DEF Quieta
  <2>6. QED BY <1>1, <2>1, <2>2, <2>3, <2>4, <2>5 DEF Consola
<1>2. CASE PasoDeKernel(ConsolaEnCurso)
  <2>1. Quieta
    BY <1>2 DEF ConsolaEnCurso, CrearRecursosDePid, QuitarLugar, FinalizarEnEjecucion,
       SeguirBuscando, Buscar, FinalizarNew, FinalizarReady, FinalizarAux, FinalizarBlocked,
       Encontrado
  <2>2. QED BY <2>1, CorreQuieto
<1>3. CASE PasoDeKernel(NewToReady) \/ PasoDeKernel(ArrancarIo) \/ PasoDeKernel(Caer)
  <2>1. Quieta
    BY <1>3 DEF NewToReady, EsperarNews, EsperarLugar, PasarPlanNews, MoverAReady,
       ArrancarIo, Caer
  <2>2. QED BY <2>1, CorreQuieto
<1>4. ASSUME NEW p \in Pids, PasoDeKernel(IoFunction(p))
      PROVE  CurrentEsElQueCorre'
  <2>1. Quieta
    BY <1>4 DEF IoFunction, PedirIo, PerderIo, IoSinInterfaz, TerminarIo
  <2>2. QED BY <2>1, CorreQuieto
<1>5. ASSUME NEW i \in Interfaces, PasoDeKernel(Operate(i))
      PROVE  CurrentEsElQueCorre'
  <2>1. Quieta
    BY <1>5 DEF Operate, FinishedIo, FinishedIoError
  <2>2. QED BY <2>1, CorreQuieto
<1>6. ASSUME NEW t \in Liberadores, PasoDeKernel(LiberarRecursos(t))
      PROVE  CurrentEsElQueCorre'
  <2>1. Quieta
    BY <1>6 DEF LiberarRecursos, QuitarDeLaLista, LiberarUno, BuscarAlLiberar,
       DespertarPorLiberar, TerminarDeLiberar
  <2>2. QED BY <2>1, CorreQuieto
<1>7. QED BY <1>1, <1>2, <1>3, <1>4, <1>5, <1>6

\* The CPU takes the PCB from the socket.
LEMMA CorreRecibirPcb ==
    ASSUME TypeOK, CpuExclusiva, CurrentEsElQueCorre, PasoDeCpu(RecibirPcb)
    PROVE  CurrentEsElQueCorre'
<1> DEFINE m == Head(socketCpuDispatch)
<1>1. /\ socketCpuDispatch = <<m>> /\ socketCpuDispatch' = <<>> /\ respuestasCpu = <<>>
      /\ sCanExecuteInstruction = 0 /\ esperaRecurso = NULL /\ m.op = "PCB"
  BY ConMensaje DEF PasoDeCpu, RecibirPcb
<1>2. 1 \in DOMAIN socketCpuDispatch /\ socketCpuDispatch[1] = m
  BY <1>1
<1>3. PcbEn(socketCpuDispatch) = 1 /\ PcbEn(respuestasCpu) = 0 /\ ~CpuOcupada
  BY <1>1, PcbEnValores DEF CpuOcupada
<1>4. currentyRunningPcb # NULL /\ m.pid = currentyRunningPcb
  BY <1>1, <1>2, <1>3 DEF CurrentEsElQueCorre, EnLaCpu, Si, EsPcb
<1> HIDE DEF m
<1>5. /\ UNCHANGED <<respuestasCpu, currentyRunningPcb>>
      /\ pcbExecute' = m.pid /\ sCanExecuteInstruction' = 1
  BY <1>1 DEF PasoDeCpu, RecibirPcb, kernelVars, m
<1>6. CpuOcupada'
  BY <1>5 DEF CpuOcupada
<1>7. QED BY <1>1, <1>4, <1>5, <1>6, PcbEnValores, CorreSegun DEF Si

\* What CurrentEsElQueCorre says of a process that is in the CPU.
LEMMA EnPcbExecute ==
    ASSUME TypeOK, CurrentEsElQueCorre, CpuOcupada
    PROVE  currentyRunningPcb # NULL /\ pcbExecute = currentyRunningPcb
<1>1. pcbExecute \in Pids /\ pcbExecute # NULL
  BY ConstantesDeCanales DEF TypeOK, CpuTypeOK, Pids
<1>2. QED BY <1>1 DEF CurrentEsElQueCorre

\* The process goes back in its PCB.
LEMMA CorreDevolver ==
    ASSUME NEW c, DevolverPcb(c), currentyRunningPcb # NULL,
           pcbExecute = currentyRunningPcb, socketCpuDispatch' = <<>>, respuestasCpu = <<>>,
           sCanExecuteInstruction' = 0, esperaRecurso' = NULL,
           UNCHANGED <<pcbExecute, currentyRunningPcb>>
    PROVE  CurrentEsElQueCorre'
<1>1. respuestasCpu' = <<Mensaje("PCB", pcbExecute, NULL)>>
  BY DEF DevolverPcb
<1>2. /\ PcbEn(respuestasCpu') = 1 /\ Head(respuestasCpu').pid = pcbExecute
      /\ respuestasCpu' = <<Head(respuestasCpu')>>
  BY <1>1, PcbEnValores DEF Mensaje
<1>3. ~CpuOcupada'
  BY DEF CpuOcupada
<1>4. PcbEn(socketCpuDispatch') = 0
  BY PcbEnValores
<1>5. QED BY <1>2, <1>3, <1>4, CorreSegun DEF Si

\* The process stays in the CPU; what is on the socket, if anything, is a request.
LEMMA CorreSigue ==
    ASSUME NEW r, r = respuestasCpu', r = <<>> \/ (r = <<Head(r)>> /\ Head(r).op # "PCB"),
           currentyRunningPcb # NULL, pcbExecute = currentyRunningPcb,
           socketCpuDispatch' = <<>>, CpuOcupada',
           UNCHANGED <<pcbExecute, currentyRunningPcb>>
    PROVE  CurrentEsElQueCorre'
<1>1. PcbEn(r) = 0 /\ PcbEn(socketCpuDispatch') = 0
  BY PcbEnValores
<1>2. QED BY <1>1, CorreSegun DEF Si

\* The end of an instruction that does not leave the CPU by itself.
LEMMA CorreSondear ==
    ASSUME NEW c, Sondear(c, 0), currentyRunningPcb # NULL,
           pcbExecute = currentyRunningPcb, socketCpuDispatch' = <<>>, respuestasCpu = <<>>,
           esperaRecurso' = NULL, UNCHANGED <<pcbExecute, currentyRunningPcb>>
    PROVE  CurrentEsElQueCorre'
<1>1. CASE sInterrupt > 0
  <2>1. PICK d : DevolverPcb(d) /\ sCanExecuteInstruction' = 0
    BY <1>1 DEF Sondear
  <2>2. QED BY <2>1, CorreDevolver
<1>2. CASE sInterrupt = 0
  <2>1. respuestasCpu' = <<>> /\ sCanExecuteInstruction' = 1
    BY <1>2 DEF Sondear
  <2>2. CpuOcupada'
    BY <2>1 DEF CpuOcupada
  <2>3. QED BY <2>1, <2>2, CorreSigue
<1>3. QED BY <1>1, <1>2 DEF Sondear

\* An instruction keeps the process in the CPU or sends its PCB back.
LEMMA CorreEjecutarInstruccion ==
    ASSUME TypeOK, CpuExclusiva, CurrentEsElQueCorre, PasoDeCpu(EjecutarInstruccion)
    PROVE  CurrentEsElQueCorre'
<1> USE DEF PasoDeCpu
<1>1. sCanExecuteInstruction > 0 /\ UNCHANGED pcbExecute
  BY DEF EjecutarInstruccion, EjecutarComun, EjecutarYSalir, PedirRecurso, PuedeEjecutar
<1>2. /\ socketCpuDispatch = <<>> /\ respuestasCpu = <<>> /\ esperaRecurso = NULL
      /\ sCanExecuteInstruction = 1
  BY <1>1, ConFicha, FichaUnica
<1>3. currentyRunningPcb # NULL /\ pcbExecute = currentyRunningPcb
  BY <1>1, EnPcbExecute DEF CpuOcupada
<1>4. UNCHANGED currentyRunningPcb
  BY DEF kernelVars
<1>5. CASE EjecutarComun
  <2>1. Sondear(TrasIncrementarPc, 0) /\ UNCHANGED <<socketCpuDispatch, esperaRecurso>>
    BY <1>2, <1>5 DEF EjecutarComun
  <2>2. QED BY <1>1, <1>2, <1>3, <1>4, <2>1, CorreSondear
<1>6. ASSUME NEW k \in {"EXIT", "IO", "ERROR"}, EjecutarYSalir(k)
      PROVE  CurrentEsElQueCorre'
  <2>1. PICK d : DevolverPcb(d)
    BY <1>6 DEF EjecutarYSalir
  <2>2. /\ UNCHANGED <<socketCpuDispatch, esperaRecurso>> /\ sCanExecuteInstruction' = 0
    BY <1>2, <1>6 DEF EjecutarYSalir
  <2>3. QED BY <1>1, <1>2, <1>3, <1>4, <2>1, <2>2, CorreDevolver
<1>7. ASSUME NEW k \in {"WAIT", "SIGNAL"}, NEW r \in NombresRecursos, PedirRecurso(k, r)
      PROVE  CurrentEsElQueCorre'
  <2>1. /\ respuestasCpu' = <<Mensaje(k, pcbExecute, r)>> /\ socketCpuDispatch' = <<>>
        /\ esperaRecurso' = r /\ r # NULL
    BY <1>2, <1>7, ConstantesDeCanales DEF PedirRecurso
  <2>2. respuestasCpu' = <<Head(respuestasCpu')>> /\ Head(respuestasCpu').op # "PCB"
    BY <2>1 DEF Mensaje
  <2>3. CpuOcupada'
    BY <2>1 DEF CpuOcupada
  <2>4. QED BY <1>1, <1>3, <1>4, <2>1, <2>2, <2>3, CorreSigue
<1>8. QED BY <1>5, <1>6, <1>7 DEF EjecutarInstruccion

\* So does the answer to a WAIT or a SIGNAL.
LEMMA CorreRecibirRespuesta ==
    ASSUME TypeOK, CpuExclusiva, CurrentEsElQueCorre, PasoDeCpu(RecibirRespuesta)
    PROVE  CurrentEsElQueCorre'
<1> USE DEF PasoDeCpu
<1>1. /\ socketCpuDispatch' = <<>> /\ respuestasCpu = <<>> /\ sCanExecuteInstruction = 0
      /\ esperaRecurso # NULL /\ esperaRecurso' = NULL /\ UNCHANGED pcbExecute
  BY ConMensaje DEF RecibirRespuesta
<1>2. currentyRunningPcb # NULL /\ pcbExecute = currentyRunningPcb
  BY <1>1, EnPcbExecute DEF CpuOcupada
<1>3. UNCHANGED currentyRunningPcb
  BY DEF kernelVars
<1>4. CASE Sondear(contexto[pcbExecute], sCanExecuteInstruction)
  BY <1>1, <1>2, <1>3, <1>4, CorreSondear
<1>5. CASE /\ \E d : DevolverPcb(d)
           /\ UNCHANGED <<sInterrupt, sCanExecuteInstruction>>
  <2>1. PICK d : DevolverPcb(d)
    BY <1>5
  <2>2. QED BY <1>1, <1>2, <1>3, <1>5, <2>1, CorreDevolver
<1>6. RecibirRespuesta
  OBVIOUS
<1>7. QED BY <1>4, <1>5, <1>6, FinDeRespuesta

\* currentyRunningPcb names the process that has the CPU, from executePcb until
\* checkResponseOfCpu has its PCB back, and is NULL the rest of the time: see
\* CurrentEsElQueCorre.  It rests on the exclusion of the CPU, and no command,
\* program or interface breaks it.
THEOREM CurrentDelQueCorre == Spec => []CurrentEsElQueCorre
<1>1. Init => CurrentEsElQueCorre
  BY PcbEnValores
     DEF Init, KernelInit, CpuInit, CanalesInit, CurrentEsElQueCorre, EnLaCpu, Si, CpuOcupada
<1>2. TypeOK /\ CpuExclusiva /\ CurrentEsElQueCorre /\ [Next]_vars => CurrentEsElQueCorre'
  <2> SUFFICES ASSUME TypeOK, CpuExclusiva, CurrentEsElQueCorre, [Next]_vars
               PROVE  CurrentEsElQueCorre'
    OBVIOUS
  <2>1. CASE UNCHANGED vars
    BY <2>1, CorreQuieto DEF vars, kernelVars, cpuVars, canales
  <2>2. CASE PasoDeCpu(RecibirInterrupcion)
    BY <2>2, CorreQuieto DEF PasoDeCpu, RecibirInterrupcion, kernelVars
  <2>3. CASE Next
    BY <2>2, <2>3, CorreToExecute, CorreCheckResponseOfCpu, CorreOtrosHilos,
       CorreRecibirPcb, CorreEjecutarInstruccion, CorreRecibirRespuesta
       DEF Next
  <2>4. QED BY <2>1, <2>3
<1>3. QED BY <1>1, <1>2, TiposCorrectos, ExclusionDeLaCpu, PTL DEF Spec

-------------------------------------------------------------------------------
(* The semaphores that count NEW and READY. *)

\* A step that touches neither the queues nor what counts them.
LEMMA ColasQuietas ==
    ASSUME SemaforosDeColas,
           UNCHANGED <<queueNews, queueReadys, queueAux, sQueueNewsAvaiable,
                       sQueueReadysAvaiable>>,
           (newToReady' = "news") <=> (newToReady = "news")
    PROVE  SemaforosDeColas'
BY DEF SemaforosDeColas, ReadyComoCantidad, Si

\* desblockPcb pushes into READY, with priority or without, and posts.
LEMMA ColasTrasDesblock ==
    ASSUME TypeOK, SemaforosDeColas, NEW p, Esta(listBlockeds, p), DesblockPcb(p),
           UNCHANGED <<queueNews, sQueueNewsAvaiable, newToReady>>
    PROVE  SemaforosDeColas'
<1>1. /\ Len(queueReadys') + Len(queueAux') = Len(queueReadys) + Len(queueAux) + 1
      /\ sQueueReadysAvaiable' = sQueueReadysAvaiable + 1
  BY DesblockMueve DEF TypeOK, KernelTypeOK
<1>2. QED BY <1>1 DEF SemaforosDeColas, ReadyComoCantidad, Si

\* runnerProcessNewToReady takes a unit of NEW before it pops, and posts READY.
LEMMA ColasNewToReady ==
    ASSUME TypeOK, SemaforosDeColas, PasoDeKernel(NewToReady)
    PROVE  SemaforosDeColas'
<1> USE DEF PasoDeKernel
<1>1. /\ queueNews \in Seq(Pids) /\ queueReadys \in Seq(Pids) /\ queueAux \in Seq(Pids)
      /\ Len(queueNews) \in Nat /\ Len(queueReadys) \in Nat /\ Len(queueAux) \in Nat
      /\ sQueueNewsAvaiable \in Nat /\ sQueueReadysAvaiable \in Nat
  BY LargosDeColas DEF TypeOK, KernelTypeOK, ColasTypeOK, SemaforosTypeOK
<1>2. CASE EsperarNews
  BY <1>1, <1>2 DEF EsperarNews, colas, SemaforosDeColas, ReadyComoCantidad, Si
<1>3. CASE EsperarLugar \/ PasarPlanNews
  BY <1>3, ColasQuietas DEF EsperarLugar, PasarPlanNews, colas, semaforos
<1>4. CASE MoverAReady
  <2>1. /\ Len(queueNews') = Len(queueNews) - 1
        /\ Len(queueReadys') = Len(queueReadys) + 1
    BY <1>1, <1>4, LargoTrasTail, LargoTrasAppend DEF MoverAReady
  <2>2. /\ newToReady = "mover" /\ newToReady' = "news"
        /\ UNCHANGED <<queueAux, sQueueNewsAvaiable>>
        /\ sQueueReadysAvaiable' = sQueueReadysAvaiable + 1
    BY <1>4 DEF MoverAReady
  <2>3. QED BY <1>1, <2>1, <2>2 DEF SemaforosDeColas, ReadyComoCantidad, Si
<1>5. QED BY <1>2, <1>3, <1>4 DEF NewToReady

\* runnerProcessToExecute takes a unit with each process it pops.
LEMMA ColasToExecute ==
    ASSUME TypeOK, SemaforosDeColas, PasoDeKernel(ToExecute)
    PROVE  SemaforosDeColas'
<1> USE DEF PasoDeKernel
<1>1. /\ queueReadys \in Seq(Pids) /\ queueAux \in Seq(Pids)
      /\ Len(queueReadys) \in Nat /\ Len(queueAux) \in Nat
      /\ sQueueReadysAvaiable \in Nat
  BY LargosDeColas DEF TypeOK, KernelTypeOK, ColasTypeOK, SemaforosTypeOK
<1>2. CASE PasarPlanExec \/ EsperarCpu \/ ContarQuantum \/ InterrumpirPorQuantum
  BY <1>2, ColasQuietas
     DEF PasarPlanExec, EsperarCpu, ContarQuantum, InterrumpirPorQuantum, colas, semaforos
<1>3. CASE Despachar
  <2>1. Len(queueReadys') = Len(queueReadys) - 1
    BY <1>1, <1>3, LargoTrasTail DEF Despachar
  <2>2. /\ UNCHANGED <<queueNews, queueAux, sQueueNewsAvaiable, newToReady>>
        /\ sQueueReadysAvaiable' = sQueueReadysAvaiable - 1
    BY <1>3 DEF Despachar, ExecutePcb
  <2>3. QED BY <1>1, <2>1, <2>2 DEF SemaforosDeColas, ReadyComoCantidad, Si
<1>4. CASE DespacharConPrioridad
  <2>1. Len(queueAux') = Len(queueAux) - 1
    BY <1>1, <1>4, LargoTrasTail DEF DespacharConPrioridad, ConPrioridad
  <2>2. /\ UNCHANGED <<queueNews, queueReadys, sQueueNewsAvaiable, newToReady>>
        /\ sQueueReadysAvaiable' = sQueueReadysAvaiable - 1
    BY <1>4 DEF DespacharConPrioridad, ExecutePcb
  <2>3. QED BY <1>1, <2>1, <2>2 DEF SemaforosDeColas, ReadyComoCantidad, Si
<1>5. QED BY <1>2, <1>3, <1>4 DEF ToExecute

\* checkResponseOfCpu posts with each process it pushes.
LEMMA ColasCheckResponseOfCpu ==
    ASSUME TypeOK, SemaforosDeColas, PasoDeKernel(CheckResponseOfCpu)
    PROVE  SemaforosDeColas'
<1> USE DEF PasoDeKernel
<1>1. CASE PcbDesalojado
  <2>1. queueReadys \in Seq(Pids) /\ Len(queueReadys) \in Nat /\ Len(queueAux) \in Nat
    BY LargosDeColas DEF TypeOK, KernelTypeOK, ColasTypeOK
  <2>2. Len(queueReadys') = Len(queueReadys) + 1
    BY <1>1, <2>1, LargoTrasAppend DEF PcbDesalojado
  <2>3. /\ UNCHANGED <<queueNews, queueAux, sQueueNewsAvaiable, newToReady>>
        /\ sQueueReadysAvaiable' = sQueueReadysAvaiable + 1
    BY <1>1 DEF PcbDesalojado, CpuLibre, planVars
  <2>4. QED BY <2>1, <2>2, <2>3 DEF SemaforosDeColas, ReadyComoCantidad, Si
<1>2. CASE PcbDevuelto \/ PcbTermina \/ PcbBloqueado
  BY <1>2, ColasQuietas
     DEF PcbDevuelto, PcbTermina, PcbBloqueado, CpuLibre, colas, semaforos, planVars
<1>3. CASE AtenderPedido
  BY <1>3, PedidoQuieto, ColasQuietas DEF colas, semaforos, planVars
<1>4. CASE DespertarPorSignal
  <2>1. PICK p : DesblockPcb(p) /\ Esta(listBlockeds, p)
    BY <1>4, PrimeroEsta DEF DespertarPorSignal, TypeOK, KernelTypeOK
  <2>2. UNCHANGED <<queueNews, sQueueNewsAvaiable, newToReady>>
    BY <1>4 DEF DespertarPorSignal, planVars
  <2>3. QED BY <2>1, <2>2, ColasTrasDesblock
<1>5. QED BY <1>1, <1>2, <1>3, <1>4 DEF CheckResponseOfCpu

\* createPcb posts with the process it pushes; finishProcess takes a process out
\* of NEW or READY only with two of the commands, and only while it searches.
LEMMA ColasConsola ==
    ASSUME TypeOK, SemaforosDeColas,
           \/ {"FINALIZAR_NEW", "FINALIZAR_READY"} \cap Comandos = {}
           \/ consola.pc \notin BuscandoPcs,
           PasoDeKernel(Consola) \/ PasoDeKernel(ConsolaEnCurso)
    PROVE  SemaforosDeColas'
<1> USE DEF PasoDeKernel
<1> DEFINE Quieta == /\ UNCHANGED <<queueNews, queueReadys, queueAux, sQueueNewsAvaiable,
                                    sQueueReadysAvaiable>>
                     /\ (newToReady' = "news") <=> (newToReady = "news")
<1>1. CASE IniciarProceso
  <2>1. queueNews \in Seq(Pids) /\ Len(queueNews) \in Nat
    BY LargosDeColas DEF TypeOK, KernelTypeOK, ColasTypeOK
  <2>2. Len(queueNews') = Len(queueNews) + 1
    BY <1>1, <2>1, LargoTrasAppend DEF IniciarProceso
  <2>3. /\ UNCHANGED <<queueReadys, queueAux, sQueueReadysAvaiable, newToReady>>
        /\ sQueueNewsAvaiable' = sQueueNewsAvaiable + 1 /\ sQueueNewsAvaiable \in Nat
    BY <1>1 DEF IniciarProceso, planVars, TypeOK, KernelTypeOK, SemaforosTypeOK
  <2>4. QED BY <2>1, <2>2, <2>3 DEF SemaforosDeColas, ReadyComoCantidad, Si
<1>2. ASSUME NEW b \in BOOLEAN, CambiarPlanificador(b) PROVE Quieta
  BY <1>2 DEF CambiarPlanificador, colas, semaforos, planVars
<1>3. ASSUME NEW v \in Grados, SubirGrado(v) \/ BajarGrado(v) PROVE Quieta
  BY <1>3 DEF SubirGrado, BajarGrado, colas, semaforos, planVars
<1>4. ASSUME NEW p \in Pids, FinalizarProceso(p) PROVE Quieta
  BY <1>4 DEF FinalizarProceso, colas, semaforos, planVars
<1>5. CASE CrearRecursosDePid \/ QuitarLugar \/ FinalizarEnEjecucion \/ SeguirBuscando
  <2>1. Quieta
    BY <1>5 DEF CrearRecursosDePid, QuitarLugar, FinalizarEnEjecucion, SeguirBuscando, Buscar,
       colas, semaforos, planVars
  <2>2. QED BY <2>1, ColasQuietas
<1>6. CASE FinalizarBlocked
  <2>1. Quieta
    BY <1>6 DEF FinalizarBlocked, Encontrado, planVars
  <2>2. QED BY <2>1, ColasQuietas
<1>7. ~FinalizarNew /\ ~FinalizarReady /\ ~FinalizarAux
  BY DEF FinalizarNew, FinalizarReady, FinalizarAux, Encontrado, BuscandoPcs
<1>8. CASE Quieta
  BY <1>8, ColasQuietas
<1> HIDE DEF Quieta
<1>9. QED BY <1>1, <1>2, <1>3, <1>4, <1>5, <1>6, <1>7, <1>8 DEF Consola, ConsolaEnCurso

\* The threads of the interfaces wake processes up, and delete those that are in
\* listBlockeds.
LEMMA ColasInterfaces ==
    ASSUME TypeOK, SemaforosDeColas,
           \/ PasoDeKernel(ArrancarIo) \/ PasoDeKernel(Caer)
           \/ \E p \in Pids : PasoDeKernel(IoFunction(p))
           \/ \E i \in Interfaces : PasoDeKernel(Operate(i))
           \/ \E t \in Liberadores : PasoDeKernel(LiberarRecursos(t))
    PROVE  SemaforosDeColas'
<1> USE DEF PasoDeKernel, TypeOK, KernelTypeOK
<1>1. CASE PasoDeKernel(ArrancarIo) \/ PasoDeKernel(Caer)
  BY <1>1, ColasQuietas DEF ArrancarIo, Caer, colas, semaforos, planVars
<1>2. ASSUME NEW p \in Pids, PasoDeKernel(IoFunction(p))
      PROVE  SemaforosDeColas'
  BY <1>2, ColasQuietas DEF IoFunction, PedirIo, PerderIo, IoSinInterfaz, TerminarIo, planVars
<1>3. ASSUME NEW i \in Interfaces, FinishedIo(i)
      PROVE  SemaforosDeColas'
  <2>1. DesblockPcb(Head(ioPedidos[i])) /\ Esta(listBlockeds, Head(ioPedidos[i]))
    BY <1>3 DEF FinishedIo
  <2>2. UNCHANGED <<queueNews, sQueueNewsAvaiable, newToReady>>
    BY <1>3 DEF FinishedIo, planVars
  <2>3. QED BY <2>1, <2>2, ColasTrasDesblock
<1>4. ASSUME NEW i \in Interfaces, FinishedIoError(i)
      PROVE  SemaforosDeColas'
  BY <1>4, ColasQuietas DEF FinishedIoError, semaforos, planVars
<1>5. ASSUME NEW t \in Liberadores,
             \/ QuitarDeLaLista(t) \/ LiberarUno(t) \/ BuscarAlLiberar(t)
             \/ TerminarDeLiberar(t)
      PROVE  SemaforosDeColas'
  BY <1>5, ColasQuietas DEF QuitarDeLaLista, LiberarUno, BuscarAlLiberar, TerminarDeLiberar,
     colas, semaforos, planVars
<1>6. ASSUME NEW t \in Liberadores, DespertarPorLiberar(t)
      PROVE  SemaforosDeColas'
  <2>1. PICK p : DesblockPcb(p) /\ Esta(listBlockeds, p)
    BY <1>6, PrimeroEsta DEF DespertarPorLiberar
  <2>2. UNCHANGED <<queueNews, sQueueNewsAvaiable, newToReady>>
    BY <1>6 DEF DespertarPorLiberar, planVars
  <2>3. QED BY <2>1, <2>2, ColasTrasDesblock
<1>7. QED BY <1>1, <1>2, <1>3, <1>4, <1>5, <1>6 DEF Operate, LiberarRecursos

\* sQueueNewsAvaiable and sQueueReadysAvaiable count their queues, whatever the
\* interleaving of the planners, the CPU's answers, the interfaces and the
\* console, while no process is finished out of NEW or READY: see SemaforosDeColas.
THEOREM ColasContadas ==
    ASSUME {"FINALIZAR_NEW", "FINALIZAR_READY"} \cap Comandos = {}
    PROVE  Spec => []SemaforosDeColas
<1>1. Init => SemaforosDeColas
  BY DEF Init, KernelInit, SemaforosDeColas, ReadyComoCantidad, Si
<1>2. TypeOK /\ SemaforosDeColas /\ [Next]_vars => SemaforosDeColas'
  <2> SUFFICES ASSUME TypeOK, SemaforosDeColas, [Next]_vars PROVE SemaforosDeColas'
    OBVIOUS
  <2>1. CASE UNCHANGED vars
    BY <2>1, ColasQuietas DEF vars, kernelVars, colas, semaforos, planVars
  <2>2. CASE UNCHANGED kernelVars
    BY <2>2, ColasQuietas DEF kernelVars, colas, semaforos, planVars
  <2>3. CASE Next
    BY <2>2, <2>3, ColasNewToReady, ColasToExecute, ColasCheckResponseOfCpu, ColasConsola,
       ColasInterfaces DEF Next, PasoDeCpu
  <2>4. QED BY <2>1, <2>3
<1>3. QED BY <1>1, <1>2, TiposCorrectos, PTL DEF Spec

\* queueAux is the queue of VRR: chosenPlanner does not change, and with another
\* algorithm nobody pushes into queueAux.
AuxSoloEnVrr == chosenPlanner # "VRR" => queueAux = <<>>

\* A step keeps the algorithm, and pushes into queueAux only in VRR.
LEMMA AuxEnVrr == Spec => []AuxSoloEnVrr
<1> DEFINE Permitido == /\ UNCHANGED chosenPlanner
                        /\ UNCHANGED queueAux \/ chosenPlanner = "VRR" \/ queueAux # <<>>
<1>1. Init => AuxSoloEnVrr
  BY DEF Init, KernelInit, AuxSoloEnVrr
<1>2. [Next]_vars => Permitido
  <2> USE DEF PasoDeKernel, PasoDeCpu, colas, mandos
  <2>1. NewToReady => Permitido
    BY DEF NewToReady, EsperarNews, EsperarLugar, PasarPlanNews, MoverAReady
  <2>2. ToExecute => Permitido
    BY DEF ToExecute, PasarPlanExec, EsperarCpu, Despachar, DespacharConPrioridad,
       ConPrioridad, ExecutePcb, ContarQuantum, InterrumpirPorQuantum
  <2>3. CheckResponseOfCpu => Permitido
    BY PedidoQuieto DEF CheckResponseOfCpu, PcbDevuelto, PcbTermina, PcbDesalojado,
       PcbBloqueado, CpuLibre, DespertarPorSignal, DesblockPcb
  <2>4. ConsolaEnCurso => Permitido
    BY DEF ConsolaEnCurso, CrearRecursosDePid, QuitarLugar, FinalizarEnEjecucion,
       SeguirBuscando, Buscar, FinalizarNew, FinalizarReady, FinalizarAux, FinalizarBlocked,
       Encontrado, Esta
  <2>5. Consola => Permitido
    <3>1. IniciarProceso => Permitido
      BY DEF IniciarProceso
    <3>2. ASSUME NEW b \in BOOLEAN, CambiarPlanificador(b) PROVE Permitido
      BY <3>2 DEF CambiarPlanificador
    <3>3. ASSUME NEW v \in Grados, SubirGrado(v) \/ BajarGrado(v) PROVE Permitido
      BY <3>3 DEF SubirGrado, BajarGrado
    <3>4. ASSUME NEW p \in Pids, FinalizarProceso(p) PROVE Permitido
      BY <3>4 DEF FinalizarProceso
    <3> HIDE DEF Permitido
    <3>5. QED BY <3>1, <3>2, <3>3, <3>4 DEF Consola
  <2>6. ArrancarIo \/ Caer => Permitido
    BY DEF ArrancarIo, Caer
  <2>7. ASSUME NEW p \in Pids, IoFunction(p) PROVE Permitido
    BY <2>7 DEF IoFunction, PedirIo, PerderIo, IoSinInterfaz, TerminarIo
  <2>8. ASSUME NEW i \in Interfaces, Operate(i) PROVE Permitido
    BY <2>8 DEF Operate, FinishedIo, FinishedIoError, DesblockPcb
  <2>9. ASSUME NEW t \in Liberadores, LiberarRecursos(t) PROVE Permitido
    BY <2>9 DEF LiberarRecursos, QuitarDeLaLista, LiberarUno, BuscarAlLiberar,
       DespertarPorLiberar, TerminarDeLiberar,
       DesblockPcb
  <2>10. UNCHANGED kernelVars => Permitido
    BY DEF kernelVars
  <2>11. UNCHANGED vars => Permitido
    BY <2>10 DEF vars
  <2> HIDE DEF Permitido
  <2>12. QED
    BY <2>1, <2>2, <2>3, <2>4, <2>5, <2>6, <2>7, <2>8, <2>9, <2>10, <2>11 DEF Next
<1>3. AuxSoloEnVrr /\ [Next]_vars => AuxSoloEnVrr'
  BY <1>2 DEF AuxSoloEnVrr
<1>4. QED BY <1>1, <1>3, PTL DEF Spec

\* So the planners never pop an empty queue: of the NULL pointers that the kernel
\* can follow (PunteroNulo), none is theirs.
THEOREM ColasNoVacias ==
    ASSUME {"FINALIZAR_NEW", "FINALIZAR_READY"} \cap Comandos = {}
    PROVE  Spec => [](/\ newToReady = "mover" => queueNews # <<>>
                      /\ PuedeDespachar /\ ~ConPrioridad => queueReadys # <<>>)
<1>1. TypeOK /\ AuxSoloEnVrr /\ SemaforosDeColas
        => /\ newToReady = "mover" => queueNews # <<>>
           /\ PuedeDespachar /\ ~ConPrioridad => queueReadys # <<>>
  <2> SUFFICES ASSUME TypeOK, AuxSoloEnVrr, SemaforosDeColas
               PROVE  /\ newToReady = "mover" => queueNews # <<>>
                      /\ PuedeDespachar /\ ~ConPrioridad => queueReadys # <<>>
    OBVIOUS
  <2>1. sQueueNewsAvaiable \in Nat
    BY DEF TypeOK, KernelTypeOK, SemaforosTypeOK
  <2>2. newToReady = "mover" => Len(queueNews) # 0
    BY <2>1 DEF SemaforosDeColas, Si
  <2>3. PuedeDespachar /\ queueAux = <<>> => Len(queueReadys) # 0
    BY DEF SemaforosDeColas, ReadyComoCantidad, PuedeDespachar
  <2>4. QED BY <2>2, <2>3 DEF ConPrioridad, AuxSoloEnVrr
<1>2. QED BY <1>1, TiposCorrectos, AuxEnVrr, ColasContadas, PTL

-------------------------------------------------------------------------------
(* The degree of multiprogramming. *)

\* The places of the degree, while the console takes places away too.
Lugares == IF consola.pc = "bajar" THEN consola.valor + consola.falta
                                   ELSE gradoMultiprogramacion

\* Who has a place: the processes of the queues, the one that has the CPU, which
\* its token counts wherever it is, the ones that an interface deletes, and the
\* one that runnerProcessNewToReady is about to move.
EnColas == Len(queueReadys) + Len(queueAux) + Len(listBlockeds)
CpuTomada == 1 - sRunningProcess - Si(toExecute = "listo")
Borrando == {i \in Interfaces : liberando[i] # NULL}
Ocupados == EnColas + CpuTomada + Cardinality(Borrando)
Retenido == Si(newToReady \in {"plan", "mover"})

\* The inductive form of GradoRespetado: a step that takes or gives back a place
\* moves a process, with no need to know where the sockets have it.
GradoIInv == sQueueReadysMax + Ocupados + Retenido = Lugares

\* The console that lowers the degree has a place left to take, and when it
\* releases resources it does nothing else.
ConsolaEnOrden ==
    /\ consola.pc = "bajar" => consola.falta >= 1
    /\ liberando["consola"] # NULL => consola.pc = "liberar"

\* The terms of the sum are integers.
LEMMA SumandosTipo ==
    ASSUME TypeOK
    PROVE  /\ Len(queueReadys) \in Nat /\ Len(queueAux) \in Nat /\ Len(listBlockeds) \in Nat
           /\ sQueueReadysMax \in Nat /\ sRunningProcess \in Nat /\ gradoMultiprogramacion \in Nat
           /\ IsFiniteSet(Borrando) /\ Cardinality(Borrando) \in Nat
           /\ EnColas \in Nat /\ CpuTomada \in Int /\ Ocupados \in Int
           /\ Retenido \in Nat /\ Lugares \in Int
<1>1. IsFiniteSet(Borrando) /\ Cardinality(Borrando) \in Nat
  <2>1. Borrando \subseteq Interfaces /\ IsFiniteSet(Interfaces)
    BY ConstantesDelKernel DEF Borrando
  <2>2. QED BY <2>1, FS_Subset, FS_CardinalityType
<1>2. gradoMultiprogramacion \in Nat
  BY DEF TypeOK, KernelTypeOK, MandosTypeOK
<1>3. Lugares \in Int
  BY <1>2 DEF TypeOK, KernelTypeOK, MandosTypeOK, ConsolaTypeOK, Lugares, BuscandoPcs
<1>4. sQueueReadysMax \in Nat /\ sRunningProcess \in Nat
  BY DEF TypeOK, KernelTypeOK, SemaforosTypeOK
<1>5. Len(queueReadys) \in Nat /\ Len(queueAux) \in Nat /\ Len(listBlockeds) \in Nat
  BY LargosDeColas DEF TypeOK, KernelTypeOK
<1>6. EnColas \in Nat /\ CpuTomada \in Int /\ Retenido \in Nat
  BY <1>4, <1>5 DEF EnColas, CpuTomada, Retenido, Si
<1>7. Ocupados \in Int
  BY <1>1, <1>6 DEF Ocupados
<1>8. QED BY <1>1, <1>2, <1>3, <1>4, <1>5, <1>6, <1>7

\* The same facts, as the sums use them.
LEMMA EnterosDelGrado ==
    ASSUME TypeOK
    PROVE  sQueueReadysMax \in Int /\ Ocupados \in Int /\ Retenido \in Int /\ Lugares \in Int
BY SumandosTipo

\* The lengths of the three queues.
LEMMA EnterosDeEnColas ==
    ASSUME TypeOK
    PROVE  Len(queueReadys) \in Int /\ Len(queueAux) \in Int /\ Len(listBlockeds) \in Int
BY SumandosTipo

\* The summands of the places taken.
LEMMA EnterosDeOcupados ==
    ASSUME TypeOK
    PROVE  EnColas \in Int /\ CpuTomada \in Int /\ Cardinality(Borrando) \in Int
BY SumandosTipo

\* What does not change with the variables it reads.
LEMMA SumandosQuietos ==
    /\ UNCHANGED <<queueReadys, queueAux, listBlockeds>> => EnColas' = EnColas
    /\ UNCHANGED sRunningProcess /\ ((toExecute' = "listo") <=> (toExecute = "listo"))
         => CpuTomada' = CpuTomada
    /\ UNCHANGED liberando => Borrando' = Borrando
    /\ UNCHANGED <<queueReadys, queueAux, listBlockeds, sRunningProcess, liberando>>
         /\ ((toExecute' = "listo") <=> (toExecute = "listo"))
         => Ocupados' = Ocupados
    /\ (newToReady' \in {"plan", "mover"}) <=> (newToReady \in {"plan", "mover"})
         => Retenido' = Retenido
    /\ UNCHANGED <<consola, gradoMultiprogramacion>> => Lugares' = Lugares
    /\ consola.pc # "bajar" /\ consola'.pc # "bajar" /\ UNCHANGED gradoMultiprogramacion
         => Lugares' = Lugares
<1>1. UNCHANGED <<queueReadys, queueAux, listBlockeds>> => EnColas' = EnColas
  BY DEF EnColas
<1>2. UNCHANGED sRunningProcess /\ ((toExecute' = "listo") <=> (toExecute = "listo"))
        => CpuTomada' = CpuTomada
  BY DEF CpuTomada, Si
<1>3. UNCHANGED liberando => Borrando' = Borrando
  BY DEF Borrando
<1>4. EnColas' = EnColas /\ CpuTomada' = CpuTomada /\ Borrando' = Borrando
        => Ocupados' = Ocupados
  BY DEF Ocupados
<1>5. (newToReady' \in {"plan", "mover"}) <=> (newToReady \in {"plan", "mover"})
        => Retenido' = Retenido
  BY DEF Retenido, Si
<1>6. UNCHANGED <<consola, gradoMultiprogramacion>> => Lugares' = Lugares
  BY DEF Lugares
<1>7. consola.pc # "bajar" /\ consola'.pc # "bajar" /\ UNCHANGED gradoMultiprogramacion
        => Lugares' = Lugares
  BY DEF Lugares
<1>8. QED BY <1>1, <1>2, <1>3, <1>4, <1>5, <1>6, <1>7

\* A step that moves nobody and leaves the places alone.
LEMMA GradoQuieto ==
    ASSUME GradoIInv,
           UNCHANGED <<queueReadys, queueAux, listBlockeds, sQueueReadysMax, sRunningProcess,
                       liberando, consola, gradoMultiprogramacion>>,
           (toExecute' = "listo") <=> (toExecute = "listo"),
           (newToReady' \in {"plan", "mover"}) <=> (newToReady \in {"plan", "mover"})
    PROVE  GradoIInv'
BY SumandosQuietos DEF GradoIInv

\* desblockPcb moves a process from one queue to another.
LEMMA GradoTrasDesblock ==
    ASSUME TypeOK, GradoIInv, NEW p, Esta(listBlockeds, p), DesblockPcb(p),
           UNCHANGED <<sQueueReadysMax, sRunningProcess, liberando, consola,
                       gradoMultiprogramacion, toExecute, newToReady>>
    PROVE  GradoIInv'
<1>1. /\ Len(listBlockeds') = Len(listBlockeds) - 1
      /\ Len(queueReadys') + Len(queueAux') = Len(queueReadys) + Len(queueAux) + 1
  BY DesblockMueve DEF TypeOK, KernelTypeOK
<1>2. EnColas' = EnColas
  BY <1>1, EnterosDeEnColas DEF EnColas
<1>3. Ocupados' = Ocupados
  BY <1>2, SumandosQuietos DEF Ocupados
<1>4. QED BY <1>3, SumandosQuietos DEF GradoIInv

\* runnerProcessNewToReady takes a place, holds it and fills it.
LEMMA GradoNewToReady ==
    ASSUME TypeOK, GradoIInv, PasoDeKernel(NewToReady)
    PROVE  GradoIInv'
<1> USE DEF PasoDeKernel
<1>1. CASE EsperarNews \/ PasarPlanNews
  BY <1>1, GradoQuieto
     DEF EsperarNews, PasarPlanNews, colas, semaforos, recursosVars, mandos
<1>2. CASE EsperarLugar
  <2>1. sQueueReadysMax' = sQueueReadysMax - 1
    BY <1>2 DEF EsperarLugar
  <2>2. Retenido = 0 /\ Retenido' = 1
    BY <1>2 DEF EsperarLugar, Retenido, Si
  <2>3. Ocupados' = Ocupados /\ Lugares' = Lugares
    BY <1>2, SumandosQuietos DEF EsperarLugar, colas, recursosVars, mandos
  <2>4. QED BY <2>1, <2>2, <2>3, EnterosDelGrado DEF GradoIInv
<1>3. CASE MoverAReady
  <2>1. Len(queueReadys') = Len(queueReadys) + 1 /\ UNCHANGED <<queueAux, listBlockeds>>
    BY <1>3, LargoTrasAppend DEF MoverAReady, TypeOK, KernelTypeOK, ColasTypeOK
  <2>2. EnColas' = EnColas + 1
    BY <2>1, EnterosDeEnColas DEF EnColas
  <2>3. Retenido = 1 /\ Retenido' = 0
    BY <1>3 DEF MoverAReady, Retenido, Si
  <2>4. /\ CpuTomada' = CpuTomada /\ Borrando' = Borrando /\ Lugares' = Lugares
        /\ UNCHANGED sQueueReadysMax
    BY <1>3, SumandosQuietos DEF MoverAReady, recursosVars, mandos
  <2>5. Ocupados' = Ocupados + 1
    BY <2>2, <2>4, EnterosDeOcupados DEF Ocupados
  <2>6. QED BY <2>3, <2>4, <2>5, EnterosDelGrado DEF GradoIInv
<1>4. QED BY <1>1, <1>2, <1>3 DEF NewToReady

\* runnerProcessToExecute takes the token of the CPU, and then moves a process
\* from READY to the CPU.
LEMMA GradoToExecute ==
    ASSUME TypeOK, GradoIInv, PasoDeKernel(ToExecute)
    PROVE  GradoIInv'
<1> USE DEF PasoDeKernel
<1>1. queueReadys \in Seq(Pids) /\ queueAux \in Seq(Pids)
  BY DEF TypeOK, KernelTypeOK, ColasTypeOK
<1>2. CASE PasarPlanExec \/ ContarQuantum \/ InterrumpirPorQuantum
  BY <1>2, GradoQuieto DEF PasarPlanExec, ContarQuantum, InterrumpirPorQuantum, colas,
     semaforos, recursosVars, mandos
<1>3. CASE EsperarCpu
  <2>1. sRunningProcess' = sRunningProcess - 1 /\ toExecute = "cpu" /\ toExecute' = "listo"
    BY <1>3 DEF EsperarCpu
  <2>2. CpuTomada' = CpuTomada
    <3>1. sRunningProcess \in Int
      BY SumandosTipo
    <3>2. QED BY <2>1, <3>1 DEF CpuTomada, Si
  <2>3. /\ EnColas' = EnColas /\ Borrando' = Borrando /\ Retenido' = Retenido
        /\ Lugares' = Lugares /\ UNCHANGED sQueueReadysMax
    BY <1>3, SumandosQuietos DEF EsperarCpu, colas, recursosVars, mandos
  <2>4. QED BY <2>2, <2>3 DEF GradoIInv, Ocupados
<1>4. ASSUME NEW p, ExecutePcb(p), toExecute = "listo", EnColas' = EnColas - 1
      PROVE  GradoIInv'
  <2>1. toExecute' # "listo" /\ UNCHANGED sRunningProcess
    BY <1>4 DEF ExecutePcb
  <2>2. CpuTomada' = CpuTomada + 1
    <3>1. sRunningProcess \in Int
      BY SumandosTipo
    <3>2. QED BY <1>4, <2>1, <3>1 DEF CpuTomada, Si
  <2>3. /\ Borrando' = Borrando /\ Retenido' = Retenido /\ Lugares' = Lugares
        /\ UNCHANGED sQueueReadysMax
    BY <1>4, SumandosQuietos DEF ExecutePcb, recursosVars, mandos
  <2>4. Ocupados' = Ocupados
    BY <1>4, <2>2, <2>3, EnterosDeOcupados DEF Ocupados
  <2>5. QED BY <2>3, <2>4 DEF GradoIInv
<1>5. CASE Despachar
  <2>1. Len(queueReadys') = Len(queueReadys) - 1 /\ UNCHANGED <<queueAux, listBlockeds>>
    BY <1>1, <1>5, LargoTrasTail DEF Despachar, ExecutePcb
  <2>2. EnColas' = EnColas - 1
    BY <2>1, SumandosTipo DEF EnColas
  <2>3. PICK p : ExecutePcb(p)
    BY <1>5 DEF Despachar
  <2>4. QED BY <1>4, <1>5, <2>2, <2>3 DEF Despachar, PuedeDespachar
<1>6. CASE DespacharConPrioridad
  <2>1. Len(queueAux') = Len(queueAux) - 1 /\ UNCHANGED <<queueReadys, listBlockeds>>
    BY <1>1, <1>6, LargoTrasTail DEF DespacharConPrioridad, ConPrioridad, ExecutePcb
  <2>2. EnColas' = EnColas - 1
    BY <2>1, SumandosTipo DEF EnColas
  <2>3. PICK p : ExecutePcb(p)
    BY <1>6 DEF DespacharConPrioridad
  <2>4. QED BY <1>4, <1>6, <2>2, <2>3 DEF DespacharConPrioridad, PuedeDespachar
<1>7. QED BY <1>2, <1>3, <1>5, <1>6 DEF ToExecute

\* checkResponseOfCpu frees the CPU and puts the process in a queue, or deletes
\* it and gives its place back.
LEMMA GradoCheckResponseOfCpu ==
    ASSUME TypeOK, GradoIInv, PasoDeKernel(CheckResponseOfCpu)
    PROVE  GradoIInv'
<1> USE DEF PasoDeKernel
<1>1. queueReadys \in Seq(Pids) /\ listBlockeds \in Seq(Pids)
  BY DEF TypeOK, KernelTypeOK, ColasTypeOK
<1>2. CASE PcbDevuelto
  BY <1>2, GradoQuieto
     DEF PcbDevuelto, colas, semaforos, recursosVars, planVars, mandos
<1>3. CASE AtenderPedido
  BY <1>3, PedidoQuieto, GradoQuieto DEF colas, semaforos, planVars, mandos
<1>4. ASSUME CpuLibre,
             \/ sQueueReadysMax' = sQueueReadysMax + 1 /\ EnColas' = EnColas
             \/ UNCHANGED sQueueReadysMax /\ EnColas' = EnColas + 1
      PROVE  GradoIInv'
  <2>1. sRunningProcess' = sRunningProcess + 1 /\ UNCHANGED toExecute
    BY <1>4 DEF CpuLibre, planVars
  <2>2. CpuTomada' = CpuTomada - 1
    <3>1. sRunningProcess \in Nat /\ Si(toExecute = "listo") \in {0, 1}
          /\ Si(toExecute = "listo")' = Si(toExecute = "listo")
      BY <2>1, SumandosTipo DEF Si
    <3>2. CpuTomada' = 1 - (sRunningProcess + 1) - Si(toExecute = "listo")
      BY <2>1, <3>1 DEF CpuTomada
    <3>3. QED BY <3>1, <3>2 DEF CpuTomada
  <2>3. Borrando' = Borrando /\ Retenido' = Retenido /\ Lugares' = Lugares
    BY <1>4, SumandosQuietos DEF CpuLibre, recursosVars, planVars, mandos
  <2>4. CASE sQueueReadysMax' = sQueueReadysMax + 1 /\ EnColas' = EnColas
    <3>1. Ocupados' = Ocupados - 1
      BY <2>2, <2>3, <2>4, EnterosDeOcupados DEF Ocupados
    <3>2. QED BY <2>3, <2>4, <3>1, EnterosDelGrado DEF GradoIInv
  <2>5. CASE UNCHANGED sQueueReadysMax /\ EnColas' = EnColas + 1
    <3>1. Ocupados' = Ocupados
      BY <2>2, <2>3, <2>5, EnterosDeOcupados DEF Ocupados
    <3>2. QED BY <2>3, <2>5, <3>1 DEF GradoIInv
  <2>6. QED BY <1>4, <2>4, <2>5
<1>5. CASE PcbTermina
  <2>1. EnColas' = EnColas
    BY <1>5, SumandosQuietos DEF PcbTermina, CpuLibre
  <2>2. QED BY <1>4, <1>5, <2>1 DEF PcbTermina, DeletePcb
<1>6. CASE PcbDesalojado
  <2>1. Len(queueReadys') = Len(queueReadys) + 1 /\ UNCHANGED <<queueAux, listBlockeds>>
    BY <1>1, <1>6, LargoTrasAppend DEF PcbDesalojado, CpuLibre
  <2>2. EnColas' = EnColas + 1
    BY <2>1, SumandosTipo DEF EnColas
  <2>3. QED BY <1>4, <1>6, <2>2 DEF PcbDesalojado
<1>7. CASE PcbBloqueado
  <2>1. Len(listBlockeds') = Len(listBlockeds) + 1 /\ UNCHANGED <<queueReadys, queueAux>>
    BY <1>1, <1>7, LargoTrasAppend DEF PcbBloqueado, CpuLibre
  <2>2. EnColas' = EnColas + 1
    BY <2>1, SumandosTipo DEF EnColas
  <2>3. QED BY <1>4, <1>7, <2>2 DEF PcbBloqueado
<1>8. CASE DespertarPorSignal
  <2>1. PICK p : DesblockPcb(p) /\ Esta(listBlockeds, p)
    BY <1>8, PrimeroEsta DEF DespertarPorSignal, TypeOK, KernelTypeOK
  <2>2. QED BY <1>8, <2>1, GradoTrasDesblock
            DEF DespertarPorSignal, recursosVars, planVars, mandos
<1>9. QED BY <1>2, <1>3, <1>5, <1>6, <1>7, <1>8 DEF CheckResponseOfCpu

\* MULTIPROGRAMACION changes the degree and the free places together, one place
\* at a time when it takes them away.
LEMMA GradoMultiprogramacion ==
    ASSUME TypeOK, GradoIInv, ConsolaEnOrden,
           \/ \E v \in Grados : SubirGrado(v) \/ BajarGrado(v)
           \/ QuitarLugar
    PROVE  GradoIInv'
<1>1. ASSUME UNCHANGED <<queueReadys, queueAux, listBlockeds, sRunningProcess, toExecute,
                         newToReady, liberando>>
      PROVE  Ocupados' = Ocupados /\ Retenido' = Retenido
  BY <1>1, SumandosQuietos
<1>2. ASSUME NEW v \in Grados, SubirGrado(v)
      PROVE  GradoIInv'
  <2>1. /\ sQueueReadysMax' = sQueueReadysMax + (v - gradoMultiprogramacion)
        /\ consola.pc = "libre" /\ UNCHANGED consola /\ gradoMultiprogramacion' = v
    BY <1>2 DEF SubirGrado, Ordena
  <2>2. Lugares = gradoMultiprogramacion /\ Lugares' = v /\ v \in Nat
    BY <2>1, ConstantesDelKernel DEF Lugares
  <2>3. Ocupados' = Ocupados /\ Retenido' = Retenido
    BY <1>1, <1>2 DEF SubirGrado, colas, recursosVars, planVars
  <2>4. QED BY <2>1, <2>2, <2>3, EnterosDelGrado DEF GradoIInv
<1>3. ASSUME NEW v \in Grados, BajarGrado(v)
      PROVE  GradoIInv'
  <2>1. /\ consola.pc = "libre" /\ UNCHANGED sQueueReadysMax
        /\ consola'.pc = "bajar" /\ consola'.valor = v
        /\ consola'.falta = gradoMultiprogramacion - v
    BY <1>3 DEF BajarGrado, Ordena, ConsolaLibre, EnConsola, semaforos
  <2>2. Lugares = gradoMultiprogramacion /\ Lugares' = v + (gradoMultiprogramacion - v)
    BY <2>1 DEF Lugares
  <2>3. v \in Nat
    BY ConstantesDelKernel
  <2>4. Lugares' = Lugares
    BY <2>2, <2>3, SumandosTipo
  <2>5. Ocupados' = Ocupados /\ Retenido' = Retenido
    BY <1>1, <1>3 DEF BajarGrado, colas, semaforos, recursosVars, planVars
  <2>6. QED BY <2>1, <2>4, <2>5 DEF GradoIInv
<1>4. CASE QuitarLugar
  <2>1. /\ consola.pc = "bajar" /\ sQueueReadysMax' = sQueueReadysMax - 1
        /\ consola.valor \in Nat /\ consola.falta \in Nat /\ consola.falta >= 1
    BY <1>4 DEF QuitarLugar, ConsolaEnOrden, TypeOK, KernelTypeOK, MandosTypeOK,
       ConsolaTypeOK, BuscandoPcs
  <2>2. Lugares = consola.valor + consola.falta
    BY <2>1 DEF Lugares
  <2>3. Lugares' = Lugares - 1
    <3>1. CASE consola.falta > 1
      <4>1. consola' = [consola EXCEPT !.falta = consola.falta - 1]
        BY <1>4, <3>1 DEF QuitarLugar
      <4>2. /\ consola'.pc = "bajar" /\ consola'.valor = consola.valor
            /\ consola'.falta = consola.falta - 1
        BY <2>1, <4>1 DEF TypeOK, KernelTypeOK, MandosTypeOK, ConsolaTypeOK, BuscandoPcs
      <4>3. Lugares' = consola.valor + (consola.falta - 1)
        BY <4>2 DEF Lugares
      <4>4. QED BY <2>1, <2>2, <4>3
    <3>2. CASE ~(consola.falta > 1)
      <4>1. consola'.pc = "libre" /\ gradoMultiprogramacion' = consola.valor
        BY <1>4, <3>2 DEF QuitarLugar, ConsolaLibre, EnConsola
      <4>2. Lugares' = consola.valor
        BY <4>1 DEF Lugares
      <4>3. QED BY <2>1, <2>2, <3>2, <4>2
    <3>3. QED BY <3>1, <3>2
  <2>4. Ocupados' = Ocupados /\ Retenido' = Retenido
    BY <1>1, <1>4 DEF QuitarLugar, colas, recursosVars, planVars
  <2>5. QED BY <2>1, <2>3, <2>4, EnterosDelGrado DEF GradoIInv
<1>5. QED BY <1>2, <1>3, <1>4

\* The other commands: finishProcess deletes a process and gives its place back.
LEMMA GradoConsola ==
    ASSUME TypeOK, GradoIInv, ConsolaEnOrden, "FINALIZAR_NEW" \notin Comandos,
           PasoDeKernel(Consola) \/ PasoDeKernel(ConsolaEnCurso)
    PROVE  GradoIInv'
<1> USE DEF PasoDeKernel
<1>1. CASE IniciarProceso \/ CrearRecursosDePid
  <2>1. consola.pc # "bajar" /\ consola'.pc # "bajar"
    BY <1>1 DEF IniciarProceso, CrearRecursosDePid, Ordena, ConsolaLibre, EnConsola
  <2>2. /\ UNCHANGED <<queueReadys, queueAux, listBlockeds, sQueueReadysMax,
                       sRunningProcess, liberando, gradoMultiprogramacion, toExecute,
                       newToReady>>
    BY <1>1
       DEF IniciarProceso, CrearRecursosDePid, colas, semaforos, recursosVars, planVars
  <2>3. QED BY <2>1, <2>2, SumandosQuietos DEF GradoIInv
<1>2. ASSUME NEW b \in BOOLEAN, CambiarPlanificador(b)
      PROVE  GradoIInv'
  BY <1>2, GradoQuieto DEF CambiarPlanificador, colas, semaforos, recursosVars, planVars
<1>3. ASSUME UNCHANGED <<queueReadys, queueAux, listBlockeds, sQueueReadysMax,
                         sRunningProcess, liberando, gradoMultiprogramacion, toExecute,
                         newToReady>>,
             consola.pc # "bajar", consola'.pc # "bajar"
      PROVE  GradoIInv'
  BY <1>3, SumandosQuietos DEF GradoIInv
<1>4. ASSUME NEW p \in Pids, FinalizarProceso(p)
      PROVE  GradoIInv'
  <2>1. consola.pc # "bajar" /\ consola'.pc # "bajar"
    BY <1>4 DEF FinalizarProceso, EnConsola
  <2>2. QED BY <1>3, <1>4, <2>1 DEF FinalizarProceso, colas, semaforos, recursosVars, planVars
<1>5. CASE FinalizarEnEjecucion \/ SeguirBuscando
  <2>1. consola.pc # "bajar" /\ consola'.pc # "bajar"
    BY <1>5 DEF FinalizarEnEjecucion, SeguirBuscando, Buscar, ConsolaLibre, EnConsola,
       TypeOK, KernelTypeOK, MandosTypeOK, ConsolaTypeOK, BuscandoPcs
  <2>2. QED BY <1>3, <1>5, <2>1 DEF FinalizarEnEjecucion, SeguirBuscando, Buscar, colas,
            semaforos, recursosVars, planVars
\* Found in READY, in READY with priority or blocked.
<1>6. ASSUME NEW pc \in {"readys", "aux", "blockeds"}, NEW cola, NEW c,
             Encontrado(pc, cola, c), EnColas' = EnColas - 1
      PROVE  GradoIInv'
  <2>1. consola.pc # "bajar" /\ consola'.pc # "bajar"
    BY <1>6 DEF Encontrado, TypeOK, KernelTypeOK, MandosTypeOK, ConsolaTypeOK, BuscandoPcs
  <2>2. sQueueReadysMax' = sQueueReadysMax + 1
    BY <1>6 DEF Encontrado, DeletePcb
  <2>3. Borrando' = Borrando
    BY <1>6, ConstantesDelKernel
       DEF Encontrado, Borrando, TypeOK, KernelTypeOK, RecursosTypeOK, Liberadores
  <2>4. CpuTomada' = CpuTomada /\ Retenido' = Retenido /\ Lugares' = Lugares
    BY <1>6, <2>1, SumandosQuietos DEF Encontrado, planVars
  <2>5. Ocupados' = Ocupados - 1
    BY <1>6, <2>3, <2>4, EnterosDeOcupados DEF Ocupados
  <2>6. QED BY <2>2, <2>4, <2>5, EnterosDelGrado DEF GradoIInv
<1>7. queueReadys \in Seq(Pids) /\ queueAux \in Seq(Pids) /\ listBlockeds \in Seq(Pids)
  BY DEF TypeOK, KernelTypeOK, ColasTypeOK
<1>8. CASE FinalizarReady
  <2>1. Len(queueReadys') = Len(queueReadys) - 1 /\ UNCHANGED <<queueAux, listBlockeds>>
    BY <1>7, <1>8, RemoveFirstLargo DEF FinalizarReady, Encontrado
  <2>2. EnColas' = EnColas - 1
    BY <2>1, SumandosTipo DEF EnColas
  <2>3. QED BY <1>6, <1>8, <2>2 DEF FinalizarReady
<1>9. CASE FinalizarAux
  <2>1. Len(queueAux') = Len(queueAux) - 1 /\ UNCHANGED <<queueReadys, listBlockeds>>
    BY <1>7, <1>9, RemoveFirstLargo DEF FinalizarAux, Encontrado
  <2>2. EnColas' = EnColas - 1
    BY <2>1, SumandosTipo DEF EnColas
  <2>3. QED BY <1>6, <1>9, <2>2 DEF FinalizarAux
<1>10. CASE FinalizarBlocked
  <2>1. Len(listBlockeds') = Len(listBlockeds) - 1 /\ UNCHANGED <<queueReadys, queueAux>>
    BY <1>7, <1>10, RemoveFirstLargo DEF FinalizarBlocked, Encontrado
  <2>2. EnColas' = EnColas - 1
    BY <2>1, SumandosTipo DEF EnColas
  <2>3. QED BY <1>6, <1>10, <2>2 DEF FinalizarBlocked
<1>11. ~FinalizarNew
  BY DEF FinalizarNew, Encontrado
<1>12. QED
  BY <1>1, <1>2, <1>4, <1>5, <1>8, <1>9, <1>10, <1>11, GradoMultiprogramacion
     DEF Consola, ConsolaEnCurso

\* The threads of the interfaces: a process that an interface deletes keeps its
\* place until deletePcb; one that the console deletes has given it back before.
LEMMA GradoInterfaces ==
    ASSUME TypeOK, GradoIInv, ConsolaEnOrden,
           \/ PasoDeKernel(ArrancarIo) \/ PasoDeKernel(Caer)
           \/ \E p \in Pids : PasoDeKernel(IoFunction(p))
           \/ \E i \in Interfaces : PasoDeKernel(Operate(i))
           \/ \E t \in Liberadores : PasoDeKernel(LiberarRecursos(t))
    PROVE  GradoIInv'
<1> USE DEF PasoDeKernel
<1>1. /\ listBlockeds \in Seq(Pids) /\ liberando \in [Liberadores -> Pids \cup {NULL}]
      /\ NULL \notin Pids
  BY ConstantesDeCanales DEF TypeOK, KernelTypeOK, ColasTypeOK, RecursosTypeOK, Pids
<1>2. CASE PasoDeKernel(ArrancarIo) \/ PasoDeKernel(Caer)
  BY <1>2, GradoQuieto DEF ArrancarIo, Caer, colas, semaforos, recursosVars, planVars, mandos
<1>3. ASSUME NEW p \in Pids, NEW i \in Interfaces, PedirIo(p, i)
      PROVE  GradoIInv'
  BY <1>3, GradoQuieto DEF PedirIo, TerminarIo, recursosVars, planVars, mandos
<1>4. ASSUME NEW p \in Pids, PerderIo(p)
      PROVE  GradoIInv'
  BY <1>4, GradoQuieto DEF PerderIo, TerminarIo, recursosVars, planVars, mandos
<1>5. ASSUME NEW p \in Pids, IoSinInterfaz(p)
      PROVE  GradoIInv'
  <2>1. Len(listBlockeds') = Len(listBlockeds) - 1 /\ UNCHANGED <<queueReadys, queueAux>>
    BY <1>1, <1>5, RemoveFirstLargo DEF IoSinInterfaz, TerminarIo
  <2>2. EnColas' = EnColas - 1
    BY <2>1, SumandosTipo DEF EnColas
  <2>3. sQueueReadysMax' = sQueueReadysMax + 1
    BY <1>5 DEF IoSinInterfaz, DeletePcb
  <2>4. /\ CpuTomada' = CpuTomada /\ Borrando' = Borrando /\ Retenido' = Retenido
        /\ Lugares' = Lugares
    BY <1>5, SumandosQuietos DEF IoSinInterfaz, TerminarIo, recursosVars, planVars, mandos
  <2>5. Ocupados' = Ocupados - 1
    BY <2>2, <2>4, EnterosDeOcupados DEF Ocupados
  <2>6. QED BY <2>3, <2>4, <2>5, EnterosDelGrado DEF GradoIInv
<1>6. ASSUME NEW i \in Interfaces, FinishedIo(i)
      PROVE  GradoIInv'
  <2>1. DesblockPcb(Head(ioPedidos[i])) /\ Esta(listBlockeds, Head(ioPedidos[i]))
    BY <1>6 DEF FinishedIo
  <2>2. QED BY <1>6, <2>1, GradoTrasDesblock DEF FinishedIo, recursosVars, planVars, mandos
<1>7. ASSUME NEW i \in Interfaces, FinishedIoError(i)
      PROVE  GradoIInv'
  <2>1. Len(listBlockeds') = Len(listBlockeds) - 1 /\ UNCHANGED <<queueReadys, queueAux>>
    BY <1>1, <1>7, RemoveFirstLargo DEF FinishedIoError
  <2>2. EnColas' = EnColas - 1
    BY <2>1, SumandosTipo DEF EnColas
  <2>3. Head(ioPedidos[i]) \in Pids /\ liberando[i] = NULL
    BY <1>7 DEF FinishedIoError, RespuestaDeInterfaz, TypeOK, KernelTypeOK, IoTypeOK
  <2>4. Borrando' = Borrando \cup {i} /\ i \notin Borrando
    BY <1>1, <1>7, <2>3 DEF FinishedIoError, Borrando, Liberadores
  <2>5. Cardinality(Borrando') = Cardinality(Borrando) + 1
    BY <2>4, SumandosTipo, FS_AddElement
  <2>6. /\ CpuTomada' = CpuTomada /\ Retenido' = Retenido /\ Lugares' = Lugares
        /\ UNCHANGED sQueueReadysMax
    BY <1>7, SumandosQuietos DEF FinishedIoError, semaforos, planVars, mandos
  <2>7. Ocupados' = Ocupados
    BY <2>2, <2>5, <2>6, EnterosDeOcupados DEF Ocupados
  <2>8. QED BY <2>6, <2>7 DEF GradoIInv
<1>8. ASSUME NEW t \in Liberadores,
             QuitarDeLaLista(t) \/ LiberarUno(t) \/ BuscarAlLiberar(t)
      PROVE  GradoIInv'
  BY <1>8, GradoQuieto
     DEF QuitarDeLaLista, LiberarUno, BuscarAlLiberar, colas, semaforos, planVars, mandos
<1>9. ASSUME NEW t \in Liberadores, DespertarPorLiberar(t)
      PROVE  GradoIInv'
  <2>1. PICK p : DesblockPcb(p) /\ Esta(listBlockeds, p)
    BY <1>9, PrimeroEsta DEF DespertarPorLiberar, TypeOK, KernelTypeOK
  <2>2. QED BY <1>9, <2>1, GradoTrasDesblock DEF DespertarPorLiberar, planVars, mandos
<1>10. ASSUME NEW t \in Interfaces, TerminarDeLiberar(t)
       PROVE  GradoIInv'
  <2>1. t # "consola" /\ t \in Borrando
    BY <1>10, ConstantesDelKernel DEF TerminarDeLiberar, Borrando
  <2>2. Borrando' = Borrando \ {t}
    BY <1>1, <1>10 DEF TerminarDeLiberar, Borrando, Liberadores
  <2>3. Cardinality(Borrando') = Cardinality(Borrando) - 1
    BY <2>1, <2>2, SumandosTipo, FS_RemoveElement
  <2>4. sQueueReadysMax' = sQueueReadysMax + 1
    BY <1>10, <2>1 DEF TerminarDeLiberar, DeletePcb
  <2>5. /\ EnColas' = EnColas /\ CpuTomada' = CpuTomada /\ Retenido' = Retenido
        /\ Lugares' = Lugares
    BY <1>10, <2>1, SumandosQuietos DEF TerminarDeLiberar, colas, planVars
  <2>6. Ocupados' = Ocupados - 1
    BY <2>3, <2>5, EnterosDeOcupados DEF Ocupados
  <2>7. QED BY <2>4, <2>5, <2>6, EnterosDelGrado DEF GradoIInv
<1>11. CASE TerminarDeLiberar("consola")
  <2>1. consola.pc # "bajar" /\ consola'.pc # "bajar"
    BY <1>11 DEF TerminarDeLiberar, ConsolaEnOrden, ConsolaLibre, EnConsola
  <2>2. Borrando' = Borrando
    BY <1>1, <1>11, ConstantesDelKernel DEF TerminarDeLiberar, Borrando, Liberadores
  <2>3. /\ EnColas' = EnColas /\ CpuTomada' = CpuTomada /\ Retenido' = Retenido
        /\ Lugares' = Lugares /\ UNCHANGED sQueueReadysMax
    BY <1>11, <2>1, SumandosQuietos DEF TerminarDeLiberar, colas, planVars
  <2>4. QED BY <2>2, <2>3 DEF GradoIInv, Ocupados
<1>12. QED BY <1>2, <1>3, <1>4, <1>5, <1>6, <1>7, <1>8, <1>9, <1>10, <1>11
          DEF IoFunction, Operate, LiberarRecursos, Liberadores

\* The console keeps its order: only Encontrado starts a release in its name, and
\* while it lasts no command begins.
LEMMA OrdenDeConsola == Spec => []ConsolaEnOrden
<1>1. Init => ConsolaEnOrden
  BY DEF Init, KernelInit, ConsolaEnOrden, ConsolaLibre, EnConsola, Liberadores
<1>2. TypeOK /\ ConsolaEnOrden /\ [Next]_vars => ConsolaEnOrden'
  <2> SUFFICES ASSUME TypeOK, ConsolaEnOrden, [Next]_vars PROVE ConsolaEnOrden'
    OBVIOUS
  <2> USE DEF PasoDeKernel, PasoDeCpu
  <2>1. /\ liberando \in [Liberadores -> Pids \cup {NULL}] /\ "consola" \in Liberadores
        /\ "consola" \notin Interfaces
        /\ \A pc \in {"libre", "lista", "bajar", "news", "readys", "aux", "blockeds",
                     "deref"} :
             consola.pc = pc => liberando["consola"] = NULL
    BY ConstantesDelKernel DEF TypeOK, KernelTypeOK, RecursosTypeOK, Liberadores, ConsolaEnOrden
  <2>2. CASE UNCHANGED <<consola, liberando>>
    BY <2>2 DEF ConsolaEnOrden
  <2>3. CASE /\ consola.pc \in {"libre", "lista", "bajar", "news", "readys", "aux",
                              "blockeds", "deref"}
             /\ UNCHANGED liberando
             /\ consola'.pc = "bajar" => consola'.falta >= 1
    BY <2>1, <2>3 DEF ConsolaEnOrden
  <2>4. CASE PasoDeKernel(Consola)
    <3>1. IniciarProceso => ConsolaEnOrden'
      BY <2>3 DEF IniciarProceso, Ordena, EnConsola, recursosVars
    <3>2. ASSUME NEW b \in BOOLEAN, CambiarPlanificador(b)
          PROVE  UNCHANGED <<consola, liberando>>
      BY <3>2 DEF CambiarPlanificador, recursosVars
    <3>3. ASSUME NEW v \in Grados, SubirGrado(v)
          PROVE  UNCHANGED <<consola, liberando>>
      BY <3>3 DEF SubirGrado, recursosVars
    <3>4. ASSUME NEW v \in Grados, BajarGrado(v)
          PROVE  ConsolaEnOrden'
      <4>1. /\ consola.pc = "libre" /\ consola'.pc = "bajar" /\ UNCHANGED liberando
            /\ consola'.falta = gradoMultiprogramacion - v /\ v < gradoMultiprogramacion
        BY <3>4 DEF BajarGrado, Ordena, ConsolaLibre, EnConsola, recursosVars
      <4>2. v \in Nat /\ gradoMultiprogramacion \in Nat
        BY ConstantesDelKernel, SumandosTipo
      <4>3. gradoMultiprogramacion - v >= 1
        BY <4>1, <4>2
      <4>4. QED BY <2>3, <4>1, <4>3
    <3>5. ASSUME NEW p \in Pids, FinalizarProceso(p)
          PROVE  ConsolaEnOrden'
      BY <2>3, <3>5 DEF FinalizarProceso, EnConsola, recursosVars
    <3>6. QED BY <2>2, <2>4, <3>1, <3>2, <3>3, <3>4, <3>5 DEF Consola
  <2>5. CASE PasoDeKernel(ConsolaEnCurso)
    <3>1. CASE QuitarLugar
      <4>1. consola.pc = "bajar" /\ UNCHANGED liberando
        BY <3>1 DEF QuitarLugar, recursosVars
      <4>2. consola.falta \in Nat
        BY <4>1 DEF TypeOK, KernelTypeOK, MandosTypeOK, ConsolaTypeOK, BuscandoPcs
      <4>3. CASE consola.falta > 1
        <5>1. consola' = [consola EXCEPT !.falta = consola.falta - 1]
          BY <3>1, <4>3 DEF QuitarLugar
        <5>2. consola'.falta = consola.falta - 1
          BY <4>1, <5>1 DEF TypeOK, KernelTypeOK, MandosTypeOK, ConsolaTypeOK, BuscandoPcs
        <5>3. consola'.falta >= 1
          BY <4>2, <4>3, <5>2
        <5>4. QED BY <2>3, <4>1, <5>3
      <4>4. CASE ~(consola.falta > 1)
        BY <2>3, <3>1, <4>1, <4>4 DEF QuitarLugar, ConsolaLibre, EnConsola
      <4>5. QED BY <4>3, <4>4
    <3>2. CASE FinalizarEnEjecucion \/ SeguirBuscando
      <4>1. /\ consola.pc \in {"news", "readys", "aux", "blockeds", "deref"}
            /\ UNCHANGED liberando
        BY <3>2 DEF FinalizarEnEjecucion, SeguirBuscando, Buscar, recursosVars
      <4>2. consola'.pc # "bajar"
        BY <3>2 DEF FinalizarEnEjecucion, SeguirBuscando, Buscar, ConsolaLibre, EnConsola,
           TypeOK, KernelTypeOK, MandosTypeOK, ConsolaTypeOK, BuscandoPcs
      <4>3. QED BY <2>3, <4>1, <4>2
    <3>3. ASSUME NEW pc, NEW cola, NEW c, pc \in BuscandoPcs, Encontrado(pc, cola, c)
          PROVE  ConsolaEnOrden'
      <4>1. consola'.pc = "liberar"
        BY <3>3 DEF Encontrado, TypeOK, KernelTypeOK, MandosTypeOK, ConsolaTypeOK, BuscandoPcs
      <4>2. QED BY <4>1 DEF ConsolaEnOrden
    <3>4. CASE FinalizarNew \/ FinalizarReady \/ FinalizarAux \/ FinalizarBlocked
      BY <3>3, <3>4
         DEF FinalizarNew, FinalizarReady, FinalizarAux, FinalizarBlocked, BuscandoPcs
    <3>5. CASE CrearRecursosDePid
      BY <2>3, <3>5 DEF CrearRecursosDePid, ConsolaLibre, EnConsola
    <3>6. QED BY <2>5, <3>1, <3>2, <3>4, <3>5 DEF ConsolaEnCurso
  <2>6. CASE NewToReady \/ ToExecute
    <3>1. UNCHANGED <<consola, liberando>>
      BY <2>6 DEF NewToReady, EsperarNews, EsperarLugar, PasarPlanNews, MoverAReady, ToExecute,
         PasarPlanExec, EsperarCpu, Despachar, DespacharConPrioridad, ExecutePcb, ContarQuantum,
         InterrumpirPorQuantum, recursosVars, mandos
    <3>2. QED BY <2>2, <3>1
  <2>7. CASE CheckResponseOfCpu
    <3>1. UNCHANGED <<consola, liberando>>
      BY <2>7, PedidoQuieto DEF CheckResponseOfCpu, PcbDevuelto, PcbTermina, PcbDesalojado,
         PcbBloqueado, CpuLibre, DespertarPorSignal, recursosVars, mandos
    <3>2. QED BY <2>2, <3>1
  <2>8. CASE ArrancarIo \/ Caer
    BY <2>2, <2>8 DEF ArrancarIo, Caer, recursosVars, mandos
  <2>9. ASSUME NEW p \in Pids, IoFunction(p) PROVE ConsolaEnOrden'
    BY <2>2, <2>9 DEF IoFunction, PedirIo, PerderIo, IoSinInterfaz, TerminarIo, recursosVars,
       mandos
  <2>10. ASSUME NEW i \in Interfaces, Operate(i) PROVE ConsolaEnOrden'
    <3>1. UNCHANGED consola /\ liberando'["consola"] = liberando["consola"]
      BY <2>1, <2>10 DEF Operate, FinishedIo, FinishedIoError, recursosVars, mandos
    <3>2. QED BY <3>1 DEF ConsolaEnOrden
  <2>11. ASSUME NEW t \in Liberadores, LiberarRecursos(t) PROVE ConsolaEnOrden'
    <3>1. CASE \/ QuitarDeLaLista(t) \/ LiberarUno(t) \/ BuscarAlLiberar(t)
               \/ DespertarPorLiberar(t)
      BY <2>2, <3>1 DEF QuitarDeLaLista, LiberarUno, BuscarAlLiberar, DespertarPorLiberar,
         mandos
    <3>2. CASE TerminarDeLiberar(t)
      <4>1. liberando' = [liberando EXCEPT ![t] = NULL]
        BY <3>2 DEF TerminarDeLiberar
      <4>2. CASE t = "consola"
        BY <2>1, <3>2, <4>1, <4>2
           DEF TerminarDeLiberar, ConsolaLibre, EnConsola, ConsolaEnOrden
      <4>3. CASE t # "consola"
        BY <2>1, <3>2, <4>1, <4>3 DEF TerminarDeLiberar, ConsolaEnOrden
      <4>4. QED BY <4>2, <4>3
    <3>3. QED BY <2>11, <3>1, <3>2 DEF LiberarRecursos
  <2>12. CASE UNCHANGED kernelVars
    BY <2>2, <2>12 DEF kernelVars, recursosVars, mandos
  <2>13. CASE UNCHANGED vars
    BY <2>12, <2>13 DEF vars
  <2>14. QED
    BY <2>4, <2>5, <2>6, <2>7, <2>8, <2>9, <2>10, <2>11, <2>12, <2>13 DEF Next
<1>3. QED BY <1>1, <1>2, TiposCorrectos, PTL DEF Spec

\* The token says whether there is a process in the CPU, on its way or back.
LEMMA UnProcesoConFicha ==
    ASSUME TypeOK, CpuExclusiva
    PROVE  EnLaCpu + Si(respuesta.pc = "pcb") = CpuTomada
<1>1. sRunningProcess \in {0, 1} /\ sCanExecuteInstruction \in {0, 1}
  BY FichaUnica
<1>2. PcbEn(socketCpuDispatch) \in {0, 1} /\ PcbEn(respuestasCpu) \in {0, 1}
  BY PcbEnValores
<1>3. FichasDeCpu = 1
  BY DEF CpuExclusiva
<1>4. Si(CpuOcupada) = sCanExecuteInstruction + Si(esperaRecurso # NULL)
  BY <1>1, FichaUnica DEF CpuOcupada, Si
<1>5. /\ Si(respuesta.pc = "pcb") \in {0, 1} /\ Si(toExecute = "listo") \in {0, 1}
      /\ Si(esperaRecurso # NULL) \in {0, 1}
  BY DEF Si
<1>6. QED BY <1>1, <1>2, <1>3, <1>4, <1>5 DEF FichasDeCpu, EnLaCpu, CpuTomada

\* The degree of multiprogramming is never lost nor exceeded: see GradoRespetado.
\* It holds whatever the interleaving of the planners, the CPU, the interfaces and
\* MULTIPROGRAMACION, while the operator finishes no process of NEW, which has no
\* place and gives one back.
THEOREM GradoConservado ==
    ASSUME "FINALIZAR_NEW" \notin Comandos
    PROVE  Spec => []GradoRespetado
<1>1. Init => GradoIInv
  <2> SUFFICES ASSUME Init PROVE GradoIInv
    OBVIOUS
  <2>1. EnColas = 0 /\ CpuTomada = 0 /\ Retenido = 0 /\ sQueueReadysMax = Grado
    BY DEF Init, KernelInit, EnColas, CpuTomada, Retenido, Si
  <2>2. Borrando = {} /\ Lugares = Grado
    BY DEF Init, KernelInit, Borrando, Liberadores, Lugares, ConsolaLibre, EnConsola
  <2>3. QED BY <2>1, <2>2, FS_EmptySet, ConstantesDelKernel DEF GradoIInv, Ocupados
<1>2. TypeOK /\ ConsolaEnOrden /\ GradoIInv /\ [Next]_vars => GradoIInv'
  <2> SUFFICES ASSUME TypeOK, ConsolaEnOrden, GradoIInv, [Next]_vars PROVE GradoIInv'
    OBVIOUS
  <2>1. CASE UNCHANGED kernelVars
    BY <2>1, GradoQuieto DEF kernelVars, colas, semaforos, recursosVars, planVars, mandos
  <2>2. CASE UNCHANGED vars
    BY <2>1, <2>2 DEF vars
  <2>3. CASE Next
    <3>1. CASE PasoDeKernel(NewToReady) \/ PasoDeKernel(ToExecute)
      BY <3>1, GradoNewToReady, GradoToExecute
    <3>2. CASE PasoDeKernel(CheckResponseOfCpu)
      BY <3>2, GradoCheckResponseOfCpu
    <3>3. CASE PasoDeKernel(Consola) \/ PasoDeKernel(ConsolaEnCurso)
      BY <3>3, GradoConsola
    <3>4. CASE \/ PasoDeKernel(ArrancarIo) \/ PasoDeKernel(Caer)
               \/ \E p \in Pids : PasoDeKernel(IoFunction(p))
               \/ \E i \in Interfaces : PasoDeKernel(Operate(i))
               \/ \E t \in Liberadores : PasoDeKernel(LiberarRecursos(t))
      BY <3>4, GradoInterfaces
    <3>5. CASE \/ PasoDeCpu(RecibirPcb) \/ PasoDeCpu(RecibirInterrupcion)
               \/ PasoDeCpu(EjecutarInstruccion) \/ PasoDeCpu(RecibirRespuesta)
      <4>1. UNCHANGED kernelVars
        BY <3>5 DEF PasoDeCpu
      <4>2. QED BY <2>1, <4>1
    <3>6. QED BY <2>3, <3>1, <3>2, <3>3, <3>4, <3>5, Zenon DEF Next
  <2>4. QED BY <2>2, <2>3
<1>3. TypeOK /\ CpuExclusiva /\ GradoIInv => GradoRespetado
  <2> SUFFICES ASSUME TypeOK, CpuExclusiva, GradoIInv PROVE GradoRespetado
    OBVIOUS
  <2>1. EnLaCpu + Si(respuesta.pc = "pcb") = CpuTomada /\ EnLaCpu \in Int
        /\ Si(respuesta.pc = "pcb") \in Int
    BY UnProcesoConFicha, PcbEnValores DEF EnLaCpu, Si
  <2>2. Admitidos = Ocupados
    <3>1. Cardinality({i \in Interfaces : liberando[i] # NULL}) \in Int
      BY EnterosDeOcupados DEF Borrando
    <3>2. QED BY <2>1, <3>1, EnterosDeEnColas DEF Admitidos, Ocupados, EnColas, Borrando
  <2>3. QED BY <2>2 DEF GradoRespetado, GradoIInv, Lugares, Retenido
<1>4. QED BY <1>1, <1>2, <1>3, TiposCorrectos, ExclusionDeLaCpu, OrdenDeConsola, PTL DEF Spec
===============================================================================
