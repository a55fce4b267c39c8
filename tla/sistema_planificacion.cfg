SPECIFICATION Spec
CONSTANTS
    NULL = NULL
    R1 = R1
    R2 = R2
    I1 = I1
    I2 = I2
    MaxPid = 3
    Recursos = {R1}
    NombresRecursos = {R1, R2}
    Instancias <- SinInstancias
    Quantum = 1
    Algoritmos = {"FIFO", "VRR"}
    Grado = 2
    Grados = {1, 3}
    Interfaces = {I1}
    NombresInterfaces = {I1, I2}
    Comandos = {"INICIAR_PROCESO", "INICIAR_PLANIFICACION", "DETENER_PLANIFICACION", "MULTIPROGRAMACION"}
    MaxCrear = 3
    MaxFinalizar = 0
    Programas <- ProgramasEsperas
INVARIANTS
    GradoRespetado
    SemaforosDeColas
    CpuExclusiva
    EsperasExactas
    PedidoEnCurso
CHECK_DEADLOCK FALSE
