SPECIFICATION FairSpec
CONSTANTS
    NULL = NULL
    R1 = R1
    R2 = R2
    I1 = I1
    I2 = I2
    MaxPid = 2
    Recursos = {R1}
    NombresRecursos = {R1}
    Instancias <- UnRecurso
    Quantum = 1
    Algoritmos = {"FIFO", "RR", "VRR"}
    Grado = 1
    Grados = {1, 2}
    Interfaces = {I1}
    NombresInterfaces = {I1}
    Comandos = {"INICIAR_PROCESO", "INICIAR_PLANIFICACION", "DETENER_PLANIFICACION", "MULTIPROGRAMACION"}
    MaxCrear = 2
    MaxFinalizar = 0
    Programas <- ProgramasPlanificacion
PROPERTIES
    TodoTermina
    BajarTermina
CHECK_DEADLOCK FALSE
