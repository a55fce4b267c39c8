SPECIFICATION Spec
CONSTANTS
    NULL = NULL
    R1 = R1
    R2 = R2
    I1 = I1
    I2 = I2
    MaxPid = 2
    Recursos = {R1}
    NombresRecursos = {R1}
    Instancias <- UnRecurso
    Quantum = 1
    Algoritmos = {"FIFO"}
    Grado = 1
    Grados = {}
    Interfaces = {I1}
    NombresInterfaces = {I1}
    Comandos = {"INICIAR_PROCESO", "INICIAR_PLANIFICACION", "FINALIZAR_NEW"}
    MaxCrear = 3
    MaxFinalizar = 1
    Programas <- ProgramasPlanificacion
INVARIANT
    GradoComoTope
CHECK_DEADLOCK FALSE
