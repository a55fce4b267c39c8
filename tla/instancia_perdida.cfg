SPECIFICATION Spec
CONSTANTS
    NULL = NULL
    R1 = R1
    R2 = R2
    I1 = I1
    I2 = I2
    MaxPid = 2
    Recursos = {R1}
    NombresRecursos = {R1}
    Instancias <- UnRecurso
    Quantum = 1
    Algoritmos = {"FIFO"}
    Grado = 2
    Grados = {}
    Interfaces = {I1}
    NombresInterfaces = {I1}
    Comandos = {"INICIAR_PROCESO", "INICIAR_PLANIFICACION", "FINALIZAR_BLOCKED"}
    MaxCrear = 2
    MaxFinalizar = 1
    Programas <- ProgramasConsola
PROPERTY
    UnaInstanciaPorVez
CHECK_DEADLOCK FALSE
