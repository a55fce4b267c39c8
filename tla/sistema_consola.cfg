SPECIFICATION Spec
CONSTANTS
    NULL = NULL
    R1 = R1
    R2 = R2
    I1 = I1
    I2 = I2
    MaxPid = 2
    Recursos = {R1}
    NombresRecursos = {R1}
    Instancias <- UnRecurso
    Quantum = 1
    Algoritmos = {"VRR"}
    Grado = 2
    Grados = {}
    Interfaces = {I1}
    NombresInterfaces = {I1, I2}
    Comandos = {"INICIAR_PROCESO", "INICIAR_PLANIFICACION", "FINALIZAR_NEW", "FINALIZAR_READY", "FINALIZAR_EXEC", "FINALIZAR_BLOCKED"}
    MaxCrear = 2
    MaxFinalizar = 1
    Programas <- ProgramasConsola
INVARIANTS
    TypeOK
    CadaPidEnUnLugar
    CpuExclusiva
    CurrentEsElQueCorre
CHECK_DEADLOCK FALSE
