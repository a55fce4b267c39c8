SPECIFICATION EjecucionSpec
CHECK_DEADLOCK FALSE
CONSTANTS
    P1 = P1
    P2 = P2
    Pids = {P1, P2}
    NULL = NULL
    GEN = GEN
    STDIN = STDIN
    STDOUT = STDOUT
    FS = FS
    NINGUNA = NINGUNA
    Interfaces = {GEN, STDIN, STDOUT, FS}
    Conexiones <- LasConexiones
    TipoInterfaz <- LosTipos
    Pseudocodigos <- LosPseudocodigos
    Textos <- LosTextos
    CantFrames = 4
    PageLength = 4
    Tamanios = {0, 4, 8, 12, 16, 20}
    Base = 4
    Asterisco = 2
    Basura = {3}
    MaxDesalojos = 2
    MaxAdelantada = 2
    Sobra = {0, 1}
INVARIANTS
    EjecucionTypeOK
    MarcosExclusivos
    DialogoConLaMemoria
    DireccionesVigentes
    AccesosFieles
    EscriturasAsentadas
    CargadoElQueCorre
PROPERTIES
    ImplementaMaquina
    TodosTerminan
