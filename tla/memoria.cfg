SPECIFICATION MmuSpec
CONSTANTS
    NULL = NULL
    P1 = P1
    P2 = P2
    Pids = {P1, P2}
    CantFrames = 3
    PageLength = 2
    Tamanios <- TamaniosPosibles
    CantidadEntradas = 2
    Algoritmos = {"FIFO", "LRU"}
    PageNumbers = {0, 1}
    IntMax = 4
    MaxClock = 6
INVARIANTS
    MmuTypeOK
    MarcosExclusivos
    IdsSeguidos
    TamanioPedido
    TlbFiel
PROPERTIES
    VictimaLru
CHECK_DEADLOCK FALSE
