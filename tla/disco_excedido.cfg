SPECIFICATION DialFSSpec
CONSTANTS
    NULL = NULL
    A1 = A1
    A2 = A2
    A3 = A3
    Archivos = {A1, A2, A3}
    BLOCK_COUNT = 8
    BLOCK_SIZE = 2
    Tamanios <- TamaniosPosibles
INVARIANTS
    DentroDelDisco
