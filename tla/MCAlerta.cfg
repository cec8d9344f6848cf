SPECIFICATION Spec
CONSTANTS
    Procs = {p1, p2}
    Chaves = {k1}
    Motivos <- Sinais
    Defasagens <- Relogios
    Intervalo = 1
    Limiares = {0, 1}
    Destinatarios = {TRUE}
    CapCanal = 1
    MaxAgora = 2
    MaxPedidos = 2
    MaxFalhas = 0
    NULL = NULL
SYMMETRY Simetria
INVARIANTS
    TypeOK
    ResolvidoCoerente
    SinalNaoSePerde
CHECK_DEADLOCK FALSE
