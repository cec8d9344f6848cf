SPECIFICATION Spec
CONSTANTS
    Procs = {p1}
    Chaves = {k1}
    Motivos <- Um
    Defasagens <- Rapidos
    Intervalo = 1
    Limiares = {0, 1}
    Destinatarios = {TRUE}
    CapCanal = 1
    MaxAgora = 2
    MaxPedidos = 2
    MaxFalhas = 1
    NULL = NULL
PROPERTIES
    AtrasoDetectado
    Notifica
    ImplementaOcorrencias
CHECK_DEADLOCK FALSE
