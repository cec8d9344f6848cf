SPECIFICATION Spec
CONSTANTS
    Procs = {p1}
    Chaves = {k1}
    Motivos <- Nada
    Defasagens <- Relogios
    Intervalo = 1
    Limiares = {0, 1}
    Destinatarios = {TRUE}
    CapCanal = 1
    MaxAgora = 2
    MaxPedidos = 2
    MaxFalhas = 0
    NULL = NULL
PROPERTY AtrasoFechaNoCheckin
CHECK_DEADLOCK FALSE
