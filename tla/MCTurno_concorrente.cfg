SPECIFICATION Spec
CONSTANTS
    Usuarios = {u1}
    Devices = {d1}
    Turnos = {t1}
    Procs = {p1, p2, p3}
    Pins = {pinA}
    Senhas = {"emergencia"}
    Desvios = {FALSE}
    Duracoes = {1}
    ValidadePin = 1
    MaxAgora = 2
    MaxFalhas = 1
    NULL = NULL
SYMMETRY Simetria
INVARIANTS
    TypeOK
    SessaoCoerente
    FimRealSoFinalizado
    SinalTemAlerta
    AtivoTemCheckin
PROPERTIES
    ImplementaPlantao
    FinalizadoEFinal
    RevogadoNaoAge
CHECK_DEADLOCK FALSE
