SPECIFICATION Spec
CONSTANTS
    Usuarios = {u1}
    Devices = {d1, d2}
    Turnos = {t1, t2}
    Procs = {p1, p2}
    Pins = {pinA}
    Senhas = {"ok"}
    Desvios = {FALSE}
    Duracoes = {1}
    ValidadePin = 1
    MaxAgora = 0
    MaxFalhas = 0
    NULL = NULL
SYMMETRY Simetria
INVARIANTS
    AtivosLimitados
PROPERTIES
    PinDeUsoUnico
    PainelAcompanha
CHECK_DEADLOCK FALSE
