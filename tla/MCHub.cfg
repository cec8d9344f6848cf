SPECIFICATION Spec
CONSTANTS
    c1 = c1
    c2 = c2
    e1 = e1
    Empresas = {e1}
    Clientes = {c1, c2}
    EmpresaDe <- UmaEmpresa
    Emissores = {b1, b2}
    CapEnvio = 1
    MaxEventos = 2
INVARIANTS
    TypeOK
    SemPanico
    FechadoSaiu
PROPERTIES
    BroadcastTermina
    PerdeuDesconecta
    NadaVaza
CHECK_DEADLOCK FALSE
