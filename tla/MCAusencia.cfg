SPECIFICATION Spec
CONSTANTS
    u1 = u1
    k1 = k1
    Compromissos <- Diurnos
    Horas = 5
    Semana = 7
    Fuso = 1
    DiasAtras = 1
    Adianta = 1
    MaxAgora = 9
    MaxInicios = 1
    MaxEdicoes = 1
    MaxFalhas = 1
    MaxFechos = 2
    NULL = NULL
INVARIANTS
    TypeOK
    UmRegistroPorFalta
    QuemVeioNaoFaltou
    AtrasadoTemAlerta
