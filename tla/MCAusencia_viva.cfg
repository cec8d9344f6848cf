SPECIFICATION Spec
CONSTANTS
    u1 = u1
    k1 = k1
    Compromissos <- Um
    Horas = 5
    Semana = 7
    Fuso = 1
    DiasAtras = 2
    Adianta = 1
    MaxAgora = 14
    MaxInicios = 1
    MaxEdicoes = 1
    MaxFalhas = 1
    MaxFechos = 2
    NULL = NULL
PROPERTY FaltaRegistrada
