SPECIFICATION Spec
CONSTANTS
    u1 = u1
    k1 = k1
    Compromissos <- ComNoite
    Horas = 6
    Semana = 7
    Fuso = 1
    DiasAtras = 2
    Adianta = 1
    MaxAgora = 11
    MaxInicios = 1
    MaxEdicoes = 0
    MaxFalhas = 0
    MaxFechos = 2
    NULL = NULL
PROPERTY FaltaNoturnaRegistrada
