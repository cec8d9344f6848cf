SPECIFICATION Spec
CONSTANTS
    n1 = n1
    c0 = c0
    c1 = c1
    c2 = c2
    Vigias = {v1, v2}
    Niveis = {padrao, n1}
    Padrao = padrao
    Codigos = {c0, c1, c2}
    Curtos = {c0}
    Ids = {s1, s2}
    Pedidos = {p1, p2}
    Novas <- TodasNovas
    Trocas <- TodasTrocas
    Lotes <- DoisLotes
    NULL = NULL
SYMMETRY Simetria
INVARIANTS
    TypeOK
    NiveisCoerentes
    ErroInternoTemCausa
    SinalPerdidoFoiTrocado
PROPERTIES
    ObrigatoriasFicam
CHECK_DEADLOCK FALSE
