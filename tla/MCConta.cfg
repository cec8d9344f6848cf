SPECIFICATION Spec
CONSTANTS
    n1 = n1
    n2 = n2
    e1 = e1
    p1 = p1
    p2 = p2
    Usuarios = {u1, u2}
    Postos = {k1}
    Nomes = {n1, n2}
    Emails = {e1}
    Papeis = {"admin", "vigia"}
    Novas <- NovasLinhas
    Trocas <- UmCampo
    Devices = {d1}
    Pedidos = {p1, p2}
    Operacoes <- DoisPapeis
    Acesso = 1
    Renovacao = 2
    NULL = NULL
INVARIANTS
    TypeOK
PROPERTIES
    MudaSoOPedido
    TokenAcompanhaCadastro
