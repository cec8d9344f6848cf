SPECIFICATION Spec
CONSTANTS
    ana = ana
    bia = bia
    p1 = p1
    p2 = p2
    Usuarios = {ana, bia}
    Papeis <- PapeisDeDuas
    Niveis = {padrao, n1}
    Padrao = padrao
    Listas <- DuasListas
    Vinculaveis = {ana}
    Pedidos = {p1, p2}
    Operacoes <- DoisPapeis
    Editaveis = {n1}
    Sinais = {s1}
    SemPrazo = {s1}
    Conexoes = 2
    NULL = NULL
INVARIANTS
    TypeOK
    NinguemEsquecido
    NinguemIndevido
PROPERTIES
    ResolucaoTermina
