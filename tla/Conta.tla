-------------------------------- MODULE Conta --------------------------------
(***************************************************************************)
(* Users, posts and sessions.                                              *)
(*                                                                         *)
(* A row of usuarios or postos is read whole, changed in memory and        *)
(* written whole by a later statement (UsuarioService.Update and           *)
(* Deactivate, PostoHandler.Update, PostoService.Deactivate).  AuthService *)
(* reads a user, or a registered device and then its user, and issues a    *)
(* pair of tokens that nobody stores: they hold until they expire, with    *)
(* the role the user had when they were issued.                            *)
(*                                                                         *)
(* Each SQL statement is a step of its own, except queries whose answer    *)
(* only lets the request go on, which are one step together.  The requests *)
(* about rows come from an admin of the company, and whoever logs in knows *)
(* the password, or the secret of the device.                              *)
(***************************************************************************)
EXTENDS Integers, FiniteSets

CONSTANTS
    Usuarios,
    Postos,
    Nomes, Emails, Papeis,
    Novas,      \* rows that Create is asked for,
    Trocas,     \* changes that Update is; NULL is a field that is not sent
    Devices,
    Pedidos,    \* requests in execution,
    Operacoes,  \* and what each of them may ask for
    Acesso,     \* lifetime of an access token
    Renovacao,  \* and of a refresh token
    NULL

ASSUME ConstantesOK ==
    /\ Usuarios \cap Postos = {} /\ Papeis \subseteq {"admin", "supervisor", "vigia"}
    /\ NULL \notin Nomes /\ NULL \notin Emails /\ NULL \notin Usuarios /\ NULL \notin Postos
    /\ Novas \subseteq [nome : Nomes, email : Emails \cup {NULL}, papel : Papeis \cup {NULL},
                     ativo : BOOLEAN \cup {NULL}]
    /\ Trocas \subseteq [nome : Nomes \cup {NULL}, email : Emails \cup {NULL},
                     papel : Papeis \cup {NULL}, ativo : BOOLEAN \cup {NULL}]
    /\ Operacoes \in [Pedidos -> SUBSET {"criar", "atualizar", "desativar", "entrar"}]
    /\ Acesso \in Nat \ {0} /\ Renovacao \in Nat \ {0}

VARIABLES
    linhas,       \* the tables usuarios and postos, by id
    acesso,       \* what is left of the longest access token of a user with a role
    renovacao,    \* and of his longest refresh token
    dispositivos, \* sessoes_dispositivo: the owner of each registered device
    pedido

vars == <<linhas, acesso, renovacao, dispositivos, pedido>>
-----------------------------------------------------------------------------
Ids == Usuarios \cup Postos

\* A post has no email and no role.
Linha == [nome : Nomes, email : Emails \cup {NULL}, papel : Papeis \cup {NULL}, ativo : BOOLEAN]

ASSUME NuloOK == NULL \notin Linha

SemTroca == [nome |-> NULL, email |-> NULL, papel |-> NULL, ativo |-> NULL]

\* `so' is true while nobody else has written the row since this request read it.
Livre == [pc |-> "livre", id |-> NULL, lida |-> NULL, troca |-> SemTroca, so |-> TRUE]

TypeOK ==
    /\ linhas \in [Ids -> Linha \cup {NULL}]
    /\ acesso \in [Usuarios -> [Papeis -> 0..Acesso]]
    /\ renovacao \in [Usuarios -> 0..Renovacao]
    /\ dispositivos \in [Devices -> Usuarios \cup {NULL}]
    /\ pedido \in [Pedidos ->
          [pc : {"livre", "inserir", "conferir", "gravar", "dono", "emitir"},
           id : Ids \cup {NULL}, lida : Linha \cup {NULL},
           troca : Trocas \cup Novas \cup {SemTroca, [SemTroca EXCEPT !.ativo = FALSE]},
           so : BOOLEAN]]

Init ==
    /\ linhas = [i \in Ids |-> NULL]
    /\ acesso = [u \in Usuarios |-> [r \in Papeis |-> 0]]
    /\ renovacao = [u \in Usuarios |-> 0]
    /\ dispositivos = [d \in Devices |-> NULL]
    /\ pedido = [p \in Pedidos |-> Livre]
-----------------------------------------------------------------------------
Existe(i) == linhas[i] # NULL

Pede(p, op) == pedido[p].pc = "livre" /\ op \in Operacoes[p]

Vai(p, r) == pedido' = [pedido EXCEPT ![p] = r] /\ UNCHANGED <<linhas, acesso, renovacao, dispositivos>>

\* Another user has the email, or the name.
EmailDe(l, i) == l.email # NULL /\ \E j \in Usuarios \ {i} : Existe(j) /\ linhas[j].email = l.email
NomeDe(l, i)  == \E j \in Usuarios \ {i} : Existe(j) /\ linhas[j].nome = l.nome

\* What the table accepts: the CHECK and the unique constraints of migration 39.
Aceita(i, l) ==
    i \in Usuarios =>
       /\ l.papel = "vigia" \/ l.email # NULL
       /\ ~EmailDe(l, i) /\ ~NomeDe(l, i)

\* p writes the row i, if the table accepts it.
Escreve(p, i, l) ==
    /\ linhas' = IF Aceita(i, l) THEN [linhas EXCEPT ![i] = l] ELSE linhas
    /\ pedido' = [q \in Pedidos |->
          IF q = p THEN Livre
          ELSE IF pedido[q].id = i THEN [pedido[q] EXCEPT !.so = @ /\ ~Aceita(i, l)]
          ELSE pedido[q]]
    /\ UNCHANGED <<acesso, renovacao, dispositivos>>
-----------------------------------------------------------------------------
(* Rows.                                                                   *)

\* UsuarioService.Create and AuthService.Register: FindByEmail and FindByEmpresaNome.
Criar(p) ==
    /\ Pede(p, "criar")
    /\ \E i \in Usuarios, n \in Novas :
          /\ ~Existe(i) /\ \A q \in Pedidos : pedido[q].id # i
          /\ n.papel # NULL
          /\ ~EmailDe(n, i) /\ ~NomeDe(n, i)
          /\ Vai(p, [Livre EXCEPT !.pc = "inserir", !.id = i, !.troca = n])

\* The INSERT leaves `ativo' to its default, whatever was asked.
Inserir(p) ==
    LET n == pedido[p].troca IN
    /\ pedido[p].pc = "inserir"
    /\ Escreve(p, pedido[p].id, [n EXCEPT !.ativo = TRUE])

\* One statement; posts may share a name.
CriarPosto(p) ==
    /\ Pede(p, "criar")
    /\ \E i \in Postos, n \in Novas :
          /\ ~Existe(i) /\ n.papel = NULL
          /\ Escreve(p, i, [n EXCEPT !.ativo = TRUE])

\* FindByIDEmpresa, or FindByID of a post.
Atualizar(p) ==
    /\ Pede(p, "atualizar")
    /\ \E i \in Ids, x \in Trocas :
          /\ Existe(i)
          /\ i \in Postos => x.email = NULL /\ x.papel = NULL
          /\ Vai(p, [Livre EXCEPT !.pc = IF i \in Usuarios THEN "conferir" ELSE "gravar",
                                  !.id = i, !.lida = linhas[i], !.troca = x])

Desativar(p) ==
    /\ Pede(p, "desativar")
    /\ \E i \in Ids :
          /\ Existe(i)
          /\ Vai(p, [Livre EXCEPT !.pc = "gravar", !.id = i, !.lida = linhas[i],
                                  !.troca = [SemTroca EXCEPT !.ativo = FALSE]])

\* (mutant) A field that is not sent is written as the zero value.
TrocadaSemAtivo(l, x) ==
    [nome  |-> IF x.nome  = NULL THEN l.nome  ELSE x.nome,
     email |-> IF x.email = NULL THEN l.email ELSE x.email,
     papel |-> IF x.papel = NULL THEN l.papel ELSE x.papel,
     ativo |-> x.ativo = TRUE]

\* (mutant) A field that is not sent is written as it came.
TrocadaComNulo(l, x) ==
    [nome  |-> IF x.nome  = NULL THEN l.nome  ELSE x.nome,
     email |-> IF x.email = NULL THEN l.email ELSE x.email,
     papel |-> IF x.papel = NULL THEN l.papel ELSE x.papel,
     ativo |-> x.ativo]

Trocada(l, x) ==
    [nome  |-> IF x.nome  = NULL THEN l.nome  ELSE x.nome,
     email |-> IF x.email = NULL THEN l.email ELSE x.email,
     papel |-> IF x.papel = NULL THEN l.papel ELSE x.papel,
     ativo |-> IF x.ativo = NULL THEN l.ativo ELSE x.ativo]

\* The email a role needs (422), and FindByEmail and FindByEmpresaNome (409).
Conferir(p) ==
    LET r == pedido[p]
        l == Trocada(r.lida, r.troca)
    IN  /\ r.pc = "conferir"
        /\ Vai(p, IF Aceita(r.id, l) THEN [r EXCEPT !.pc = "gravar"] ELSE Livre)

\* The UPDATE of every column, by id.
Gravar(p) ==
    LET r == pedido[p] IN
    /\ r.pc = "gravar"
    /\ Escreve(p, r.id, Trocada(r.lida, r.troca))
-----------------------------------------------------------------------------
(* Sessions.                                                               *)

\* AuthMiddleware: a token that has not expired, of whatever role.
Autenticado(u) == \E r \in Papeis : acesso[u][r] > 0

Emite(p, u, l) == Vai(p, [Livre EXCEPT !.pc = "emitir", !.id = u, !.lida = l])

\* FindByEmail, or FindByEmpresaNome for a guard.
Login(p) ==
    /\ Pede(p, "entrar")
    /\ \E u \in Usuarios : Existe(u) /\ linhas[u].ativo /\ Emite(p, u, linhas[u])

\* (mutant) The user is not asked to be active still.
RefreshDeInativo(p) ==
    /\ Pede(p, "entrar")
    /\ \E u \in Usuarios :
          /\ renovacao[u] > 0 \/ Autenticado(u)
          /\ Emite(p, u, linhas[u])

\* The token is asked for its subject only, which an access token has too.
Refresh(p) ==
    /\ Pede(p, "entrar")
    /\ \E u \in Usuarios :
          /\ renovacao[u] > 0 \/ Autenticado(u)
          /\ linhas[u].ativo
          /\ Emite(p, u, linhas[u])

\* FindByDeviceID and the secret, then FindByID.
BiometricLogin(p) ==
    /\ Pede(p, "entrar")
    /\ \E d \in Devices :
          /\ dispositivos[d] # NULL
          /\ Vai(p, [Livre EXCEPT !.pc = "dono", !.id = dispositivos[d]])

LerDono(p) ==
    LET u == pedido[p].id IN
    /\ pedido[p].pc = "dono"
    /\ IF linhas[u].ativo THEN Emite(p, u, linhas[u]) ELSE Vai(p, Livre)

\* GenerateAccessToken and GenerateRefreshToken, from the row as it was read.
Emitir(p) ==
    LET u == pedido[p].id IN
    /\ pedido[p].pc = "emitir"
    /\ acesso' = [acesso EXCEPT ![u][pedido[p].lida.papel] = Acesso]
    /\ renovacao' = [renovacao EXCEPT ![u] = Renovacao]
    /\ pedido' = [pedido EXCEPT ![p] = Livre]
    /\ UNCHANGED <<linhas, dispositivos>>

\* The row of the device passes to the user, whoever had it.
RegisterBiometric(u, d) ==
    /\ Autenticado(u)
    /\ dispositivos' = [dispositivos EXCEPT ![d] = u]
    /\ UNCHANGED <<linhas, acesso, renovacao, pedido>>

\* With a device, its row goes, whoever has it; without, all of the user's.
Logout(u) ==
    /\ Autenticado(u)
    /\ \/ \E d \in Devices : dispositivos' = [dispositivos EXCEPT ![d] = NULL]
       \/ dispositivos' = [d \in Devices |-> IF dispositivos[d] = u THEN NULL ELSE dispositivos[d]]
    /\ UNCHANGED <<linhas, acesso, renovacao, pedido>>

Resta(n) == IF n = 0 THEN 0 ELSE n - 1

\* Tokens expire.
Tempo ==
    /\ acesso' = [u \in Usuarios |-> [r \in Papeis |-> Resta(acesso[u][r])]]
    /\ renovacao' = [u \in Usuarios |-> Resta(renovacao[u])]
    /\ UNCHANGED <<linhas, dispositivos, pedido>>
-----------------------------------------------------------------------------
Next ==
    \/ \E p \in Pedidos :
          \/ Criar(p) \/ Inserir(p) \/ CriarPosto(p) \/ Atualizar(p) \/ Desativar(p) \/ Conferir(p) \/ Gravar(p)
          \/ Login(p) \/ Refresh(p) \/ BiometricLogin(p) \/ LerDono(p) \/ Emitir(p)
    \/ \E u \in Usuarios : Logout(u) \/ (\E d \in Devices : RegisterBiometric(u, d))
    \/ Tempo

\* Of all this, only time passes for sure.
Spec == Init /\ [][Next]_vars /\ WF_vars(Tempo)
-----------------------------------------------------------------------------
(* Properties.                                                             *)

\* A request changes of a row what it was asked to change and nothing else, unless
\* another one wrote the row after it was read: then the whole row is written over,
\* and who was deactivated may be active again.
MudaSoOPedido ==
    [][\A i \in Ids :
          Existe(i) /\ linhas'[i] # linhas[i] =>
             \E p \in Pedidos :
                /\ pedido[p].pc = "gravar" /\ pedido[p].id = i
                /\ \A c \in {"nome", "email", "papel", "ativo"} :
                      linhas'[i][c] # linhas[i][c] =>
                         ~pedido[p].so \/ linhas'[i][c] = pedido[p].troca[c]]_vars

\* Nobody stores tokens, yet they follow the row in the end: who stays inactive, or
\* without a role, is left without access tokens of that role, though refresh tokens
\* live longer than access tokens and beget new ones.
TokenAcompanhaCadastro ==
    \A u \in Usuarios, r \in Papeis :
        <>[](Existe(u) => ~linhas[u].ativo \/ linhas[u].papel # r) => <>[](acesso[u][r] = 0)
=============================================================================
