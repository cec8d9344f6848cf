------------------------------ MODULE Destinos ------------------------------
(***************************************************************************)
(* Who is told of an alert: the escalation levels and their recipients     *)
(* (config_escalonamento_destinatarios), the supervisors of a post and the *)
(* resolution of internal/service/escalonamento_service.go, which reads    *)
(* them in three or more SELECTs while requests change them.               *)
(*                                                                         *)
(* A SELECT, a statement that commits by itself, and the last statement of *)
(* a transaction with its COMMIT are a step each.  The database runs READ  *)
(* COMMITTED: a statement sees what was committed when it began.  Every    *)
(* statement needs a connection of the pool of internal/db/postgres.go;    *)
(* ListByEmpresa keeps one while it asks for another, and a transaction    *)
(* keeps its own.                                                          *)
(*                                                                         *)
(* One post is followed, since links to other posts are not read, and one  *)
(* company.  Users are never deleted, and another company's user is like   *)
(* one without a role.                                                     *)
(***************************************************************************)
EXTENDS Integers, Sequences, FiniteSets, Functions

CONSTANTS
    Usuarios,
    Papeis,    \* the roles each user may be given
    Niveis,    \* ids of levels
    Padrao,    \* the level of the system
    Listas,    \* the lists of recipients that requests carry
    Vinculaveis, \* the users that may be linked to the post
    Pedidos,   \* requests in execution,
    Operacoes, \* what each of them may ask for,
    Editaveis, \* and the levels they may ask it of
    Sinais,    \* resolutions in execution
    SemPrazo,  \* those of the timeout checker, whose context has no deadline
    Conexoes,  \* size of the pool
    NULL

ASSUME ConstantesOK ==
    /\ Papeis \in [Usuarios -> (SUBSET {"admin", "supervisor", "vigia"}) \ {{}}]
    /\ Padrao \in Niveis /\ Editaveis \subseteq Niveis /\ NULL \notin Niveis \cup Usuarios
    /\ Listas \subseteq Seq(Usuarios) \ {<<>>}
    /\ Vinculaveis \subseteq Usuarios
    /\ Operacoes \in [Pedidos -> SUBSET {"criar", "atualizar", "usuarios", "remover", "listar"}]
    /\ SemPrazo \subseteq Sinais

\* A resolution needs two connections; those that may wait for ever must not be able
\* to hold all of them.
ASSUME PoolBasta == Conexoes \in Nat /\ Cardinality(SemPrazo) < Conexoes

VARIABLES
    papel,          \* usuarios.role
    destinatarios,  \* config_escalonamento and its recipients; NULL is no level
    vinculos,       \* posto_supervisores of the post
    pedido,
    sinal

vars == <<papel, destinatarios, vinculos, pedido, sinal>>
-----------------------------------------------------------------------------
Ocioso == [pc |-> "livre", op |-> NULL, nivel |-> NULL, lista |-> <<>>, visto |-> {},
           falta |-> {}]

\* `admin' and `ligado' are the recipients of a level that have been admin, or linked,
\* ever since the resolution began, none if one of its queries failed unseen; `apto'
\* the users that were admin or linked at some time since.
Calmo == [pc |-> "livre", nivel |-> NULL, falta |-> {}, achados |-> {}, admins |-> {},
          admin |-> {}, ligado |-> {}, apto |-> {}]

\* A level always has a recipient: every request about it names one, whatever
\* transactions overlap on its list and whichever of them fail.
TypeOK ==
    /\ papel \in [Usuarios -> {"admin", "supervisor", "vigia"}]
    /\ destinatarios \in [Niveis -> ((SUBSET Usuarios) \ {{}}) \cup {NULL}]
    /\ vinculos \subseteq Vinculaveis
    /\ pedido \in [Pedidos ->
          [pc : {"livre", "chegou", "gravar", "comecou", "esperar", "inserir", "cursor"},
           op : {"criar", "atualizar", "usuarios", "remover", "listar", NULL},
           nivel : Niveis \cup {NULL}, lista : Listas \cup {<<>>},
           visto : SUBSET Usuarios, falta : SUBSET Niveis]]
    /\ sinal \in [Sinais ->
          [pc : {"livre", "config", "lista", "cursor", "admins", "supervisores", "pronto"},
           nivel : Niveis \cup {NULL}, falta : SUBSET Niveis,
           achados : SUBSET Usuarios, admins : SUBSET Usuarios,
           admin : SUBSET (Niveis \X Usuarios), ligado : SUBSET (Niveis \X Usuarios),
           apto : SUBSET Usuarios]]

Init ==
    /\ papel \in {f \in [Usuarios -> {"admin", "supervisor", "vigia"}] :
                     \A u \in Usuarios : f[u] \in Papeis[u]}
    /\ \E u \in Usuarios :                                     \* ProvisionarPadrao
          /\ papel[u] = "admin"
          /\ destinatarios = [n \in Niveis |-> IF n = Padrao THEN {u} ELSE NULL]
    /\ vinculos = {}
    /\ pedido = [p \in Pedidos |-> Ocioso]
    /\ sinal = [s \in Sinais |-> Calmo]
-----------------------------------------------------------------------------
(* Tables, and what the resolutions in execution witness of them.          *)

Existentes(d) == {n \in Niveis : d[n] # NULL}

\* listarDestinatarios
Lista(d, n) == IF d[n] = NULL THEN {} ELSE d[n]

Listados(d, ns) == {x \in ns \X Usuarios : x[2] \in Lista(d, x[1])}

Alcance(s) == IF sinal[s].nivel = NULL THEN Niveis ELSE {sinal[s].nivel}

Admins(f) == {u \in Usuarios : f[u] = "admin"}

Testemunha(s, f, d, v) ==
    IF sinal[s].pc \in {"livre", "pronto"} THEN sinal[s]
    ELSE LET todos == Listados(d, Alcance(s)) IN
         [sinal[s] EXCEPT
            !.admin   = {x \in @ \cap todos : x[2] \in Admins(f)},
            !.ligado  = {x \in @ \cap todos : x[2] \in v},
            !.apto    = @ \cup Admins(f) \cup v]

Tabelas(f, d, v) ==
    /\ papel' = f /\ destinatarios' = d /\ vinculos' = v
    /\ sinal' = [s \in Sinais |-> Testemunha(s, f, d, v)]

\* The pool: an open cursor or transaction keeps a connection, and so does a statement
\* that waits for a lock.
EmUso == {p \in Pedidos : pedido[p].pc \in {"comecou", "esperar", "inserir", "cursor"}}
         \cup {s \in Sinais : sinal[s].pc = "cursor"}
HaConexao == Cardinality(EmUso) < Conexoes
-----------------------------------------------------------------------------
(* Roles and links, a statement each: UsuarioService.Update, AddSupervisor *)
(* (ON CONFLICT DO NOTHING; the role is not looked at), RemoveSupervisor.  *)

MudarPapel(u, r) ==
    /\ HaConexao
    /\ papel[u] # r
    /\ Tabelas([papel EXCEPT ![u] = r], destinatarios, vinculos)
    /\ UNCHANGED pedido

AddSupervisor(u) ==
    /\ HaConexao
    /\ Tabelas(papel, destinatarios, vinculos \cup {u})
    /\ UNCHANGED pedido

RemoveSupervisor(u) ==
    /\ HaConexao
    /\ Tabelas(papel, destinatarios, vinculos \ {u})
    /\ UNCHANGED pedido
-----------------------------------------------------------------------------
(* Requests about levels.                                                  *)

Passa(p, r)  == pedido' = [pedido EXCEPT ![p] = r]
Intocadas    == UNCHANGED <<papel, destinatarios, vinculos, sinal>>
Citado(n)    == (\E p \in Pedidos : n = pedido[p].nivel \/ n \in pedido[p].falta)
                \/ \E s \in Sinais : n = sinal[s].nivel \/ n \in sinal[s].falta

\* A request waits for a connection before it reads anything.
Chegar(p) == pedido[p].pc = "livre" /\ Passa(p, [Ocioso EXCEPT !.pc = "chegou"]) /\ Intocadas

\* validarUsuariosDaEmpresa
UsuariosValidos(l) == \A u \in Range(l) : papel[u] \in {"admin", "supervisor"}

\* FindByIDEmpresa and the users of the list.  They are read from different tables
\* and not used again, so one step stands for these SELECTs.
Conferir(p, op) ==
    /\ pedido[p].pc = "chegou" /\ op \in Operacoes[p]
    /\ HaConexao
    /\ \E n \in Editaveis, l \in Listas :
          /\ CASE op = "criar"     -> destinatarios[n] = NULL /\ ~Citado(n)
               [] op = "atualizar" -> destinatarios[n] # NULL /\ n # Padrao
               [] op = "usuarios"  -> destinatarios[n] # NULL
          /\ UsuariosValidos(l)
          /\ Passa(p, [Ocioso EXCEPT !.pc = "gravar", !.op = op, !.nivel = n, !.lista = l])
    /\ Intocadas

ConferirRemover(p) ==
    /\ pedido[p].pc = "chegou" /\ "remover" \in Operacoes[p]
    /\ HaConexao
    /\ \E n \in (Editaveis \cap Existentes(destinatarios)) \ {Padrao} :
          Passa(p, [Ocioso EXCEPT !.pc = "gravar", !.op = "remover", !.nivel = n])
    /\ Intocadas

\* Begin, or the connection of the DELETE of DeleteByID.
Conectar(p) ==
    /\ pedido[p].pc = "gravar"
    /\ HaConexao
    /\ Passa(p, [pedido[p] EXCEPT !.pc = "comecou"])
    /\ Intocadas

\* Create: one transaction.  A user named twice violates the unique constraint.
Criar(p) ==
    LET r == pedido[p] IN
    /\ r.pc = "comecou" /\ r.op = "criar"
    /\ IsInjective(r.lista)
    /\ Tabelas(papel, [destinatarios EXCEPT ![r.nivel] = Range(r.lista)], vinculos)
    /\ Passa(p, Ocioso)

\* Transactions that deleted recipients which p wants to delete too.
Segura(q, n, visto) ==
    pedido[q].pc = "inserir" /\ pedido[q].nivel = n /\ pedido[q].visto \cap visto # {}

\* Update locks the row of the level, which another Update waits for.
LinhaTravada(n) ==
    \E q \in Pedidos : pedido[q].op = "atualizar" /\ pedido[q].nivel = n
                       /\ pedido[q].pc \in {"esperar", "inserir"}

\* (mutant) The DELETE commits by itself.
LimparSemTransacao(p) ==
    LET r == pedido[p] IN
    /\ r.pc = "comecou" /\ r.op \in {"atualizar", "usuarios"}
    /\ destinatarios[r.nivel] # NULL
    /\ Tabelas(papel, [destinatarios EXCEPT ![r.nivel] = {}], vinculos)
    /\ Passa(p, [r EXCEPT !.pc = "inserir"])

\* The DELETE of Update and of UpdateUsuarios: `visto' are the rows it sees.
Limpar(p) ==
    LET r == pedido[p]
        visto == Lista(destinatarios, r.nivel)
    IN  /\ r.pc = "comecou" /\ r.op \in {"atualizar", "usuarios"}
        /\ r.op = "atualizar" => destinatarios[r.nivel] # NULL /\ ~LinhaTravada(r.nivel)
        /\ Passa(p, [r EXCEPT !.visto = visto,
              !.pc = IF \E q \in Pedidos : Segura(q, r.nivel, visto) THEN "esperar" ELSE "inserir"])
        /\ Intocadas

\* The other transaction ended.
Obter(p) ==
    LET r == pedido[p] IN
    /\ r.pc = "esperar"
    /\ \A q \in Pedidos : ~Segura(q, r.nivel, r.visto)
    /\ Passa(p, [r EXCEPT !.pc = "inserir"])
    /\ Intocadas

\* inserirDestinatariosEscalonamento and COMMIT.  Rows that came after the DELETE
\* began stay, and a user among them is a conflict.
Inserir(p) ==
    LET r == pedido[p]
        ficam == Lista(destinatarios, r.nivel) \ r.visto
    IN  /\ r.pc = "inserir"
        /\ destinatarios[r.nivel] # NULL
        /\ IsInjective(r.lista) /\ Range(r.lista) \cap ficam = {}
        /\ Tabelas(papel, [destinatarios EXCEPT ![r.nivel] = ficam \cup Range(r.lista)], vinculos)
        /\ pedido' = [q \in Pedidos |->
               IF q = p THEN Ocioso
               ELSE IF pedido[q].nivel = r.nivel THEN [pedido[q] EXCEPT !.visto = @ \ r.visto]
               ELSE pedido[q]]

\* DeleteByID waits for the transactions that hold the level or rows of it, and takes
\* its recipients along (ON DELETE CASCADE).
Remover(p) ==
    LET n == pedido[p].nivel IN
    /\ pedido[p].pc = "comecou" /\ pedido[p].op = "remover"
    /\ destinatarios[n] # NULL
    /\ ~LinhaTravada(n)
    /\ \A q \in Pedidos : ~Segura(q, n, Usuarios)
    /\ Tabelas(papel, [destinatarios EXCEPT ![n] = NULL], vinculos)
    /\ Passa(p, Ocioso)

\* GET /config/escalonamento: ListByEmpresa, as in the resolution.
Listar(p) ==
    /\ pedido[p].pc = "chegou" /\ "listar" \in Operacoes[p]
    /\ HaConexao
    /\ Passa(p, [Ocioso EXCEPT !.pc = "cursor", !.op = "listar", !.falta = Existentes(destinatarios)])
    /\ Intocadas

ListarLinha(p) ==
    LET r == pedido[p] IN
    /\ r.pc = "cursor"
    /\ HaConexao
    /\ \E n \in r.falta :
          Passa(p, IF r.falta = {n} THEN Ocioso ELSE [r EXCEPT !.falta = @ \ {n}])
    /\ Intocadas

\* (mutant) The queries inside the cursor do not get the deadline.
RecusarForaDoCursor(p) ==
    /\ pedido[p].pc \notin {"livre", "cursor"}
    /\ Passa(p, Ocioso)
    /\ Intocadas

\* A check that fails, an error of the database, a victim of its deadlock detection or
\* the deadline of 30 seconds: the transaction is rolled back, the cursor is closed.
Recusar(p) ==
    /\ pedido[p].pc # "livre"
    /\ Passa(p, Ocioso)
    /\ Intocadas
-----------------------------------------------------------------------------
(* The resolution: ResolveDestinatariosPorNivelEPosto for a signal with a  *)
(* level, and, over all levels, the same with none or                      *)
(* ResolveDestinatariosPorPosto.                                           *)

Vai(s, r) == sinal' = [sinal EXCEPT ![s] = r] /\ UNCHANGED <<papel, destinatarios, vinculos, pedido>>

Sinalizar(s) ==
    /\ sinal[s].pc = "livre"
    /\ \E n \in Existentes(destinatarios) \cup {NULL} :
          LET todos == Listados(destinatarios, IF n = NULL THEN Niveis ELSE {n}) IN
          Vai(s, [Calmo EXCEPT !.pc = "config", !.nivel = n,
                    !.admin   = {x \in todos : x[2] \in Admins(papel)},
                    !.ligado  = {x \in todos : x[2] \in vinculos},
                    !.apto    = Admins(papel) \cup vinculos])

\* FindByIDEmpresa: without its level the signal ends with an error.
LerNivel(s) ==
    LET r == sinal[s] IN
    /\ r.pc = "config" /\ r.nivel # NULL
    /\ HaConexao
    /\ Vai(s, IF destinatarios[r.nivel] = NULL THEN Calmo ELSE [r EXCEPT !.pc = "lista"])

\* ListByEmpresa opens its cursor.
AbrirCursor(s) ==
    LET r == sinal[s] IN
    /\ r.pc = "config" /\ r.nivel = NULL
    /\ HaConexao
    /\ Vai(s, [r EXCEPT !.pc = "cursor", !.falta = Existentes(destinatarios)])

\* Nobody listed: nothing to filter.
AposLista(r) ==
    IF r.achados = {} THEN [r EXCEPT !.pc = "pronto"] ELSE [r EXCEPT !.pc = "admins"]

\* listarDestinatarios, of the level or of a row of the cursor.  It swallows its errors.
LerLista(s) ==
    LET r == sinal[s] IN
    /\ HaConexao
    /\ \E falha \in BOOLEAN :
       \E n \in IF r.pc = "lista" THEN {r.nivel} ELSE r.falta :
          LET lido == IF falha THEN [r EXCEPT !.falta = @ \ {n}, !.admin = {}, !.ligado = {}]
                      ELSE [r EXCEPT !.falta = @ \ {n}, !.achados = @ \cup Lista(destinatarios, n)]
          IN  /\ r.pc \in {"lista", "cursor"}
              /\ Vai(s, IF lido.falta = {} THEN AposLista(lido) ELSE lido)

\* (mutant) The query does not leave supervisors out.
LerAdminsSemPapel(s) ==
    LET r == sinal[s] IN
    /\ r.pc = "admins"
    /\ HaConexao
    /\ Vai(s, [r EXCEPT !.pc = "supervisores",
                        !.admins = {u \in r.achados : papel[u] \in {"admin", "supervisor"}}])

\* FindAdminIDs
LerAdmins(s) ==
    LET r == sinal[s] IN
    /\ r.pc = "admins"
    /\ HaConexao
    /\ Vai(s, [r EXCEPT !.pc = "supervisores", !.admins = r.achados \cap Admins(papel)])

\* (mutant) Admins need the link too.
FiltraSemAdmins(r, supervisores) == r.achados \cap supervisores

Filtra(r, supervisores) == r.achados \cap (r.admins \cup supervisores)

\* ListSupervisoresByPosto and the filter.
LerSupervisores(s) ==
    LET r == sinal[s] IN
    /\ r.pc = "supervisores"
    /\ HaConexao
    /\ Vai(s, [r EXCEPT !.pc = "pronto", !.admins = {}, !.achados = Filtra(r, vinculos)])

\* The alert is created, and handed to the dispatcher with these recipients: see Alerta.
Entregar(s) == sinal[s].pc = "pronto" /\ Vai(s, Calmo)

\* An error that is returned, or the deadline of a request: no alert.
Desistir(s) == sinal[s].pc \notin {"livre", "pronto"} /\ Vai(s, Calmo)
-----------------------------------------------------------------------------
Resolver(s) == LerNivel(s) \/ AbrirCursor(s) \/ LerLista(s) \/ LerAdmins(s) \/ LerSupervisores(s)

Next ==
    \/ \E u \in Usuarios : \E r \in Papeis[u] : MudarPapel(u, r)
    \/ \E u \in Vinculaveis : AddSupervisor(u) \/ RemoveSupervisor(u)
    \/ \E p \in Pedidos :
          \/ Chegar(p) \/ (\E op \in {"criar", "atualizar", "usuarios"} : Conferir(p, op))
          \/ ConferirRemover(p) \/ Conectar(p) \/ Criar(p) \/ Limpar(p) \/ Obter(p) \/ Inserir(p) \/ Remover(p)
          \/ Listar(p) \/ ListarLinha(p) \/ Recusar(p)
    \/ \E s \in Sinais : Sinalizar(s) \/ Resolver(s) \/ Entregar(s) \/ Desistir(s)

\* Requests end by their deadline.  The pool serves whoever waits in the order of
\* arrival, so a resolution that finds a connection free again and again gets one.
Fairness ==
    /\ \A p \in Pedidos : WF_vars(Recusar(p))
    /\ \A s \in Sinais : SF_vars(Resolver(s)) /\ WF_vars(Entregar(s))
    /\ \A s \in Sinais \ SemPrazo : WF_vars(Desistir(s))

Spec == Init /\ [][Next]_vars /\ Fairness
-----------------------------------------------------------------------------
(* Properties.                                                             *)

\* Who stayed a recipient of the level, and an admin or linked to the post, for all of
\* the resolution is told of the alert, unless a query failed and the error was
\* swallowed (handler/posto.go: admins get the alerts of every post, a supervisor
\* those of his posts).
NinguemEsquecido ==
    \A s \in Sinais :
        sinal[s].pc = "pronto" =>
           \A x \in sinal[s].admin \cup sinal[s].ligado : x[2] \in sinal[s].achados

\* Who is told of the alert was an admin or linked to the post at some time during the
\* resolution.
NinguemIndevido ==
    \A s \in Sinais : sinal[s].pc = "pronto" => sinal[s].achados \subseteq sinal[s].apto

\* A resolution ends, also that of the timeout checker, which waits for a second
\* connection without a deadline while it keeps one.
ResolucaoTermina == \A s \in Sinais : sinal[s].pc # "livre" ~> sinal[s].pc = "livre"
=============================================================================
