------------------------------- MODULE Senhas -------------------------------
(***************************************************************************)
(* The guards' passwords and the escalation levels they are tied to.       *)
(*                                                                         *)
(* internal/service/senha_vigia_service.go checks a request against what   *)
(* several SELECTs return and writes in a last statement; the constraints  *)
(* of the table senhas_vigia are checked by that statement only.  Levels   *)
(* (config_escalonamento) come and go by other requests, and guards type   *)
(* passwords meanwhile.  Each SQL statement is a step of its own, and so   *)
(* is the arrival of a request at its handler.                             *)
(*                                                                         *)
(* There is one company; the id of another one's row is like an id that is *)
(* not in the table.  An id may be given again once neither the tables nor *)
(* a request in execution hold it, for then nothing can tell it from a new *)
(* one.                                                                    *)
(***************************************************************************)
EXTENDS Integers, Sequences, FiniteSets

CONSTANTS
    Vigias,
    Niveis,    \* ids of levels
    Padrao,    \* the level of the system
    Codigos,   \* codes the validator lets in: two to six digits
    Curtos,    \* those of less than four digits
    Ids,       \* ids of passwords
    Pedidos,   \* requests in execution
    Novas,     \* passwords that clients ask for,
    Lotes,     \* batches of them,
    Trocas,    \* and changes; NULL is a field that is not sent
    NULL

ASSUME ConstantesOK ==
    /\ Padrao \in Niveis
    /\ Curtos \subseteq Codigos
    /\ NULL \notin Vigias \cup Niveis \cup Codigos \cup Ids
    /\ Novas \subseteq [tipo : {"ok", "emergencia", "customizada"},
                     codigo : Codigos, nivel : Niveis \cup {NULL}]
    /\ Lotes \subseteq Seq(Novas) \ {<<>>}
    /\ Trocas \subseteq [codigo : Codigos \cup {NULL}, nivel : Niveis \cup {NULL}]

VARIABLES
    senhas,    \* the table senhas_vigia, by id
    niveis,    \* the levels in config_escalonamento
    proc       \* requests

vars == <<senhas, niveis, proc>>
-----------------------------------------------------------------------------
Tipos == {"ok", "emergencia", "customizada"}

Senha == [dono : Vigias, tipo : Tipos, codigo : Codigos, nivel : Niveis \cup {NULL}]

ASSUME NuloOK == NULL \notin Senha

SemTroca == [codigo |-> NULL, nivel |-> NULL]

Passos == {"livre", "validar", "listar", "empresa", "inserir", "ler", "outras",
           "nivel", "todas", "gravar", "apagar", "apagarNivel", "resolver",
           "perdido", "respondido"}

\* `so' is true while no other request has written since this one, about a password,
\* arrived; `curto' that it carries a code of less than four digits.
Pedido == [pc : Passos, dono : Vigias \cup {NULL},
           novas : {<<>>} \cup {<<n>> : n \in Novas} \cup Lotes, feitas : Nat,
           alvo : Ids \cup Niveis \cup {NULL}, troca : Trocas \cup {SemTroca}, lida : Senha \cup {NULL},
           so : BOOLEAN, curto : BOOLEAN, status : Nat]

Livre == [pc |-> "livre", dono |-> NULL, novas |-> <<>>, feitas |-> 0, alvo |-> NULL,
          troca |-> SemTroca, lida |-> NULL, so |-> TRUE, curto |-> FALSE, status |-> 0]

TypeOK ==
    /\ senhas \in [Ids -> Senha \cup {NULL}]
    /\ niveis \subseteq Niveis
    /\ proc \in [Pedidos -> Pedido]

Init ==
    /\ senhas = [s \in Ids |-> NULL]
    /\ niveis = {Padrao}
    /\ proc = [p \in Pedidos |-> Livre]
-----------------------------------------------------------------------------
(* Queries and constraints.                                                *)

Linhas(t)        == {s \in Ids : t[s] # NULL}
ListByUsuario(v) == {s \in Linhas(senhas) : senhas[s].dono = v}
Linha(v, n)      == [dono |-> v, tipo |-> n.tipo, codigo |-> n.codigo, nivel |-> n.nivel]

\* The CHECKs, the foreign key and the unique indexes.  `customizada' is unique per
\* level in the whole company, the other kinds are unique per guard.
Restricoes(t) ==
    /\ \A s \in Linhas(t) :
          /\ t[s].codigo \notin Curtos
          /\ t[s].tipo # "ok" => t[s].nivel # NULL
          /\ t[s].nivel \in niveis \cup {NULL}
    /\ \A s, r \in Linhas(t) :
          s # r =>
             /\ t[s].dono = t[r].dono => t[s].codigo # t[r].codigo
             /\ t[s].dono = t[r].dono /\ t[s].tipo = t[r].tipo => t[s].tipo = "customizada"
             /\ t[s].tipo = "customizada" /\ t[r].tipo = "customizada"
                   => t[s].nivel # t[r].nivel

\* (mutant) The kind of the level is not looked at for customizada.
validarSoExistencia(tipo, n) ==
    \/ tipo = "ok" /\ n = NULL
    \/ tipo = "emergencia" /\ n \in niveis /\ n = Padrao
    \/ tipo = "customizada" /\ n \in niveis

\* No error, in the words of the code.
validarNivel(tipo, n) ==
    \/ tipo = "ok" /\ n = NULL
    \/ tipo = "emergencia" /\ n \in niveis /\ n = Padrao
    \/ tipo = "customizada" /\ n \in niveis /\ n # Padrao

codigoDuplicado(linhas, c) == \E s \in linhas : senhas[s].codigo = c
nivelDuplicado(linhas, n)  == \E s \in linhas : n # NULL /\ senhas[s].nivel = n

\* Kinds and codes of the batch next to those of the guard.
TipoRepetido(v, ns) ==
    \E i \in DOMAIN ns :
        /\ ns[i].tipo # "customizada"
        /\ \/ \E s \in ListByUsuario(v) : senhas[s].tipo = ns[i].tipo
           \/ \E j \in DOMAIN ns : j # i /\ ns[j].tipo = ns[i].tipo
CodigoRepetido(v, ns) ==
    \E i \in DOMAIN ns :
        \/ codigoDuplicado(ListByUsuario(v), ns[i].codigo)
        \/ \E j \in DOMAIN ns : j # i /\ ns[j].codigo = ns[i].codigo
NivelRepetido(ns) ==
    \E i \in DOMAIN ns :
        /\ ns[i].tipo = "customizada"
        /\ \/ nivelDuplicado(Linhas(senhas), ns[i].nivel)
           \/ \E j \in DOMAIN ns : /\ j # i
                                   /\ ns[j].tipo = "customizada"
                                   /\ ns[j].nivel = ns[i].nivel

\* writeSenhaError; what is not among them is answered with 500.
StatusDe == [NaoEncontrada |-> 404, CodigoDuplicado |-> 400, TipoJaExiste |-> 400,
             ObrigatoriaNaoRemovivel |-> 409, NivelInvalido |-> 400, NivelDuplicado |-> 409]
-----------------------------------------------------------------------------
(* Requests.                                                               *)

Esta(p, passo) == proc[p].pc = passo

Segue(p, novo) == proc' = [proc EXCEPT ![p] = novo]
Vai(p, passo)  == Segue(p, [proc[p] EXCEPT !.pc = passo])

\* Why matters of an internal error only.
Fim(p, status) ==
    [Livre EXCEPT !.pc = "respondido", !.status = status,
                  !.so = (status = 500 => proc[p].so),
                  !.curto = (status = 500 /\ proc[p].curto)]
Responde(p, status) == Segue(p, Fim(p, status)) /\ UNCHANGED <<senhas, niveis>>

\* p wrote: the others are no longer alone.
Escreveu(p, status) ==
    proc' = [q \in Pedidos |->
               IF q = p THEN Fim(p, status)
               ELSE [proc[q] EXCEPT !.so = @ /\ proc[q].pc \in {"livre", "respondido"}]]

Grava(p, t, status) ==
    IF Restricoes(t)
    THEN senhas' = t /\ Escreveu(p, status) /\ UNCHANGED niveis
    ELSE Responde(p, 500)

Chega(p, pedido) == Esta(p, "livre") /\ Segue(p, pedido) /\ UNCHANGED <<senhas, niveis>>

\* Ids and levels nothing refers to.
IdsLivres == {s \in Ids \ Linhas(senhas) : \A p \in Pedidos : proc[p].alvo # s}
Mencionado(n) ==
    \E p \in Pedidos :
        \/ proc[p].alvo = n \/ proc[p].troca.nivel = n
        \/ \E i \in DOMAIN proc[p].novas : proc[p].novas[i].nivel = n
        \/ proc[p].lida # NULL /\ proc[p].lida.nivel = n
-----------------------------------------------------------------------------
(* POST /usuarios/{id}/senhas and /senhas/batch.  Create does for one      *)
(* password what CreateBatch does for several.                             *)

PedeNovas(p, v, ns) ==
    Chega(p, [Livre EXCEPT !.pc = "validar", !.dono = v, !.novas = ns,
                           !.curto = \E i \in DOMAIN ns : ns[i].codigo \in Curtos])

PedirCriar(p) == \E v \in Vigias, n \in Novas : PedeNovas(p, v, <<n>>)

PedirLote(p) == \E v \in Vigias, b \in Lotes : PedeNovas(p, v, b)

\* validarNivel, a query for each password.
CriarValidar(p) ==
    /\ Esta(p, "validar")
    /\ LET i == proc[p].feitas + 1
           n == proc[p].novas[i]
       IN  IF ~validarNivel(n.tipo, n.nivel)
           THEN Responde(p, StatusDe.NivelInvalido)
           ELSE /\ Segue(p, [proc[p] EXCEPT !.feitas = i,
                                  !.pc = IF i = Len(proc[p].novas) THEN "listar" ELSE "validar"])
                /\ UNCHANGED <<senhas, niveis>>

\* ListByUsuario.
CriarListar(p) ==
    LET v == proc[p].dono
        ns == proc[p].novas
    IN  /\ Esta(p, "listar")
        /\ \/ TipoRepetido(v, ns) /\ Responde(p, StatusDe.TipoJaExiste)
           \/ ~TipoRepetido(v, ns) /\ CodigoRepetido(v, ns) /\ Responde(p, StatusDe.CodigoDuplicado)
           \/ ~TipoRepetido(v, ns) /\ ~CodigoRepetido(v, ns) /\ Vai(p, "empresa")
              /\ UNCHANGED <<senhas, niveis>>

\* (mutant) The level is looked for among the passwords of the guard only.
CriarSoDoVigia(p) ==
    /\ Esta(p, "empresa")
    /\ IF \E i \in DOMAIN proc[p].novas :
             nivelDuplicado(ListByUsuario(proc[p].dono), proc[p].novas[i].nivel)
       THEN Responde(p, StatusDe.NivelDuplicado)
       ELSE Vai(p, "inserir") /\ UNCHANGED <<senhas, niveis>>

\* ListByEmpresa.  Create skips the query for the other kinds, whose answer
\* CreateBatch does not use either.
CriarEmpresa(p) ==
    /\ Esta(p, "empresa")
    /\ IF NivelRepetido(proc[p].novas)
       THEN Responde(p, StatusDe.NivelDuplicado)
       ELSE Vai(p, "inserir") /\ UNCHANGED <<senhas, niveis>>

\* The INSERTs of a batch are one transaction.
CriarInserir(p) ==
    LET ns == proc[p].novas IN
    /\ Esta(p, "inserir")
    /\ \E ids \in [DOMAIN ns -> IdsLivres] :
          /\ \A i, j \in DOMAIN ns : ids[i] = ids[j] => i = j
          /\ Grava(p, [s \in Ids |-> IF \E i \in DOMAIN ns : ids[i] = s
                                     THEN Linha(proc[p].dono, ns[CHOOSE i \in DOMAIN ns : ids[i] = s])
                                     ELSE senhas[s]], 201)
-----------------------------------------------------------------------------
(* PUT and DELETE /usuarios/{id}/senhas/{senhaId}.                         *)

PedirAtualizar(p) ==
    \E v \in Vigias, s \in Ids, x \in Trocas :
        Chega(p, [Livre EXCEPT !.pc = "ler", !.dono = v, !.alvo = s, !.troca = x,
                               !.curto = x.codigo \in Curtos])

\* FindByID
AtualizarLer(p) ==
    LET s == proc[p].alvo IN
    /\ Esta(p, "ler")
    /\ IF s \in ListByUsuario(proc[p].dono)
       THEN Segue(p, [proc[p] EXCEPT !.pc = "outras", !.lida = senhas[s]])
            /\ UNCHANGED <<senhas, niveis>>
       ELSE Responde(p, StatusDe.NaoEncontrada)

\* ListByUsuario
AtualizarListar(p) ==
    LET x == proc[p].troca IN
    /\ Esta(p, "outras")
    /\ IF x.codigo # NULL /\ codigoDuplicado(ListByUsuario(proc[p].dono) \ {proc[p].alvo}, x.codigo)
       THEN Responde(p, StatusDe.CodigoDuplicado)
       ELSE Vai(p, IF x.nivel = NULL THEN "gravar" ELSE "nivel") /\ UNCHANGED <<senhas, niveis>>

AtualizarNivel(p) ==
    /\ Esta(p, "nivel")
    /\ IF validarNivel(proc[p].lida.tipo, proc[p].troca.nivel)
       THEN Vai(p, IF proc[p].lida.tipo = "customizada" THEN "todas" ELSE "gravar")
            /\ UNCHANGED <<senhas, niveis>>
       ELSE Responde(p, StatusDe.NivelInvalido)

\* ListByEmpresa
AtualizarEmpresa(p) ==
    /\ Esta(p, "todas")
    /\ IF nivelDuplicado(Linhas(senhas) \ {proc[p].alvo}, proc[p].troca.nivel)
       THEN Responde(p, StatusDe.NivelDuplicado)
       ELSE Vai(p, "gravar") /\ UNCHANGED <<senhas, niveis>>

\* (mutant) The field of the code is written even if it was not sent.
TrocadaSemTeste(p) ==
    LET x == proc[p].troca IN
    [proc[p].lida EXCEPT !.codigo = x.codigo,
                         !.nivel  = IF x.nivel = NULL THEN @ ELSE x.nivel]

\* The row is written as it was read, but for the fields sent.
Trocada(p) ==
    LET x == proc[p].troca IN
    [proc[p].lida EXCEPT !.codigo = IF x.codigo = NULL THEN @ ELSE x.codigo,
                         !.nivel  = IF x.nivel  = NULL THEN @ ELSE x.nivel]

AtualizarGravar(p) ==
    LET s == proc[p].alvo IN
    /\ Esta(p, "gravar")
    /\ IF senhas[s] = NULL THEN Responde(p, 500)
                           ELSE Grava(p, [senhas EXCEPT ![s] = Trocada(p)], 200)

\* (mutant) Only the password ok is mandatory.
RemoverEmergencia(p) ==
    \E v \in Vigias, s \in Ids :
        /\ Esta(p, "livre")
        /\ \/ s \notin ListByUsuario(v) /\ Responde(p, StatusDe.NaoEncontrada)
           \/ /\ s \in ListByUsuario(v) /\ senhas[s].tipo = "ok"
              /\ Responde(p, StatusDe.ObrigatoriaNaoRemovivel)
           \/ /\ s \in ListByUsuario(v) /\ senhas[s].tipo # "ok"
              /\ Chega(p, [Livre EXCEPT !.pc = "apagar", !.dono = v, !.alvo = s])

PedirRemover(p) ==
    \E v \in Vigias, s \in Ids :
        /\ Esta(p, "livre")
        /\ \/ s \notin ListByUsuario(v) /\ Responde(p, StatusDe.NaoEncontrada)
           \/ /\ s \in ListByUsuario(v) /\ senhas[s].tipo \in {"ok", "emergencia"}
              /\ Responde(p, StatusDe.ObrigatoriaNaoRemovivel)
           \/ /\ s \in ListByUsuario(v) /\ senhas[s].tipo \notin {"ok", "emergencia"}
              /\ Chega(p, [Livre EXCEPT !.pc = "apagar", !.dono = v, !.alvo = s])

RemoverApagar(p) ==
    LET s == proc[p].alvo IN
    /\ Esta(p, "apagar")
    /\ IF senhas[s] = NULL THEN Responde(p, 500)
                           ELSE Grava(p, [senhas EXCEPT ![s] = NULL], 200)
-----------------------------------------------------------------------------
(* Levels, as far as passwords see them: see Destinos.                     *)

NivelCriar(p) ==
    \E n \in Niveis \ niveis :
        /\ Esta(p, "livre")
        /\ ~Mencionado(n)
        /\ niveis' = niveis \cup {n}
        /\ Escreveu(p, 201)
        /\ UNCHANGED senhas

NivelRemoverLer(p) ==
    \E n \in niveis \ {Padrao} : Chega(p, [Livre EXCEPT !.pc = "apagarNivel", !.alvo = n,
                                                             !.so = FALSE])

\* (mutant) There is no foreign key.
NivelApagarSemChave(p) ==
    LET n == proc[p].alvo IN
    /\ Esta(p, "apagarNivel")
    /\ IF n \in niveis THEN niveis' = niveis \ {n} /\ Escreveu(p, 200) /\ UNCHANGED senhas
                       ELSE Responde(p, 500)

\* The foreign key is ON DELETE RESTRICT.
NivelRemoverApagar(p) ==
    LET n == proc[p].alvo IN
    /\ Esta(p, "apagarNivel")
    /\ IF n \in niveis /\ \A s \in Linhas(senhas) : senhas[s].nivel # n
       THEN niveis' = niveis \ {n} /\ Escreveu(p, 200) /\ UNCHANGED senhas
       ELSE Responde(p, 500)
-----------------------------------------------------------------------------
(* A guard types a code (aplicarConsequenciaSenha): FindByUsuarioECodigo,  *)
(* and for a password that is not ok the query of its level.               *)

SinalLer(p) ==
    \E v \in Vigias : \E s \in ListByUsuario(v) :
        /\ senhas[s].tipo # "ok"
        /\ Chega(p, [Livre EXCEPT !.pc = "resolver", !.dono = v, !.alvo = s,
                               !.lida = senhas[s], !.so = FALSE])

\* Without its level, the signal raises no alert: the error is only logged.
SinalResolver(p) ==
    /\ Esta(p, "resolver")
    /\ IF proc[p].lida.nivel \in niveis THEN Responde(p, 200)
                                        ELSE Vai(p, "perdido") /\ UNCHANGED <<senhas, niveis>>

Terminar(p) ==
    /\ proc[p].pc \in {"respondido", "perdido"}
    /\ Segue(p, Livre)
    /\ UNCHANGED <<senhas, niveis>>
-----------------------------------------------------------------------------
Next ==
    \E p \in Pedidos :
        \/ PedirCriar(p) \/ PedirLote(p)
        \/ CriarValidar(p) \/ CriarListar(p) \/ CriarEmpresa(p) \/ CriarInserir(p)
        \/ PedirAtualizar(p) \/ AtualizarLer(p) \/ AtualizarListar(p) \/ AtualizarNivel(p)
        \/ AtualizarEmpresa(p) \/ AtualizarGravar(p)
        \/ PedirRemover(p) \/ RemoverApagar(p)
        \/ NivelCriar(p) \/ NivelRemoverLer(p) \/ NivelRemoverApagar(p)
        \/ SinalLer(p) \/ SinalResolver(p) \/ Terminar(p)

Spec == Init /\ [][Next]_vars
-----------------------------------------------------------------------------
(* Properties.                                                             *)

\* A password of emergency is tied to the level of the system, a customized one to
\* another level, and the level exists.  The kind of the level is checked when the
\* request arrives, several statements before the row is written, and no
\* constraint of the table repeats it.
NiveisCoerentes ==
    \A s \in Linhas(senhas) :
        LET x == senhas[s] IN
        /\ x.tipo = "ok" => x.nivel = NULL
        /\ x.tipo = "emergencia" => x.nivel = Padrao
        /\ x.tipo = "customizada" => x.nivel \in niveis \ {Padrao}

\* The checks of the service foresee every constraint of the table: a request about
\* a password is answered 500 only if another one wrote in between, or if the code
\* has two or three digits, which the validator accepts and the CHECK does not.
ErroInternoTemCausa ==
    \A p \in Pedidos :
        proc[p].pc = "respondido" /\ proc[p].status = 500 => ~proc[p].so \/ proc[p].curto

\* The passwords ok and emergencia of a guard, once there, stay, in spite of
\* deletions and updates decided on rows read earlier.
ObrigatoriasFicam ==
    [][\A s \in Linhas(senhas) :
          senhas[s].tipo \in {"ok", "emergencia"} =>
             /\ senhas'[s] # NULL
             /\ senhas'[s].dono = senhas[s].dono
             /\ senhas'[s].tipo = senhas[s].tipo]_vars

\* A signal that finds no level, and so raises no alert, was sent with a customized
\* password that has been deleted or moved to another level since it was looked up;
\* an emergency always finds its level.
SinalPerdidoFoiTrocado ==
    \A p \in Pedidos :
        Esta(p, "perdido") =>
           /\ proc[p].lida.tipo = "customizada"
           /\ senhas[proc[p].alvo] # proc[p].lida
=============================================================================
