------------------------------- MODULE Alerta -------------------------------
(***************************************************************************)
(* The deadman's switch of one started shift and the alerts it raises.     *)
(*                                                                         *)
(* Four kinds of actor share the tables checkins and alertas: the timeout  *)
(* checker (one goroutine, internal/worker/timeout_checker.go), requests   *)
(* of the guard (one check-in, or a batch of those made offline, which     *)
(* ends in the sync reconciler), requests of the panel (acknowledge or     *)
(* close, one alert or many), and the alert dispatcher, fed by a bounded   *)
(* channel that all shifts share.  All of them read first and write later, *)
(* one statement a step; whoever creates an alert stores it first and      *)
(* sends it on the channel later.                                          *)
(*                                                                         *)
(* The status of the shift is seen as "active or not": Turno models how it *)
(* changes.  One unit of the clock is a minute.                            *)
(***************************************************************************)
EXTENDS Integers, Sequences, FiniteSets

CONSTANTS
    Procs,          \* requests that can be in execution at the same time
    Chaves,         \* values of cliente_checkin_id
    Motivos,        \* what a check-in may signal: sets of Motivo
    Defasagens,     \* how far the timestamp of a check-in lies before its arrival
    Intervalo,      \* intervalo_min of the shift
    Limiares,       \* atraso_minutos of the company's configurations
    Destinatarios,  \* outcomes of "somebody is to be notified"
    CapCanal,       \* capacity of alertChannel (100 in the code)
    MaxAgora,       \* bound of the clock
    MaxPedidos,     \* bound of the requests and batch entries served
    MaxFalhas,      \* bound of the failures and restarts
    NULL

Motivo == {"emergencia", "desvio_rota"}

ASSUME ConstantesOK ==
    /\ NULL \notin Chaves \cup Procs
    /\ Motivos \subseteq SUBSET Motivo
    /\ Defasagens \subseteq Int
    /\ Intervalo \in Nat \ {0}
    /\ Limiares \subseteq Nat
    /\ Destinatarios \subseteq BOOLEAN
    /\ CapCanal \in Nat \ {0}
    /\ MaxAgora \in Nat /\ MaxPedidos \in Nat /\ MaxFalhas \in Nat

\* Finitely many requests are in execution at once.
ASSUME ProcsFinitos == IsFiniteSet(Procs)

VARIABLES
    ativo,      \* the shift is em_andamento, pausado or critico
    checkins,   \* the check-ins of the shift, in the order of insertion
    alertas,    \* the alerts of the shift, in the order of insertion
    canal,      \* alertChannel: indices of alertas, or Alheio
    avisados,   \* alerts the dispatcher took
    perdidos,   \* alerts dropped because the channel was full, or in a restart
    porEnviar,  \* for each creator, the alert it stored and has not sent yet, or 0
    checker,    \* where the timeout checker is
    proc,       \* the requests in execution
    agora,
    pedidos,
    falhas

tabelas  == <<checkins, alertas>>
entrega  == <<canal, avisados, perdidos, porEnviar>>
vars     == <<ativo, tabelas, entrega, checker, proc, agora, pedidos, falhas>>
-----------------------------------------------------------------------------
\* atraso_n1 is the type of the rows an earlier release wrote.
TipoAlerta == {"atraso", "atraso_n1"} \cup Motivo
Pendente   == {"aberto", "reconhecido"}
Fechado    == {"encerrado", "resolvido_checkin", "falso_positivo"}

Checkin == [ts : 0 .. MaxAgora + 1, chave : Chaves \cup {NULL}, motivo : SUBSET Motivo]
Alerta  == [tipo : TipoAlerta, status : Pendente \cup Fechado,
            resolvido : BOOLEAN, avisa : BOOLEAN]

\* Where a request is: what it does next.
Passo ==
    {"livre", "chk_gravar", "chk_resolver", "chk_senha", "chk_contar", "chk_criar",
     "lote_item", "lote_gravar", "lote_senha", "rec_fechar", "reconhecer", "encerrar"}

Pedido ==
    [pc : Passo, ts : 0 .. MaxAgora + 1, chave : Chaves \cup {NULL},
     motivo : SUBSET Motivo, alerta : Nat]

\* Who may call criarAlerta: a request, or the timeout checker (NULL).
Criadores == Procs \cup {NULL}

\* An alert of another shift, in the channel.
Alheio == 0

Livre == [pc |-> "livre", ts |-> 0, chave |-> NULL, motivo |-> {}, alerta |-> 0]

TypeOK ==
    /\ ativo \in BOOLEAN
    /\ checkins \in Seq(Checkin)
    /\ alertas \in Seq(Alerta)
    /\ canal \in Seq(DOMAIN alertas \cup {Alheio}) /\ Len(canal) <= CapCanal
    /\ avisados \subseteq DOMAIN alertas
    /\ perdidos \subseteq DOMAIN alertas
    /\ porEnviar \in [Criadores -> DOMAIN alertas \cup {0}]
    /\ checker \in {"parado", "ler", "contar", "criar"}
    /\ proc \in [Procs -> Pedido]
    /\ \A p \in Procs :
          proc[p].pc \in {"reconhecer", "encerrar"} => proc[p].alerta \in DOMAIN alertas
    /\ agora \in 0 .. MaxAgora
    /\ pedidos \in Nat
    /\ falhas \in Nat

\* The shift was just started.  Its first check-in may be missing (the INSERT of
\* Iniciar failed), and an alert of the earlier release may be open.
Init ==
    /\ ativo = TRUE
    /\ checkins \in {<<>>, <<[ts |-> 0, chave |-> NULL, motivo |-> {}]>>}
    /\ alertas \in {<<>>, <<[tipo |-> "atraso_n1", status |-> "aberto",
                             resolvido |-> FALSE, avisa |-> FALSE]>>}
    /\ canal = <<>>
    /\ avisados = {}
    /\ perdidos = {}
    /\ porEnviar = [x \in Criadores |-> 0]
    /\ checker = "parado"
    /\ proc = [p \in Procs |-> Livre]
    /\ agora = 0
    /\ pedidos = 0
    /\ falhas = 0
-----------------------------------------------------------------------------
(* The tables.                                                             *)

\* (mutant) The dedup looks at every alert of the type, closed ones included.
CountByTurnoETipo_fechados(tipo) ==
    Cardinality({a \in DOMAIN alertas : alertas[a].tipo = tipo})

\* (mutant) An alert somebody acknowledged is the only one that counts.
CountByTurnoETipo_reconhecidos(tipo) ==
    Cardinality({a \in DOMAIN alertas :
                    alertas[a].tipo = tipo /\ alertas[a].status = "reconhecido"})

CountByTurnoETipo(tipo) ==
    Cardinality({a \in DOMAIN alertas :
                    alertas[a].tipo = tipo /\ alertas[a].status \in Pendente})

\* (mutant) COALESCE(resolvido_em): a NULL leaves the old value.
UpdateStatus_coalesce(ids, status, resolvido) ==
    alertas' = [a \in DOMAIN alertas |->
                  IF a \in ids
                  THEN [alertas[a] EXCEPT !.status = status, !.resolvido = @ \/ resolvido]
                  ELSE alertas[a]]

\* UpdateStatus, UpdateStatusBatch: no condition on the present status.
UpdateStatus(ids, status, resolvido) ==
    alertas' = [a \in DOMAIN alertas |->
                  IF a \in ids
                  THEN [alertas[a] EXCEPT !.status = status, !.resolvido = resolvido]
                  ELSE alertas[a]]

\* tipo LIKE 'atraso_%': the underscore stands for one character, so the type
\* "atraso" itself does not match.
CasaAtraso(tipo) == tipo = "atraso_n1"

CloseAlertas(status) ==
    UpdateStatus({a \in DOMAIN alertas :
                     CasaAtraso(alertas[a].tipo) /\ alertas[a].status \in Pendente},
                 status, TRUE)

Inserir(ts, chave, motivo) ==
    checkins' = Append(checkins, [ts |-> ts, chave |-> chave, motivo |-> motivo])

\* criarAlerta, up to its INSERT: if somebody is to be notified, the send on the
\* channel is still to come (Enviar).
criarAlerta(x, tipo) ==
    \E avisa \in Destinatarios :
        /\ alertas' = Append(alertas, [tipo |-> tipo, status |-> "aberto",
                                       resolvido |-> FALSE, avisa |-> avisa])
        /\ porEnviar' = IF avisa THEN [porEnviar EXCEPT ![x] = Len(alertas) + 1]
                        ELSE porEnviar
        /\ UNCHANGED <<canal, avisados, perdidos>>

\* (mutant) The password's alert goes through the dedup of CreateAlerta.
alertarSenha_dedup(p, motivo) ==
    IF "emergencia" \in motivo /\ CountByTurnoETipo("emergencia") = 0
    THEN criarAlerta(p, "emergencia")
    ELSE UNCHANGED <<alertas, entrega>>

\* aplicarConsequenciaSenha: CreateAlertaImediato does not look for duplicates.
alertarSenha(p, motivo) ==
    IF "emergencia" \in motivo
    THEN criarAlerta(p, "emergencia")
    ELSE UNCHANGED <<alertas, entrega>>

Horas  == {checkins[i].ts : i \in DOMAIN checkins}
Ultimo == CHOOSE h \in Horas : \A k \in Horas : k <= h

\* No configuration with a positive atraso_minutos: no alert of delay at all.
Positivos == {m \in Limiares : m > 0}

\* time.Since(last check-in) in minutes, less the interval, reaches the least
\* positive atraso_minutos.
Atrasado ==
    /\ checkins # <<>>
    /\ \E m \in Positivos : agora - Ultimo - Intervalo >= m
-----------------------------------------------------------------------------
(* Steps of a request.                                                     *)

\* A creator does nothing else before its send.
Esta(p, passo)  == proc[p].pc = passo /\ porEnviar[p] = 0
Segue(p, passo) == proc' = [proc EXCEPT ![p].pc = passo]
Responde(p)     == proc' = [proc EXCEPT ![p] = Livre]
Ok              == UNCHANGED falhas
Falha           == falhas < MaxFalhas /\ falhas' = falhas + 1
Conta           == pedidos < MaxPedidos /\ pedidos' = pedidos + 1

Comeca(p, pedido) ==
    /\ Esta(p, "livre")
    /\ proc' = [proc EXCEPT ![p] = pedido]
    /\ UNCHANGED <<ativo, tabelas, entrega, checker, agora, falhas>>

\* Timestamps are the device's: late for a check-in made offline, and even ahead.
Timestamp == {ts \in 0 .. MaxAgora + 1 : agora - ts \in Defasagens}

(* POST /turnos/checkin                                                    *)

CheckinLer(p, ts, motivo) ==
    /\ ativo
    /\ Conta
    /\ Comeca(p, [Livre EXCEPT !.pc = "chk_gravar", !.ts = ts, !.motivo = motivo])

CheckinGravar(p) ==
    /\ Esta(p, "chk_gravar")
    /\ Inserir(proc[p].ts, NULL, proc[p].motivo)
    /\ Segue(p, "chk_resolver")
    /\ UNCHANGED <<ativo, alertas, entrega, checker, agora, pedidos, falhas>>

\* An error of ResolverAlertasAtraso is logged.
CheckinResolver(p) ==
    /\ Esta(p, "chk_resolver")
    /\ \/ CloseAlertas("resolvido_checkin") /\ Ok
       \/ Falha /\ UNCHANGED alertas
    /\ Segue(p, "chk_senha")
    /\ UNCHANGED <<ativo, checkins, entrega, checker, agora, pedidos>>

CheckinSenha(p) ==
    /\ Esta(p, "chk_senha")
    /\ \/ alertarSenha(p, proc[p].motivo) /\ Ok
       \/ Falha /\ UNCHANGED <<alertas, entrega>>
    /\ IF "desvio_rota" \in proc[p].motivo THEN Segue(p, "chk_contar") ELSE Responde(p)
    /\ UNCHANGED <<ativo, checkins, checker, agora, pedidos>>

\* CreateAlerta: the dedup is a SELECT, and the INSERT comes later.
CheckinContar(p) ==
    /\ Esta(p, "chk_contar")
    /\ IF CountByTurnoETipo("desvio_rota") = 0 THEN Segue(p, "chk_criar") ELSE Responde(p)
    /\ UNCHANGED <<ativo, tabelas, entrega, checker, agora, pedidos, falhas>>

CheckinCriar(p) ==
    /\ Esta(p, "chk_criar")
    /\ criarAlerta(p, "desvio_rota")
    /\ Responde(p)
    /\ UNCHANGED <<ativo, checkins, checker, agora, pedidos, falhas>>

(* POST /checkins/lote: entry after entry, then Reconcile.                 *)

\* A batch whose first entries are rejected.
LoteComecar(p) ==
    /\ Conta
    /\ Comeca(p, [Livre EXCEPT !.pc = "lote_item"])

\* The next entry that is accepted.
LoteLer(p, ts, chave, motivo) ==
    /\ Esta(p, "livre") \/ Esta(p, "lote_item")
    /\ ativo
    /\ Conta
    /\ proc' = [proc EXCEPT ![p] =
          [pc |-> "lote_gravar", ts |-> ts, chave |-> chave, motivo |-> motivo, alerta |-> 0]]
    /\ UNCHANGED <<ativo, tabelas, entrega, checker, agora, falhas>>

\* An entry that was stored before is not stored again, but goes on like any
\* other; one whose INSERT fails is skipped.
LoteGravar(p) ==
    /\ Esta(p, "lote_gravar")
    /\ \/ /\ proc[p].chave = NULL \/ \A i \in DOMAIN checkins : checkins[i].chave # proc[p].chave
          /\ Inserir(proc[p].ts, proc[p].chave, proc[p].motivo)
          /\ Segue(p, "lote_senha")
          /\ Ok
       \/ /\ proc[p].chave # NULL /\ \E i \in DOMAIN checkins : checkins[i].chave = proc[p].chave
          /\ Segue(p, "lote_senha")
          /\ Ok
          /\ UNCHANGED checkins
       \/ /\ Segue(p, "lote_item")
          /\ Falha
          /\ UNCHANGED checkins
    /\ UNCHANGED <<ativo, alertas, entrega, checker, agora, pedidos>>

LoteSenha(p) ==
    /\ Esta(p, "lote_senha")
    /\ \/ alertarSenha(p, proc[p].motivo) /\ Ok
       \/ Falha /\ UNCHANGED <<alertas, entrega>>
    /\ Segue(p, "lote_item")
    /\ UNCHANGED <<ativo, checkins, checker, agora, pedidos>>

\* The largest distance between consecutive check-ins, and to the present.
SemLacunas ==
    /\ Len(checkins) >= 2
    /\ agora - Ultimo <= 2 * Intervalo
    /\ \A h \in Horas \ {Ultimo} :
          \E k \in Horas : k > h /\ k - h <= 2 * Intervalo

Reconcile(p) ==
    /\ Esta(p, "lote_item")
    /\ IF SemLacunas THEN Segue(p, "rec_fechar") ELSE Responde(p)
    /\ UNCHANGED <<ativo, tabelas, entrega, checker, agora, pedidos, falhas>>

ReconcileFechar(p) ==
    /\ Esta(p, "rec_fechar")
    /\ CloseAlertas("falso_positivo")
    /\ Responde(p)
    /\ UNCHANGED <<ativo, checkins, entrega, checker, agora, pedidos, falhas>>

(* PUT /alertas/{id}/reconhecer, /encerrar, and the same for many alerts.  *)

ReconhecerLer(p, a) ==
    /\ alertas[a].status = "aberto"
    /\ Conta
    /\ Comeca(p, [Livre EXCEPT !.pc = "reconhecer", !.alerta = a])

EncerrarLer(p, a) ==
    /\ alertas[a].status # "encerrado"
    /\ Conta
    /\ Comeca(p, [Livre EXCEPT !.pc = "encerrar", !.alerta = a])

PainelGravar(p) ==
    /\ \/ Esta(p, "reconhecer") /\ UpdateStatus({proc[p].alerta}, "reconhecido", FALSE)
       \/ Esta(p, "encerrar") /\ UpdateStatus({proc[p].alerta}, "encerrado", TRUE)
    /\ Responde(p)
    /\ UNCHANGED <<ativo, checkins, entrega, checker, agora, pedidos, falhas>>

EmLote(ids) ==
    /\ Conta
    /\ UpdateStatus(ids, "reconhecido", FALSE) \/ UpdateStatus(ids, "encerrado", TRUE)
    /\ UNCHANGED <<ativo, checkins, entrega, checker, proc, agora, falhas>>

\* The handler returns an error, or its client goes away.
Abortar(p) ==
    /\ proc[p].pc # "livre" /\ porEnviar[p] = 0
    /\ Falha
    /\ Responde(p)
    /\ UNCHANGED <<ativo, tabelas, entrega, checker, agora, pedidos>>
-----------------------------------------------------------------------------
(* The timeout checker: one cycle, as far as this shift is concerned.      *)

Checker(de, para) ==
    /\ checker = de /\ porEnviar[NULL] = 0
    /\ checker' = para

listTurnosAtivos ==
    /\ Checker("parado", "ler")
    /\ ativo
    /\ UNCHANGED <<ativo, tabelas, entrega, proc, agora, pedidos, falhas>>

processTurno ==
    /\ Checker("ler", IF Atrasado THEN "contar" ELSE "parado")
    /\ UNCHANGED <<ativo, tabelas, entrega, proc, agora, pedidos, falhas>>

CheckerContar ==
    /\ Checker("contar", IF CountByTurnoETipo("atraso") = 0 THEN "criar" ELSE "parado")
    /\ UNCHANGED <<ativo, tabelas, entrega, proc, agora, pedidos, falhas>>

CheckerCriar ==
    /\ Checker("criar", "parado")
    /\ criarAlerta(NULL, "atraso")
    /\ UNCHANGED <<ativo, checkins, proc, agora, pedidos, falhas>>

\* A query fails: the shift is left for the next cycle.
CheckerErro ==
    /\ checker # "parado"
    /\ checker' = "parado"
    /\ Falha
    /\ UNCHANGED <<ativo, tabelas, entrega, proc, agora, pedidos>>

CheckOnce == listTurnosAtivos \/ processTurno \/ CheckerContar \/ CheckerCriar
-----------------------------------------------------------------------------
(* The channel.                                                            *)

\* (mutant) The send on the channel has no default branch, and no limit.
Enviar_semDefault(x) ==
    /\ porEnviar[x] # 0
    /\ porEnviar' = [porEnviar EXCEPT ![x] = 0]
    /\ canal' = Append(canal, porEnviar[x])
    /\ UNCHANGED <<ativo, tabelas, avisados, perdidos, checker, proc, agora, pedidos, falhas>>

\* (mutant) A full channel makes room: its oldest alert is the one that is lost.
Enviar_descartaVelho(x) ==
    LET cheio == Len(canal) >= CapCanal IN
    /\ porEnviar[x] # 0
    /\ porEnviar' = [porEnviar EXCEPT ![x] = 0]
    /\ canal' = Append(IF cheio THEN Tail(canal) ELSE canal, porEnviar[x])
    /\ perdidos' = IF cheio THEN (perdidos \cup {Head(canal)}) \ {Alheio} ELSE perdidos
    /\ UNCHANGED <<ativo, tabelas, avisados, checker, proc, agora, pedidos, falhas>>

\* criarAlerta, after its INSERT: the send that does not wait.  A full channel
\* drops the alert.
Enviar(x) ==
    LET cheio == Len(canal) >= CapCanal IN
    /\ porEnviar[x] # 0
    /\ porEnviar' = [porEnviar EXCEPT ![x] = 0]
    /\ canal' = IF cheio THEN canal ELSE Append(canal, porEnviar[x])
    /\ perdidos' = IF cheio THEN perdidos \cup {porEnviar[x]} ELSE perdidos
    /\ UNCHANGED <<ativo, tabelas, avisados, checker, proc, agora, pedidos, falhas>>

\* Requests and the checker send the alerts of other shifts on the same channel.
EnviarAlheio ==
    /\ Conta
    /\ Len(canal) < CapCanal
    /\ canal' = Append(canal, Alheio)
    /\ UNCHANGED <<ativo, tabelas, avisados, perdidos, porEnviar, checker, proc, agora, falhas>>

\* (mutant) The dispatcher keeps an alert until it is open.
AlertDispatcher_soAberto ==
    /\ canal # <<>>
    /\ Head(canal) # Alheio => alertas[Head(canal)].status = "aberto"
    /\ canal' = Tail(canal)
    /\ avisados' = (avisados \cup {Head(canal)}) \ {Alheio}
    /\ UNCHANGED <<ativo, tabelas, perdidos, porEnviar, checker, proc, agora, pedidos, falhas>>

AlertDispatcher ==
    /\ canal # <<>>
    /\ canal' = Tail(canal)
    /\ avisados' = (avisados \cup {Head(canal)}) \ {Alheio}
    /\ UNCHANGED <<ativo, tabelas, perdidos, porEnviar, checker, proc, agora, pedidos, falhas>>

NoCanal  == {canal[i] : i \in DOMAIN canal} \ {Alheio}
EmMaos   == {porEnviar[x] : x \in Criadores} \ {0}

\* The server stops and starts again: only the tables remain, not what is in the
\* channel or on its way there.
Reiniciar ==
    /\ Falha
    /\ canal' = <<>>
    /\ porEnviar' = [x \in Criadores |-> 0]
    /\ perdidos' = perdidos \cup NoCanal \cup EmMaos
    /\ checker' = "parado"
    /\ proc' = [p \in Procs |-> Livre]
    /\ UNCHANGED <<ativo, tabelas, avisados, agora, pedidos>>

\* Finalizar and Sabotagem store a check-in of the shift too, and close no alert.
OutroCheckin(ts) ==
    /\ Conta
    /\ Inserir(ts, NULL, {})
    /\ UNCHANGED <<ativo, alertas, entrega, checker, proc, agora, falhas>>

\* The shift is finished, or a late report of sabotage reopens it (see Turno).
MudarStatus ==
    /\ Conta
    /\ ativo' = ~ativo
    /\ UNCHANGED <<tabelas, entrega, checker, proc, agora, falhas>>

Tique ==
    /\ agora < MaxAgora
    /\ agora' = agora + 1
    /\ UNCHANGED <<ativo, tabelas, entrega, checker, proc, pedidos, falhas>>
-----------------------------------------------------------------------------
FazerCheckin(p) ==
    \/ \E ts \in Timestamp, motivo \in Motivos : CheckinLer(p, ts, motivo)
    \/ CheckinGravar(p) \/ CheckinResolver(p) \/ CheckinSenha(p)
    \/ CheckinContar(p) \/ CheckinCriar(p)

ProcessarLote(p) ==
    \/ LoteComecar(p)
    \/ \E ts \in Timestamp, chave \in Chaves \cup {NULL}, motivo \in Motivos :
          LoteLer(p, ts, chave, motivo)
    \/ LoteGravar(p) \/ LoteSenha(p) \/ Reconcile(p) \/ ReconcileFechar(p)

Painel(p) ==
    \/ \E a \in DOMAIN alertas : ReconhecerLer(p, a) \/ EncerrarLer(p, a)
    \/ PainelGravar(p)

Next ==
    \/ \E p \in Procs : FazerCheckin(p) \/ ProcessarLote(p) \/ Painel(p) \/ Abortar(p)
    \/ \E ids \in SUBSET DOMAIN alertas : EmLote(ids)
    \/ CheckOnce \/ CheckerErro
    \/ \E x \in Criadores : Enviar(x)
    \/ EnviarAlheio \/ AlertDispatcher
    \/ \E ts \in Timestamp : OutroCheckin(ts)
    \/ Reiniciar \/ MudarStatus \/ Tique

\* The two workers are goroutines that never end: the ticker of the checker fires
\* every 30 seconds, and the dispatcher receives as soon as it can.  Between the
\* INSERT of an alert and its send a goroutine waits for nothing but the hub's lock.
\* Nothing obliges guards and panels to send requests, or requests to succeed.
Justica ==
    /\ WF_vars(CheckOnce) /\ WF_vars(AlertDispatcher)
    /\ \A x \in Criadores : WF_vars(Enviar(x))

Spec == Init /\ [][Next]_vars /\ Justica
-----------------------------------------------------------------------------
(* Properties.                                                             *)

\* However check-ins, panels, errors and restarts interfere with its cycles, the
\* checker never has two alerts of delay of the shift open at a time.
UmAtrasoAberto ==
    \A a, b \in DOMAIN alertas :
        /\ alertas[a].tipo = "atraso" /\ alertas[a].status = "aberto"
        /\ alertas[b].tipo = "atraso" /\ alertas[b].status = "aberto"
        => a = b

\* resolvido_em is set exactly on the alerts that are closed, whichever of the
\* writers that race for an alert comes last.
ResolvidoCoerente ==
    \A a \in DOMAIN alertas : alertas[a].resolvido <=> alertas[a].status \in Fechado

\* As long as nothing fails, every check-in stored with the duress password has
\* an alert of its own, or a request that is about to raise it: neither the dedup
\* nor a batch that is sent twice, or twice at the same time, swallows a signal.
SinalNaoSePerde ==
    falhas = 0 =>
      Cardinality({i \in DOMAIN checkins : "emergencia" \in checkins[i].motivo})
        <= Cardinality({a \in DOMAIN alertas : alertas[a].tipo = "emergencia"})
           + Cardinality({p \in Procs : "emergencia" \in proc[p].motivo
                              /\ proc[p].pc \in {"chk_resolver", "chk_senha", "lote_senha"}})

\* A guard who stops checking in is noticed: an active shift that is late ends
\* up with an alert of delay that is open or acknowledged, even if queries fail,
\* the server restarts or somebody closes the alert while the delay lasts.
AtrasoDetectado ==
    ativo /\ Atrasado ~>
       \/ ~(ativo /\ Atrasado)
       \/ \E a \in DOMAIN alertas : alertas[a].tipo = "atraso" /\ alertas[a].status \in Pendente

\* The dispatcher catches up: it takes every alert somebody is to be notified
\* of, except those dropped by a full channel or lost in a restart, in the channel
\* or between their INSERT and their send.
Notifica ==
    []<>(\A a \in DOMAIN alertas : alertas[a].avisa => a \in avisados \cup perdidos)
-----------------------------------------------------------------------------
(* What all this promises about each alert: see Ocorrencias.               *)

\* Whoever closed an alert, and why, is left out.
Situacao(a) == IF alertas[a].status \in Fechado THEN "fechado" ELSE alertas[a].status

Vida == INSTANCE Ocorrencias WITH
    lista      <- [a \in DOMAIN alertas |-> [tipo |-> alertas[a].tipo, status |-> Situacao(a)]],
    maos       <- EmMaos,
    fila       <- canal,
    avisadas   <- avisados,
    perdidas   <- perdidos,
    Tipos      <- TipoAlerta,
    Alheia     <- Alheio,
    Capacidade <- CapCanal

\* Although the dedup counts statements before it writes, an alert is sent statements
\* after it is stored, and panels, requests and a full channel interfere, every alert
\* lives one life: once treated it is never open again, a delay is only raised when
\* none is open, and an alert is told once, in the order of the sends, or lost once.
ImplementaOcorrencias == Vida!Spec
-----------------------------------------------------------------------------
(* A statement of the repository that the code does not live up to.        *)

\* A check-in closes the alerts of delay that are open or acknowledged (comment
\* of CloseAlertasResolvidoCheckin, TestAlertaAtrasoResolvidoNoCheckin).
AtrasoFechaNoCheckin ==
    [][\A p \in Procs :
          proc[p].pc = "chk_resolver" /\ proc'[p].pc = "chk_senha" =>
             \A a \in DOMAIN alertas' :
                alertas'[a].tipo \in {"atraso", "atraso_n1"} =>
                   alertas'[a].status \in Fechado]_vars
=============================================================================
