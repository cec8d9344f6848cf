------------------------------ MODULE Ausencia ------------------------------
(***************************************************************************)
(* Schedules, and the two workers that record who did not come.            *)
(*                                                                         *)
(* A commitment is a row of the table escalas (a day of the week, every    *)
(* week) or of substituicoes (a range of dates).  A guard starts a shift   *)
(* when the clock is near the beginning of a commitment.  Every 30 seconds *)
(* checkNoShow (internal/worker/timeout_checker.go) looks for commitments  *)
(* whose tolerance is over and that nobody started, raises an alert and    *)
(* records a shift `atrasado'.  Every 5 minutes NaoRealizadoChecker looks  *)
(* back over the last days and records `nao_realizado'.  Each SQL          *)
(* statement is a step of its own; guards, panels and whoever edits the    *)
(* schedules come in between.                                              *)
(*                                                                         *)
(* The clock counts hours of the server's zone (BRT); a day has Horas of   *)
(* them.  The database casts a timestamp to a date in the zone of its own  *)
(* session, which is Fuso hours ahead.                                     *)
(***************************************************************************)
EXTENDS Integers, Sequences, FiniteSets

CONSTANTS
    Compromissos,  \* rows escalas and substituicoes can hold
    Horas,         \* hours of a day
    Semana,        \* days of a week (7)
    Fuso,          \* hours the zone of the database session is ahead
    DiasAtras,     \* days the not-done worker looks back (7 in the code)
    Adianta,       \* hours a device's clock may be ahead
    MaxAgora,      \* bound of the clock
    MaxInicios,    \* bound of the shifts guards start
    MaxEdicoes,    \* bound of the edits of the schedules
    MaxFalhas,     \* bound of the failures and restarts
    MaxFechos,     \* bound of the alerts a panel closes
    NULL

ASSUME ConstantesOK ==
    /\ Horas \in Nat \ {0} /\ Semana \in Nat \ {0, 1}
    /\ Fuso \in 0 .. Horas - 1
    /\ DiasAtras \in Nat \ {0}
    /\ Adianta \in Nat
    /\ MaxAgora \in Nat /\ MaxInicios \in Nat /\ MaxEdicoes \in Nat /\ MaxFalhas \in Nat
    /\ MaxFechos \in Nat
    /\ NULL \notin Compromissos

\* `de' and `ate' are the weekdays of the beginning and the end of an escala, and
\* the first and last date of a substituicao.  inicio = fim is rejected
\* (validarHorasEscala, and a CHECK of both tables), where 24:00, hour Horas, is
\* midnight like 00:00.
ASSUME CompromissosOK ==
    \A e \in Compromissos :
        /\ e.sub \in BOOLEAN
        /\ e.de \in Int /\ e.ate \in Int
        /\ e.sub => e.de <= e.ate
        /\ ~e.sub => e.de \in 0 .. Semana - 1 /\ e.ate \in 0 .. Semana - 1
        /\ e.inicio \in 0 .. Horas /\ e.fim \in 0 .. Horas
        /\ e.inicio % Horas # e.fim % Horas
        /\ e.tol \in Nat

VARIABLES
    ativos,    \* the commitments whose column ativo is true
    turnos,    \* rows of the table turnos, in the order of insertion
    alertas,   \* alerts of type no_show
    checker,   \* the timeout checker, as far as checkNoShow goes
    nr,        \* the not-done worker
    agora,
    edicoes,
    falhas

vars == <<ativos, turnos, alertas, checker, nr, agora, edicoes, falhas>>
-----------------------------------------------------------------------------
(* Hours and dates.                                                        *)

Hora(t) == t % Horas
Dia(t)  == t \div Horas
\* inicio_previsto::date, created_at::date
Data(t) == (t + Fuso) \div Horas

\* The commitment begins on date d; day 0 is a Sunday, weekday 0.
Vale(e, d) == IF e.sub THEN e.de <= d /\ d <= e.ate ELSE d % Semana = e.de

\* EscalaCruzaMeiaNoite; a substituicao carries no weekdays.
CruzaMeiaNoite(e) == ~e.sub /\ e.ate # e.de

\* parseHoraData: the parser of Go knows no 24:00.
Legivel(h) == h < Horas

\* horaEmMinutos
Minutos(h) == h % Horas

Inicio(e, d) == d * Horas + e.inicio
\* An end that is not after the beginning belongs to the next day.
Fim(e, d)    == d * Horas + e.fim + (IF e.fim < e.inicio THEN Horas ELSE 0)

\* The distance on the clock face, whatever the date.
Distancia(h, i) ==
    LET dif == IF h < i THEN i - h ELSE h - i
    IN  IF 2 * dif > Horas THEN Horas - dif ELSE dif

VerificarToleranciaEscala(e, t) == Distancia(Hora(t), Minutos(e.inicio)) <= e.tol
-----------------------------------------------------------------------------
Ativo  == {"em_andamento"}     \* pausado and critico count alike here
Ausente == {"atrasado", "nao_realizado"}

\* `por' is the commitment the row was inserted for.  The table has its guard,
\* its post and, for a substituicao, its id.
Turno  == [por : Compromissos, status : Ativo \cup Ausente \cup {"finalizado"},
           inicio : Int, fim : Int]
Alerta == [usuario : {e.usuario : e \in Compromissos}, data : Int, aberto : BOOLEAN]

Parado   == [passo |-> "parado", quando |-> 0, faltam |-> {}, atual |-> NULL]
NrParado == [passo |-> "parado", quando |-> 0, dias |-> 0, faltam |-> {}]

TypeOK ==
    /\ ativos \subseteq Compromissos
    /\ turnos \in Seq(Turno)
    /\ alertas \in Seq(Alerta)
    /\ checker \in [passo : {"parado", "substituicoes", "lista", "linha"}, quando : Nat,
                    faltam : SUBSET Compromissos, atual : Compromissos \cup {NULL}]
    /\ checker.passo = "linha" => checker.atual \in Compromissos
    /\ nr \in [passo : {"parado", "escalas", "substituicoes"}, quando : Nat,
               dias : 0 .. DiasAtras, faltam : SUBSET Compromissos]
    /\ agora \in Nat /\ edicoes \in Nat /\ falhas \in Nat

Init ==
    /\ ativos \in SUBSET Compromissos
    /\ turnos = <<>>
    /\ alertas = <<>>
    /\ checker = Parado
    /\ nr = NrParado
    /\ agora = 0
    /\ edicoes = 0
    /\ falhas = 0

MesmoPosto(e, f) == e.usuario = f.usuario /\ e.posto = f.posto

Ok    == UNCHANGED falhas
Falha == falhas < MaxFalhas /\ falhas' = falhas + 1

Inserir(e, status, inicio, fim) ==
    turnos' = Append(turnos, [por |-> e, status |-> status, inicio |-> inicio, fim |-> fim])
-----------------------------------------------------------------------------
(* The guard.                                                              *)

\* The rows one of the three queries of buscarEscalaParaInicio may return: each
\* has a LIMIT 1, which picks any of several.
Candidatos(e, sub, d) ==
    {f \in ativos : MesmoPosto(f, e) /\ f.sub = sub /\ Vale(f, d)}

\* The query finds nothing, or a row that begins at another hour.
NaoServe(C, t) == C = {} \/ \E f \in C : ~VerificarToleranciaEscala(f, t)

\* buscarEscalaParaInicio: a substituicao of today, else an escala of today, else
\* one of yesterday that crosses midnight.
ParaInicio(t) ==
    {e \in ativos :
        /\ VerificarToleranciaEscala(e, t)
        /\ \/ e \in Candidatos(e, TRUE, Dia(t))
           \/ /\ NaoServe(Candidatos(e, TRUE, Dia(t)), t)
              /\ \/ e \in Candidatos(e, FALSE, Dia(t))
                 \/ /\ NaoServe(Candidatos(e, FALSE, Dia(t)), t)
                    /\ e \in Candidatos(e, FALSE, Dia(t) - 1)
                    /\ CruzaMeiaNoite(e)}

\* The next time the clock shows hora_fim; half a day from now if it cannot be read.
FimPrevisto(e, t) ==
    LET fim == Dia(t) * Horas + e.fim
    IN  IF ~Legivel(e.fim) THEN t + Horas \div 2 ELSE IF fim > t THEN fim ELSE fim + Horas

Iniciar(e) ==
    /\ e \in ParaInicio(agora)
    /\ \A i \in DOMAIN turnos :
          turnos[i].por.usuario = e.usuario => turnos[i].status \notin Ativo
    /\ Len(SelectSeq(turnos, LAMBDA t : t.status \notin Ausente)) < MaxInicios
    /\ Inserir(e, "em_andamento", agora, FimPrevisto(e, agora))
    /\ UNCHANGED <<ativos, alertas, checker, nr, agora, edicoes, falhas>>

\* Finalizar compares with the device's own clock; GetVigiaTurno waits longer.
Finalizar(i) ==
    /\ turnos[i].status \in Ativo
    /\ agora + Adianta >= turnos[i].fim
    /\ turnos' = [turnos EXCEPT ![i].status = "finalizado"]
    /\ UNCHANGED <<ativos, alertas, checker, nr, agora, edicoes, falhas>>

(* The panel: Reconhecer, Encerrar; the dedup only looks at open alerts.   *)
FecharAlerta(a) ==
    /\ alertas[a].aberto
    /\ Len(SelectSeq(alertas, LAMBDA b : ~b.aberto)) < MaxFechos
    /\ alertas' = [alertas EXCEPT ![a].aberto = FALSE]
    /\ UNCHANGED <<ativos, turnos, checker, nr, agora, edicoes, falhas>>
-----------------------------------------------------------------------------
(* Whoever edits the schedules.                                            *)

Editar(novos) ==
    /\ novos # ativos
    /\ edicoes < MaxEdicoes
    /\ edicoes' = edicoes + 1
    /\ ativos' = novos
    /\ UNCHANGED <<turnos, alertas, checker, nr, agora, falhas>>

\* EscalaService and SubstituicaoService.  CreateLote of an escala is one Criar
\* after the other: a failure leaves those before it.
Criar(e)  == Editar(ativos \cup {e})
Delete(e) == Editar(ativos \ {e})
Update(e, f) == e \in ativos /\ e.sub = f.sub /\ Editar((ativos \ {e}) \cup {f})

\* One transaction: readers see the old week or the new one.
ReplaceLote(e, dias) ==
    /\ \A f \in dias : ~f.sub /\ MesmoPosto(f, e)
    /\ Editar({f \in ativos : f.sub \/ ~MesmoPosto(f, e)} \cup dias)
-----------------------------------------------------------------------------
(* checkNoShow.                                                            *)

\* FindEscalasSemTurno, FindSubstituicoesSemTurno: the tolerance is over; and an
\* escala, unlike a substituicao, is not over itself.
Estourou(e, t) ==
    \/ /\ Vale(e, Dia(t))
       /\ Inicio(e, Dia(t)) + e.tol <= t
       /\ e.sub \/ CruzaMeiaNoite(e) \/ Hora(t) < e.fim
    \/ /\ CruzaMeiaNoite(e)
       /\ Vale(e, Dia(t) - 1)
       /\ Inicio(e, Dia(t) - 1) + e.tol <= t
       /\ Hora(t) < e.fim

SemTurnoAtivo(e) ==
    ~\E i \in DOMAIN turnos :
        MesmoPosto(turnos[i].por, e) /\ turnos[i].status \in Ativo \cup {"atrasado"}

SemTurno(sub, t) == {e \in ativos : e.sub = sub /\ Estourou(e, t) /\ SemTurnoAtivo(e)}

Restam(faltam) ==
    checker' = IF faltam = {} THEN Parado
               ELSE [checker EXCEPT !.passo = "lista", !.faltam = faltam, !.atual = NULL]

NoShowEscalas ==
    /\ checker.passo = "parado"
    /\ checker' = [passo |-> "substituicoes", quando |-> agora,
                   faltam |-> SemTurno(FALSE, agora), atual |-> NULL]
    /\ UNCHANGED <<ativos, turnos, alertas, nr, agora, edicoes, falhas>>

\* An error of either query ends the cycle.
NoShowSubstituicoes ==
    /\ checker.passo = "substituicoes"
    /\ \/ Restam(checker.faltam \cup SemTurno(TRUE, checker.quando)) /\ Ok
       \/ checker' = Parado /\ Falha
    /\ UNCHANGED <<ativos, turnos, alertas, nr, agora, edicoes>>

\* The list has the escalas first.
Proximo(e) ==
    /\ checker.passo = "lista"
    /\ e \in checker.faltam
    /\ e.sub => \A f \in checker.faltam : f.sub

\* The message names the guard; the post plays no part.
alertaJaExiste(usuario, dia) ==
    \E a \in DOMAIN alertas :
        alertas[a].usuario = usuario /\ alertas[a].aberto /\ alertas[a].data = dia

\* (mutant) The row is inserted even if there is an alert already.
NoShowAlerta_linhaSempre(e) ==
    /\ Proximo(e)
    /\ \/ /\ alertaJaExiste(e.usuario, Dia(checker.quando))
          /\ UNCHANGED alertas
          /\ Ok
       \/ /\ ~alertaJaExiste(e.usuario, Dia(checker.quando))
          /\ alertas' = Append(alertas, [usuario |-> e.usuario, data |-> Data(agora),
                                         aberto |-> TRUE])
          /\ Ok
    /\ checker' = [checker EXCEPT !.passo = "linha", !.atual = e]
    /\ UNCHANGED <<ativos, turnos, nr, agora, edicoes>>

\* Nobody else creates no_show alerts, so the look for one and the INSERT are one
\* step.  An error of either, or of CreateAlertaImediato, skips the commitment.
NoShowAlerta(e) ==
    /\ Proximo(e)
    /\ \/ /\ alertaJaExiste(e.usuario, Dia(checker.quando))
          /\ Restam(checker.faltam \ {e})
          /\ UNCHANGED alertas
          /\ Ok
       \/ /\ ~alertaJaExiste(e.usuario, Dia(checker.quando))
          /\ alertas' = Append(alertas, [usuario |-> e.usuario, data |-> Data(agora),
                                         aberto |-> TRUE])
          /\ checker' = [checker EXCEPT !.passo = "linha", !.atual = e]
          /\ Ok
       \/ /\ Falha
          /\ Restam(checker.faltam \ {e})
          /\ UNCHANGED alertas
    /\ UNCHANGED <<ativos, turnos, nr, agora, edicoes>>

\* criarTurnoAtrasado: the date is the day of the cycle.  There is no row, and no
\* second try, for hours it cannot read: the alert has been raised.
NoShowLinha ==
    /\ checker.passo = "linha"
    /\ LET e == checker.atual
           d == Dia(checker.quando)
           legivel == Legivel(e.inicio) /\ Legivel(e.fim)
       IN  /\ \/ legivel /\ Inserir(e, "atrasado", Inicio(e, d), Fim(e, d)) /\ Ok
              \/ ~legivel /\ UNCHANGED turnos /\ Ok
              \/ legivel /\ Falha /\ UNCHANGED turnos
           /\ Restam(checker.faltam \ {e})
    /\ UNCHANGED <<ativos, alertas, nr, agora, edicoes>>

checkNoShow ==
    \/ NoShowEscalas \/ NoShowSubstituicoes
    \/ \E e \in Compromissos : NoShowAlerta(e)
    \/ NoShowLinha
-----------------------------------------------------------------------------
(* NaoRealizadoChecker.                                                    *)

\* (mutant) Any shift of that day counts, but not those recorded as atrasado.
ConcluidasSemTurno_iniciados(sub, d, h) ==
    {e \in ativos :
        /\ e.sub = sub
        /\ Vale(e, d)
        /\ e.inicio < h
        /\ e.fim + (IF e.fim < e.inicio THEN Horas ELSE 0) < h
        /\ ~\E i \in DOMAIN turnos : /\ MesmoPosto(turnos[i].por, e)
                                     /\ Data(turnos[i].inicio) = d
                                     /\ turnos[i].status # "atrasado"}

\* (mutant) Only rows that workers wrote count.
ConcluidasSemTurno_ausentes(sub, d, h) ==
    {e \in ativos :
        /\ e.sub = sub
        /\ Vale(e, d)
        /\ e.inicio < h
        /\ e.fim + (IF e.fim < e.inicio THEN Horas ELSE 0) < h
        /\ ~\E i \in DOMAIN turnos : /\ MesmoPosto(turnos[i].por, e)
                                     /\ Data(turnos[i].inicio) = d
                                     /\ turnos[i].status \in Ausente}

\* FindEscalasConcluidasSemTurno, FindSubstituicoesConcluidasSemTurno.  The end of
\* the commitment on the past date d is compared with d at the present hour h.
ConcluidasSemTurno(sub, d, h) ==
    {e \in ativos :
        /\ e.sub = sub
        /\ Vale(e, d)
        /\ e.inicio < h
        /\ e.fim + (IF e.fim < e.inicio THEN Horas ELSE 0) < h
        /\ ~\E i \in DOMAIN turnos :
              MesmoPosto(turnos[i].por, e) /\ Data(turnos[i].inicio) = d}

\* The first query for the day that is `dias' back.  An error of it, or of the
\* second one, leaves nothing to do for that day.
NrEscalas(quando, dias) ==
    \/ /\ nr' = [passo |-> "escalas", quando |-> quando, dias |-> dias,
                  faltam |-> ConcluidasSemTurno(FALSE, Dia(quando) - dias, Hora(quando))]
       /\ Ok
    \/ /\ nr' = [passo |-> "substituicoes", quando |-> quando, dias |-> dias, faltam |-> {}]
       /\ Falha

NrComecar ==
    /\ nr.passo = "parado"
    /\ NrEscalas(agora, 1)
    /\ UNCHANGED <<ativos, turnos, alertas, checker, agora, edicoes>>

NrDia == Dia(nr.quando) - nr.dias

NrSubstituicoes ==
    /\ nr.passo = "escalas"
    /\ nr.faltam = {}
    /\ \/ /\ nr' = [nr EXCEPT !.passo = "substituicoes",
                 !.faltam = ConcluidasSemTurno(TRUE, NrDia, Hora(nr.quando))]
          /\ Ok
       \/ nr' = [nr EXCEPT !.passo = "substituicoes"] /\ Falha
    /\ UNCHANGED <<ativos, turnos, alertas, checker, agora, edicoes>>

\* criarTurnoNaoRealizado: an error is logged, and the next row is tried.  Its hours
\* can be read: the queries never return 24:00, which is not before any hour of a day.
NrLinha(e) ==
    /\ e \in nr.faltam
    /\ \/ Inserir(e, "nao_realizado", Inicio(e, NrDia), Fim(e, NrDia)) /\ Ok
       \/ Falha /\ UNCHANGED turnos
    /\ nr' = [nr EXCEPT !.faltam = @ \ {e}]
    /\ UNCHANGED <<ativos, alertas, checker, agora, edicoes>>

\* (mutant) It looks back one day too many.
NrProximo_umAMais ==
    /\ nr.passo = "substituicoes"
    /\ nr.faltam = {}
    /\ IF nr.dias <= DiasAtras THEN NrEscalas(nr.quando, nr.dias + 1) ELSE nr' = NrParado /\ Ok
    /\ UNCHANGED <<ativos, turnos, alertas, checker, agora, edicoes>>

\* (mutant) It looks at yesterday only.
NrProximo_soOntem ==
    /\ nr.passo = "substituicoes"
    /\ nr.faltam = {}
    /\ nr' = NrParado
    /\ Ok
    /\ UNCHANGED <<ativos, turnos, alertas, checker, agora, edicoes>>

NrProximo ==
    /\ nr.passo = "substituicoes"
    /\ nr.faltam = {}
    /\ IF nr.dias < DiasAtras THEN NrEscalas(nr.quando, nr.dias + 1) ELSE nr' = NrParado /\ Ok
    /\ UNCHANGED <<ativos, turnos, alertas, checker, agora, edicoes>>

NaoRealizado ==
    \/ NrComecar \/ NrSubstituicoes \/ NrProximo
    \/ \E e \in Compromissos : NrLinha(e)
-----------------------------------------------------------------------------
Reiniciar ==
    /\ checker # Parado \/ nr # NrParado
    /\ Falha
    /\ checker' = Parado
    /\ nr' = NrParado
    /\ UNCHANGED <<ativos, turnos, alertas, agora, edicoes>>

\* A cycle of a worker takes much less than an hour: at most one turn of the hour
\* falls into it.
Tique ==
    /\ agora < MaxAgora
    /\ checker.passo # "parado" => checker.quando = agora
    /\ nr.passo # "parado" => nr.quando = agora
    /\ agora' = agora + 1
    /\ UNCHANGED <<ativos, turnos, alertas, checker, nr, edicoes, falhas>>

Next ==
    \/ \E e \in Compromissos :
          \/ Iniciar(e) \/ Criar(e) \/ Delete(e)
          \/ \E f \in Compromissos : Update(e, f)
          \/ \E dias \in SUBSET Compromissos : ReplaceLote(e, dias)
    \/ \E i \in DOMAIN turnos : Finalizar(i)
    \/ \E a \in DOMAIN alertas : FecharAlerta(a)
    \/ checkNoShow \/ NaoRealizado
    \/ Reiniciar \/ Tique

\* The workers are goroutines with tickers that never stop, and time passes.  Nothing
\* obliges a guard to come, a panel to close an alert or anybody to edit schedules.
Justica == WF_vars(checkNoShow) /\ WF_vars(NaoRealizado) /\ WF_vars(Tique)

Spec == Init /\ [][Next]_vars /\ Justica
-----------------------------------------------------------------------------
(* Properties.                                                             *)

\* Shifts of the commitment begin on the same date in both zones.
MesmaData(e) == e.tol <= e.inicio /\ e.inicio + e.tol + Fuso < Horas

\* An absence is recorded once, although two workers look for it with different
\* queries, and either may fail or be restarted between its alert and its row.
UmRegistroPorFalta ==
    \A i, j \in DOMAIN turnos :
        /\ turnos[i].status \in Ausente /\ turnos[j].status \in Ausente
        /\ turnos[i].por = turnos[j].por /\ turnos[i].inicio = turnos[j].inicio
        /\ MesmaData(turnos[i].por)
        => i = j

\* A guard who started a shift at the post is not recorded as not having come
\* there on that day, whenever the shift ended and however schedules are edited.
QuemVeioNaoFaltou ==
    \A i, j \in DOMAIN turnos :
        /\ turnos[i].status = "nao_realizado" /\ turnos[j].status \notin Ausente
        /\ MesmoPosto(turnos[i].por, turnos[j].por)
        /\ MesmaData(turnos[i].por) /\ MesmaData(turnos[j].por)
        => Dia(turnos[i].inicio) # Dia(turnos[j].inicio)

\* No shift is recorded as atrasado without an alert of its own having been raised
\* for that guard, even if statements fail: somebody was told.
AtrasadoTemAlerta ==
    \A e \in Compromissos :
        Cardinality({i \in DOMAIN turnos :
                        turnos[i].status = "atrasado" /\ turnos[i].por.usuario = e.usuario})
          <= Cardinality({a \in DOMAIN alertas : alertas[a].usuario = e.usuario})

\* Commitment e of date d was yesterday's or an older one.
Perdido(e, d) == e \in ativos /\ Vale(e, d) /\ Dia(agora) > d

\* At the last hour of the model the not-done worker still looks at it.
AoAlcance(e, d) ==
    /\ d \in Dia(MaxAgora) - DiasAtras .. Dia(MaxAgora) - 1
    /\ Hora(MaxAgora) > e.fim

Registrado(e, d) ==
    \E i \in DOMAIN turnos : MesmoPosto(turnos[i].por, e) /\ Data(turnos[i].inicio) = d

\* A commitment that begins and ends on one date leaves a trace: a shift of that
\* guard at that post on that date, kept or recorded as missed, although cycles
\* fail, are cut short by a restart or do not run for hours, unless the schedule is
\* edited first.
FaltaRegistrada ==
    \A e \in Compromissos : \A d \in -DiasAtras .. Dia(MaxAgora) :
        e.inicio < e.fim /\ MesmaData(e) /\ AoAlcance(e, d) =>
           (Perdido(e, d) ~> (Registrado(e, d) \/ e \notin ativos))
-----------------------------------------------------------------------------
(* A statement of the repository that the code does not live up to.        *)

\* A commitment that ended without anybody starting it is recorded, one that ends
\* on the day after it began included (comment of FindEscalasConcluidasSemTurno).
FaltaNoturnaRegistrada ==
    \A e \in Compromissos : \A d \in 0 .. Dia(MaxAgora) :
        AoAlcance(e, d) =>
           ((Perdido(e, d) /\ agora > Fim(e, d)) ~> (Registrado(e, d) \/ e \notin ativos))
=============================================================================
