------------------------------- MODULE Turno -------------------------------
(***************************************************************************)
(* The life of a shift (turno) and of the device session bound to it, as   *)
(* internal/service/turno_service.go drives them.                          *)
(*                                                                         *)
(* Every HTTP handler is a request in `proc' that reads the tables, checks *)
(* its guards on what it read, and only then writes, one SQL statement per *)
(* step.  The code opens no transaction and every UPDATE names the row by  *)
(* its id alone, so the guards are not checked again when a write lands:   *)
(* requests interleave between any two steps.                              *)
(*                                                                         *)
(* Time is a bounded clock.  UUIDs, positions and wording are abstracted:  *)
(* token_sessao is kept as "set or NULL" (nothing compares its value), and *)
(* the geofence flag and the password typed are inputs of a request.       *)
(* `alertas' remembers which kinds of immediate alert were created for a   *)
(* shift; what happens to an alert afterwards is the subject of Alerta.    *)
(***************************************************************************)
EXTENDS Naturals, FiniteSets

CONSTANTS
    Usuarios,      \* guards (vigias) of one company
    Devices,       \* device ids
    Turnos,        \* ids a row of the table turnos can get
    Procs,         \* requests that can be in execution at the same time
    Pins,          \* the 6-digit PINs
    Senhas,        \* kinds of password a guard may type
    Desvios,       \* outcomes of the geofence test (TRUE: outside)
    Duracoes,      \* possible distances from the start to fim_previsto
    ValidadePin,   \* lifetime of a PIN
    MaxAgora,      \* bound of the clock
    MaxFalhas,     \* bound of the failures (SQL errors, cancelled requests)
    NULL

TiposSenha == {"ok", "emergencia", "customizada", "invalida"}

ASSUME ConstantesOK ==
    /\ NULL \notin Usuarios \cup Devices \cup Turnos \cup Pins \cup Nat
    /\ Senhas \subseteq TiposSenha
    /\ Desvios \subseteq BOOLEAN
    /\ Duracoes \subseteq Nat \ {0}
    /\ ValidadePin \in Nat
    /\ MaxAgora \in Nat
    /\ MaxFalhas \in Nat

ASSUME ConjuntosFinitos == IsFiniteSet(Turnos) /\ IsFiniteSet(Procs)

VARIABLES
    turno,     \* the table turnos; status "vago" means the id is not used yet
    dono,      \* sessoes_dispositivo: the owner of each registered device
    checkins,  \* what was stored in the table checkins, per shift
    alertas,   \* the kinds of immediate alert created, per shift
    painel,    \* the last status_change event broadcast, per shift
    proc,      \* the requests in execution
    agora,     \* the server's clock
    falhas     \* failures so far

vars == <<turno, dono, checkins, alertas, painel, proc, agora, falhas>>
-----------------------------------------------------------------------------
Ativo     == {"em_andamento", "pausado", "critico"}
Terminal  == {"finalizado", "atrasado", "nao_realizado"}
DoWorker  == {"atrasado", "nao_realizado"}
Iniciado  == Ativo \cup {"finalizado"}
Status    == Ativo \cup Terminal \cup {"vago"}
Evento    == {"inicio", "checkin", "finalizacao", "sabotagem"}
TipoAlerta == {"emergencia", "customizada", "desvio_rota", "sabotagem"}

Linha ==
    [status       : Status,
     usuario      : Usuarios \cup {NULL},
     token        : BOOLEAN,
     device       : Devices \cup {NULL},
     pin          : Pins \cup {NULL},
     pinValidoAte : Nat \cup {NULL},
     fimPrevisto  : Nat,
     fimReal      : Nat \cup {NULL}]

Vaga ==
    [status |-> "vago", usuario |-> NULL, token |-> FALSE, device |-> NULL,
     pin |-> NULL, pinValidoAte |-> NULL, fimPrevisto |-> 0, fimReal |-> NULL]

\* Where a request is: what it does next.
Passo ==
    {"livre", "ini_criar", "ini_emitir", "ini_checkin", "ini_desvio",
     "chk_gravar", "chk_alertar",
     "fim_gravar", "fim_alertar", "fim_status", "fim_emitir",
     "sab_status", "sab_emitir", "sab_alertar",
     "vig_finalizar", "rev_gravar", "rea_gravar"}

\* The steps of a request that already fixed the row it writes.
ComTurno == Passo \ {"livre", "ini_criar"}

Pedido ==
    [pc      : Passo,
     turno   : Turnos \cup {NULL},
     usuario : Usuarios \cup {NULL},
     device  : Devices \cup {NULL},
     senha   : TiposSenha,
     desvio  : BOOLEAN]

Livre ==
    [pc |-> "livre", turno |-> NULL, usuario |-> NULL, device |-> NULL,
     senha |-> "ok", desvio |-> FALSE]

TypeOK ==
    /\ turno \in [Turnos -> Linha]
    /\ dono \in [Devices -> Usuarios \cup {NULL}]
    /\ checkins \in [Turnos -> SUBSET (Evento \X TiposSenha)]
    /\ alertas \in [Turnos -> SUBSET TipoAlerta]
    /\ painel \in [Turnos -> Iniciado \cup {"vago"}]
    /\ proc \in [Procs -> Pedido]
    /\ agora \in Nat
    /\ falhas \in Nat
    /\ \A p \in Procs :
          /\ proc[p].pc \in ComTurno => proc[p].turno \in Turnos
          /\ proc[p].pc = "ini_criar" =>
                proc[p].usuario \in Usuarios /\ proc[p].device \in Devices
          /\ proc[p].pc = "rea_gravar" => proc[p].device \in Devices

Init ==
    /\ turno = [t \in Turnos |-> Vaga]
    /\ dono = [d \in Devices |-> NULL]
    /\ checkins = [t \in Turnos |-> {}]
    /\ alertas = [t \in Turnos |-> {}]
    /\ painel = [t \in Turnos |-> "vago"]
    /\ proc = [p \in Procs |-> Livre]
    /\ agora = 0
    /\ falhas = 0
-----------------------------------------------------------------------------
(* Reading and writing the tables.                                         *)

Ativos(u) == {t \in Turnos : turno[t].usuario = u /\ turno[t].status \in Ativo}

\* (mutant) COALESCE(fim_real): a NULL leaves the old end time.
UpdateStatus_coalesce(t, status, fim) ==
    turno' = [turno EXCEPT ![t].status = status,
                           ![t].fimReal = IF fim = NULL THEN @ ELSE fim]

UpdateStatus(t, status, fim) ==
    turno' = [turno EXCEPT ![t].status = status, ![t].fimReal = fim]

Gravar(t, evento, senha) ==
    checkins' = [checkins EXCEPT ![t] = @ \cup {<<evento, senha>>}]

Broadcast(t, status) == painel' = [painel EXCEPT ![t] = status]

\* An error of CreateAlerta or CreateAlertaImediato is logged and swallowed.  An
\* alert can also be missing because the password is looked up a second time
\* (aplicarConsequenciaSenha) and its row was changed meanwhile: a failure too.
CriarAlertas(t, tipos) ==
    \E criados \in SUBSET tipos :
        /\ criados # tipos => falhas < MaxFalhas
        /\ alertas' = [alertas EXCEPT ![t] = @ \cup criados]
        /\ falhas' = IF criados = tipos THEN falhas ELSE falhas + 1

AlertasDaSenha(s) == {s} \ {"ok", "invalida"}

AlertasDoDesvio(fora) == IF fora THEN {"desvio_rota"} ELSE {}

Segue(p, passo) == proc' = [proc EXCEPT ![p].pc = passo]
Responde(p)     == proc' = [proc EXCEPT ![p] = Livre]

Comeca(p, passo, t, u, d, s, fora) ==
    /\ proc[p].pc = "livre"
    /\ proc' = [proc EXCEPT ![p] =
          [pc |-> passo, turno |-> t, usuario |-> u, device |-> d,
           senha |-> s, desvio |-> fora]]
    /\ UNCHANGED <<turno, dono, checkins, alertas, painel, agora, falhas>>

Esta(p, passo) == proc[p].pc = passo
-----------------------------------------------------------------------------
(* POST /turnos/iniciar                                                    *)

\* (mutant) A shift turned critico no longer counts as active.
IniciarLer_soEmAndamento(p, u, d, s, fora) ==
    /\ \A t \in Ativos(u) : turno[t].status # "em_andamento"
    /\ dono[d] # NULL
    /\ Comeca(p, "ini_criar", NULL, u, d, s, fora)

\* The reads: no active shift of this guard, and a registered device (of
\* whichever guard).  Posto, escala and tolerance only reject further.
IniciarLer(p, u, d, s, fora) ==
    /\ Ativos(u) = {}
    /\ dono[d] # NULL
    /\ Comeca(p, "ini_criar", NULL, u, d, s, fora)

IniciarCriar(p, t, duracao) ==
    /\ Esta(p, "ini_criar")
    /\ turno[t].status = "vago"
    /\ turno' = [turno EXCEPT ![t] =
          [status |-> "em_andamento", usuario |-> proc[p].usuario,
           token |-> TRUE, device |-> proc[p].device,
           pin |-> NULL, pinValidoAte |-> NULL,
           fimPrevisto |-> agora + duracao, fimReal |-> NULL]]
    /\ proc' = [proc EXCEPT ![p].pc = "ini_emitir", ![p].turno = t]
    /\ UNCHANGED <<dono, checkins, alertas, painel, agora, falhas>>

\* (mutant) The check-in of the start is forgotten.
IniciarEmitir_semCheckin(p) ==
    /\ Esta(p, "ini_emitir")
    /\ Broadcast(proc[p].turno, "em_andamento")
    /\ CriarAlertas(proc[p].turno, AlertasDaSenha(proc[p].senha))
    /\ Segue(p, "ini_desvio")
    /\ UNCHANGED <<turno, dono, checkins, agora>>

\* The broadcast, then the consequence of the password.
IniciarEmitir(p) ==
    /\ Esta(p, "ini_emitir")
    /\ Broadcast(proc[p].turno, "em_andamento")
    /\ CriarAlertas(proc[p].turno, AlertasDaSenha(proc[p].senha))
    /\ Segue(p, "ini_checkin")
    /\ UNCHANGED <<turno, dono, checkins, agora>>

\* `senha' stands for the password the row refers to (its id): tipo_senha of
\* this check-in is always the code of the start.
IniciarCheckin(p) ==
    /\ Esta(p, "ini_checkin")
    /\ Gravar(proc[p].turno, "inicio", proc[p].senha)
    /\ Segue(p, "ini_desvio")
    /\ UNCHANGED <<turno, dono, alertas, painel, agora, falhas>>

IniciarDesvio(p) ==
    /\ Esta(p, "ini_desvio")
    /\ CriarAlertas(proc[p].turno, AlertasDoDesvio(proc[p].desvio))
    /\ Responde(p)
    /\ UNCHANGED <<turno, dono, checkins, painel, agora>>
-----------------------------------------------------------------------------
(* The guards shared by Checkin, Finalizar and Sabotagem.                  *)

\* (mutant) Only the device is compared.
validarSessaoTurno_semToken(t, d) ==
    turno[t].device # NULL => turno[t].device = d

validarSessaoTurno(t, d) ==
    /\ turno[t].token
    /\ turno[t].device # NULL => turno[t].device = d

\* (mutant) The test for a finished shift is missing.
PodeAgir_semTerminal(t, u, d) ==
    /\ turno[t].status \notin DoWorker \cup {"vago"}
    /\ turno[t].usuario = u
    /\ validarSessaoTurno(t, d)

PodeAgir(t, u, d) ==
    /\ turno[t].status # "vago"
    /\ turno[t].usuario = u
    /\ turno[t].status \notin Terminal
    /\ validarSessaoTurno(t, d)

(* POST /turnos/checkin.  An entry of POST /checkins/lote takes the same    *)
(* steps, without a geofence alert; Alerta says more about batches.        *)

CheckinLer(p, t, u, d, s, fora) ==
    /\ PodeAgir(t, u, d)
    /\ Comeca(p, "chk_gravar", t, u, d, s, fora)

CheckinGravar(p) ==
    /\ Esta(p, "chk_gravar")
    /\ Gravar(proc[p].turno, "checkin", proc[p].senha)
    /\ Segue(p, "chk_alertar")
    /\ UNCHANGED <<turno, dono, alertas, painel, agora, falhas>>

CheckinAlertar(p) ==
    /\ Esta(p, "chk_alertar")
    /\ CriarAlertas(proc[p].turno,
          AlertasDaSenha(proc[p].senha) \cup AlertasDoDesvio(proc[p].desvio))
    /\ Responde(p)
    /\ UNCHANGED <<turno, dono, checkins, painel, agora>>

(* POST /turnos/finalizar                                                  *)

\* `ts' is the timestamp the device sent, not the server's clock.
FinalizarLer(p, t, u, d, s, fora, ts) ==
    /\ PodeAgir(t, u, d)
    /\ ~(ts < turno[t].fimPrevisto)
    /\ Comeca(p, "fim_gravar", t, u, d, s, fora)

FinalizarGravar(p) ==
    /\ Esta(p, "fim_gravar")
    /\ Gravar(proc[p].turno, "finalizacao", proc[p].senha)
    /\ Segue(p, "fim_alertar")
    /\ UNCHANGED <<turno, dono, alertas, painel, agora, falhas>>

FinalizarAlertar(p) ==
    /\ Esta(p, "fim_alertar")
    /\ CriarAlertas(proc[p].turno,
          AlertasDaSenha(proc[p].senha) \cup AlertasDoDesvio(proc[p].desvio))
    /\ Segue(p, "fim_status")
    /\ UNCHANGED <<turno, dono, checkins, painel, agora>>

FinalizarStatus(p) ==
    /\ Esta(p, "fim_status")
    /\ UpdateStatus(proc[p].turno, "finalizado", agora)
    /\ Segue(p, "fim_emitir")
    /\ UNCHANGED <<dono, checkins, alertas, painel, agora, falhas>>

FinalizarEmitir(p) ==
    /\ Esta(p, "fim_emitir")
    /\ Broadcast(proc[p].turno, "finalizado")
    /\ Responde(p)
    /\ UNCHANGED <<turno, dono, checkins, alertas, agora, falhas>>
-----------------------------------------------------------------------------
(* POST /turnos/sabotagem: every error after the guards is discarded.      *)

SabotagemLer(p, t, u, d) ==
    /\ PodeAgir(t, u, d)
    /\ Comeca(p, "sab_status", t, u, d, "ok", FALSE)

\* (mutant) The event's name is written as the status.
SabotagemStatus_evento(p) ==
    /\ Esta(p, "sab_status")
    /\ UpdateStatus(proc[p].turno, "sabotagem", NULL)
    /\ Segue(p, "sab_emitir")
    /\ UNCHANGED <<dono, checkins, alertas, painel, agora, falhas>>

SabotagemStatus(p) ==
    /\ Esta(p, "sab_status")
    /\ \/ UpdateStatus(proc[p].turno, "critico", NULL) /\ UNCHANGED falhas
       \/ falhas < MaxFalhas /\ falhas' = falhas + 1 /\ UNCHANGED turno
    /\ Segue(p, "sab_emitir")
    /\ UNCHANGED <<dono, checkins, alertas, painel, agora>>

\* (mutant) The handler answers before it raises the alert.
SabotagemEmitir_responde(p) ==
    /\ Esta(p, "sab_emitir")
    /\ Broadcast(proc[p].turno, "critico")
    /\ Gravar(proc[p].turno, "sabotagem", "ok")
    /\ Responde(p)
    /\ UNCHANGED <<turno, dono, alertas, agora, falhas>>

\* (mutant) The change of status is not broadcast.
SabotagemEmitir_semBroadcast(p) ==
    /\ Esta(p, "sab_emitir")
    /\ Gravar(proc[p].turno, "sabotagem", "ok")
    /\ Segue(p, "sab_alertar")
    /\ UNCHANGED <<turno, dono, alertas, painel, agora, falhas>>

SabotagemEmitir(p) ==
    /\ Esta(p, "sab_emitir")
    /\ Broadcast(proc[p].turno, "critico")
    /\ \/ Gravar(proc[p].turno, "sabotagem", "ok") /\ UNCHANGED falhas
       \/ falhas < MaxFalhas /\ falhas' = falhas + 1 /\ UNCHANGED checkins
    /\ Segue(p, "sab_alertar")
    /\ UNCHANGED <<turno, dono, alertas, agora>>

SabotagemAlertar(p) ==
    /\ Esta(p, "sab_alertar")
    /\ CriarAlertas(proc[p].turno, {"sabotagem"})
    /\ Responde(p)
    /\ UNCHANGED <<turno, dono, checkins, painel, agora>>

(* GET /vigia/turno closes a shift whose time is over, and tells nobody.   *)

GetVigiaTurnoLer(p, t, u) ==
    /\ t \in Ativos(u)
    /\ agora > turno[t].fimPrevisto
    /\ Comeca(p, "vig_finalizar", t, u, NULL, "ok", FALSE)

GetVigiaTurnoFinalizar(p) ==
    /\ Esta(p, "vig_finalizar")
    /\ UpdateStatus(proc[p].turno, "finalizado", agora)
    /\ Responde(p)
    /\ UNCHANGED <<dono, checkins, alertas, painel, agora, falhas>>
-----------------------------------------------------------------------------
(* POST /turnos/{id}/revogar and POST /turnos/reassociar                   *)

\* (mutant) Only a finished shift is refused.
RevogarLer_soFinalizado(p, t) ==
    /\ turno[t].status \notin {"vago", "finalizado"}
    /\ Comeca(p, "rev_gravar", t, NULL, NULL, "ok", FALSE)

RevogarLer(p, t) ==
    /\ turno[t].status # "vago"
    /\ turno[t].status \notin Terminal
    /\ Comeca(p, "rev_gravar", t, NULL, NULL, "ok", FALSE)

RevogarGravar(p, pin) ==
    /\ Esta(p, "rev_gravar")
    /\ turno' = [turno EXCEPT ![proc[p].turno].token = FALSE,
                              ![proc[p].turno].device = NULL,
                              ![proc[p].turno].pin = pin,
                              ![proc[p].turno].pinValidoAte = agora + ValidadePin]
    /\ Responde(p)
    /\ UNCHANGED <<dono, checkins, alertas, painel, agora, falhas>>

ReassociarLer(p, t, u, d, pin) ==
    /\ dono[d] = u
    /\ t \in Ativos(u)
    /\ turno[t].pin = pin
    /\ turno[t].pinValidoAte # NULL
    /\ ~(agora > turno[t].pinValidoAte)
    /\ Comeca(p, "rea_gravar", t, u, d, "ok", FALSE)

\* (mutant) The PIN is not erased.
ReassociarGravar_pinVivo(p) ==
    /\ Esta(p, "rea_gravar")
    /\ turno' = [turno EXCEPT ![proc[p].turno].token = TRUE,
                              ![proc[p].turno].device = proc[p].device]
    /\ Responde(p)
    /\ UNCHANGED <<dono, checkins, alertas, painel, agora, falhas>>

ReassociarGravar(p) ==
    /\ Esta(p, "rea_gravar")
    /\ turno' = [turno EXCEPT ![proc[p].turno].token = TRUE,
                              ![proc[p].turno].device = proc[p].device,
                              ![proc[p].turno].pin = NULL,
                              ![proc[p].turno].pinValidoAte = NULL]
    /\ Responde(p)
    /\ UNCHANGED <<dono, checkins, alertas, painel, agora, falhas>>
-----------------------------------------------------------------------------
(* The rest of the system, as far as it touches these tables.              *)

\* POST /auth/biometric/register: an upsert, so a device may change hands.
RegisterBiometric(u, d) ==
    /\ dono' = [dono EXCEPT ![d] = u]
    /\ UNCHANGED <<turno, checkins, alertas, painel, proc, agora, falhas>>

\* POST /auth/logout: removes one device, or all those of the user.
Logout(ds) ==
    /\ dono' = [d \in Devices |-> IF d \in ds THEN NULL ELSE dono[d]]
    /\ UNCHANGED <<turno, checkins, alertas, painel, proc, agora, falhas>>

\* The no-show and not-done workers insert rows that nobody ever starts.
CriarTurnoDoWorker(t, u, status, fim) ==
    /\ turno[t].status = "vago"
    /\ turno' = [turno EXCEPT ![t] =
          [Vaga EXCEPT !.status = status, !.usuario = u, !.fimPrevisto = fim]]
    /\ UNCHANGED <<dono, checkins, alertas, painel, proc, agora, falhas>>

\* A statement fails and the handler returns the error, the client goes away
\* and its context is cancelled, or the server stops: the rest is not done.
Abortar(p) ==
    /\ ~Esta(p, "livre")
    /\ falhas < MaxFalhas
    /\ falhas' = falhas + 1
    /\ Responde(p)
    /\ UNCHANGED <<turno, dono, checkins, alertas, painel, agora>>

Tique ==
    /\ agora < MaxAgora
    /\ agora' = agora + 1
    /\ UNCHANGED <<turno, dono, checkins, alertas, painel, proc, falhas>>
-----------------------------------------------------------------------------
Iniciar(p) ==
    \/ \E u \in Usuarios, d \in Devices, s \in Senhas, fora \in Desvios :
          IniciarLer(p, u, d, s, fora)
    \/ \E t \in Turnos, duracao \in Duracoes : IniciarCriar(p, t, duracao)
    \/ IniciarEmitir(p)
    \/ IniciarCheckin(p)
    \/ IniciarDesvio(p)

Checkin(p) ==
    \/ \E t \in Turnos, u \in Usuarios, d \in Devices, s \in Senhas, fora \in Desvios :
          CheckinLer(p, t, u, d, s, fora)
    \/ CheckinGravar(p)
    \/ CheckinAlertar(p)

Finalizar(p) ==
    \/ \E t \in Turnos, u \in Usuarios, d \in Devices, s \in Senhas, fora \in Desvios,
          ts \in 0 .. MaxAgora + 1 :
          FinalizarLer(p, t, u, d, s, fora, ts)
    \/ FinalizarGravar(p)
    \/ FinalizarAlertar(p)
    \/ FinalizarStatus(p)
    \/ FinalizarEmitir(p)

Sabotagem(p) ==
    \/ \E t \in Turnos, u \in Usuarios, d \in Devices : SabotagemLer(p, t, u, d)
    \/ SabotagemStatus(p)
    \/ SabotagemEmitir(p)
    \/ SabotagemAlertar(p)

GetVigiaTurno(p) ==
    \/ \E t \in Turnos, u \in Usuarios : GetVigiaTurnoLer(p, t, u)
    \/ GetVigiaTurnoFinalizar(p)

Revogar(p) ==
    \/ \E t \in Turnos : RevogarLer(p, t)
    \/ \E pin \in Pins : RevogarGravar(p, pin)

Reassociar(p) ==
    \/ \E t \in Turnos, u \in Usuarios, d \in Devices, pin \in Pins :
          ReassociarLer(p, t, u, d, pin)
    \/ ReassociarGravar(p)

Ambiente ==
    \/ \E u \in Usuarios, d \in Devices : RegisterBiometric(u, d)
    \/ \E d \in Devices : Logout({d})
    \/ \E u \in Usuarios : Logout({d \in Devices : dono[d] = u})
    \/ \E t \in Turnos, u \in Usuarios, status \in DoWorker, fim \in Duracoes :
          CriarTurnoDoWorker(t, u, status, fim)
    \/ Tique

Next ==
    \/ \E p \in Procs :
          \/ Iniciar(p) \/ Checkin(p) \/ Finalizar(p) \/ Sabotagem(p)
          \/ GetVigiaTurno(p) \/ Revogar(p) \/ Reassociar(p) \/ Abortar(p)
    \/ Ambiente

Spec == Init /\ [][Next]_vars
-----------------------------------------------------------------------------
(* Properties that hold however the requests interleave.                   *)

\* The columns of a session change together: a shift has a token exactly when
\* it has a device, a PIN exactly when it has a deadline for it, and a started
\* shift has either a session or a PIN to get one, never both (RevogarToken,
\* Reassociar and Create each write them in one statement).
SessaoCoerente ==
    \A t \in Turnos :
        /\ turno[t].token <=> turno[t].device # NULL
        /\ turno[t].pin = NULL <=> turno[t].pinValidoAte = NULL
        /\ turno[t].status \in Iniciado => (turno[t].token <=> turno[t].pin = NULL)
        /\ turno[t].status \notin Iniciado => turno[t].pin = NULL

\* A shift has an end time exactly while its status is finalizado, even when a
\* late report of sabotage reopens it.
FimRealSoFinalizado ==
    \A t \in Turnos : turno[t].fimReal # NULL <=> turno[t].status = "finalizado"

\* A row that a worker wrote (atrasado, nao_realizado) records an absence: no
\* request ever changes it, checks in on it, raises an alert or shows it.
AusenciaCongelada ==
    [][\A t \in Turnos :
          turno[t].status \in DoWorker =>
             UNCHANGED <<turno[t], checkins[t], alertas[t], painel[t]>>]_vars

-----------------------------------------------------------------------------
(* What all this promises about each shift: see Plantao.                   *)

Fase(t) ==
    CASE turno[t].status = "vago"       -> "vago"
      [] turno[t].status \in Ativo      -> "em_curso"
      [] turno[t].status = "finalizado" -> "encerrado"
      [] turno[t].status \in DoWorker   -> "ausente"

\* A revocation leaves a PIN.
Sessao(t) == IF turno[t].pin = NULL THEN turno[t].device ELSE "revogada"

Vida == INSTANCE Plantao WITH
    fase      <- [t \in Turnos |-> Fase(t)],
    vigia     <- [t \in Turnos |-> turno[t].usuario],
    sessao    <- [t \in Turnos |-> Sessao(t)],
    marcas    <- [t \in Turnos |-> <<checkins[t], alertas[t], painel[t]>>],
    SemMarcas <- <<{}, {}, "vago">>

\* Although every guard is checked statements before the write it protects, each
\* shift lives one life: it keeps its guard, an absence is never started nor noted
\* upon, and no request writes on a shift nobody started.
ImplementaPlantao == Vida!Spec
-----------------------------------------------------------------------------
\* The requests that saw no active shift of the guard and are about to insert one.
Iniciando(u) == {p \in Procs : proc[p].pc = "ini_criar" /\ proc[p].usuario = u}

\* The check for an active shift and the INSERT of Iniciar are two statements, and a
\* late report of sabotage may reopen a finished shift, so a guard can end up with
\* several active shifts.  But each costs a request: those that are active, and those
\* about to be inserted, are never more than the requests in execution at once.
AtivosLimitados ==
    \A u \in Usuarios :
        Cardinality(Ativos(u)) + Cardinality(Iniciando(u)) <= Cardinality(Procs)

\* As long as nothing fails, a duress password stored with a check-in and a
\* shift shown as critico have their alert, unless the request that will raise
\* it is still running: no interleaving loses the guard's signal.
Pedindo(t, passos) == \E p \in Procs : proc[p].turno = t /\ proc[p].pc \in passos

SinalTemAlerta ==
    falhas = 0 =>
      \A t \in Turnos :
        /\ \A e \in Evento, s \in {"emergencia", "customizada"} :
              <<e, s>> \in checkins[t] =>
                 s \in alertas[t] \/ Pedindo(t, {"chk_alertar", "fim_alertar"})
        /\ turno[t].status = "critico" \/ painel[t] = "critico" =>
              "sabotagem" \in alertas[t] \/ Pedindo(t, {"sab_emitir", "sab_alertar"})

\* A shift without any check-in is one whose Iniciar has not finished, or one that a
\* failure cut short, and each failure leaves at most one.  The timeout checker skips
\* shifts without check-ins, so nothing else may leave one unwatched.
SemVigia ==
    {t \in Turnos :
        /\ turno[t].status \in Iniciado /\ checkins[t] = {}
        /\ ~Pedindo(t, {"ini_emitir", "ini_checkin"})}

AtivoTemCheckin == Cardinality(SemVigia) <= falhas
-----------------------------------------------------------------------------
(* The guards are read statements before the writes they protect, so a      *)
(* request may still write on a shift after its guard ceased to hold.  Only *)
(* those already past their guards can: no other comes after them, and once *)
(* they are answered nothing changes.                                       *)

\* The requests that read shift t and are at one of the steps.
Sobre(t, passos) == {p \in Procs : proc[p].turno = t /\ proc[p].pc \in passos}

\* No request begins on a finished shift, and when none of those that had begun is
\* left (a late report of sabotage among them may reopen it) it stays as it is for
\* good: no row, check-in, alert or event of it changes.
FinalizadoEFinal ==
    [][\A t \in Turnos :
          turno[t].status = "finalizado" =>
             /\ Sobre(t, Passo)' \subseteq Sobre(t, Passo)
             /\ Sobre(t, Passo) = {} =>
                   UNCHANGED <<turno[t], checkins[t], alertas[t], painel[t]>>]_vars

DoVigia == Passo \ {"livre", "ini_criar", "vig_finalizar", "rev_gravar", "rea_gravar"}

\* A revoked shift stays in progress but the guard acts on it no more until a device
\* is associated again: no request of the guard's begins, and when those that had
\* passed the check of the session are answered it gets no check-in, no alert and no
\* event, and only the expiry of its time changes its status.
RevogadoNaoAge ==
    [][\A t \in Turnos :
          turno[t].status \in Ativo /\ ~turno[t].token =>
             /\ Sobre(t, DoVigia)' \subseteq Sobre(t, DoVigia)
             /\ Sobre(t, DoVigia) = {} =>
                   /\ UNCHANGED <<checkins[t], alertas[t], painel[t]>>
                   /\ \/ turno'[t].status = turno[t].status
                      \/ turno'[t].status = "finalizado" /\ agora > turno[t].fimPrevisto]_vars

\* A PIN serves only the requests that read it before the first of them was
\* associated: no association begins on a shift that has a session, and when none is
\* left the shift passes to another device only through a revocation.
PinDeUsoUnico ==
    [][\A t \in Turnos :
          turno[t].token =>
             /\ Sobre(t, {"rea_gravar"})' \subseteq Sobre(t, {"rea_gravar"})
             /\ Sobre(t, {"rea_gravar"}) = {} /\ turno'[t].token =>
                   turno'[t].device = turno[t].device]_vars

\* Who is between the UPDATE of a status and the event that tells it, and that event.
Emitindo(t) == Sobre(t, {"ini_emitir", "sab_emitir", "fim_emitir"})

EventoDe(p) ==
    CASE proc[p].pc = "ini_emitir" -> "em_andamento"
      [] proc[p].pc = "sab_emitir" -> "critico"
      [] proc[p].pc = "fim_emitir" -> "finalizado"

Acompanha(t) ==
    turno[t].status \in Ativo =>
       /\ Emitindo(t) = {} => painel[t] = turno[t].status
       /\ \A p \in Emitindo(t) : EventoDe(p) = turno[t].status

\* The panel shows the status of a shift in progress, or the event that will show it
\* is on its way.  A step that does not fail ends that only if it leaves two requests
\* on the shift between their UPDATE and their event, which may then be sent in the
\* other order.
PainelAcompanha ==
    [][falhas' = falhas =>
          \A t \in Turnos :
             Acompanha(t) => Acompanha(t)' \/ \E p, q \in Emitindo(t)' : p # q]_vars
=============================================================================
