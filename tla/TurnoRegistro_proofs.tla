------------------------- MODULE TurnoRegistro_proofs -------------------------
(* Proofs about what a shift leaves behind it (check-ins, alerts, the panel)   *)
(* and about what requests may still write on it after their guards ceased to  *)
(* hold, for every number of guards, shifts and requests.                      *)
EXTENDS Turno_proofs
-----------------------------------------------------------------------------
(***************************************************************************)
(* Signals and alerts.  While nothing fails, a signal without its alert    *)
(* has the very request that will raise it: for a password, one with that  *)
(* password.                                                               *)
(***************************************************************************)

\* Requests that owe an alert, or a check-in whose alert they have raised.
Marcando == {"ini_emitir", "ini_checkin", "chk_alertar", "fim_alertar", "sab_emitir", "sab_alertar"}

Graves == {"emergencia", "customizada"}

Fara(t, passos, s) ==
    \E p \in Procs : proc[p].turno = t /\ proc[p].pc \in passos /\ proc[p].senha = s

Sinalizado(t) ==
    \A e \in Evento, s \in Graves :
        <<e, s>> \in checkins[t] => s \in alertas[t] \/ Fara(t, {"chk_alertar", "fim_alertar"}, s)

Denunciado(t) ==
    turno[t].status = "critico" \/ painel[t] = "critico" =>
       "sabotagem" \in alertas[t] \/ Pedindo(t, {"sab_emitir", "sab_alertar"})

\* Iniciar raises the alert of its password before it stores the check-in.
Antecipado(p) ==
    proc[p].pc = "ini_checkin" => AlertasDaSenha(proc[p].senha) \subseteq alertas[proc[p].turno]

Registro ==
    falhas = 0 =>
       /\ \A t \in Turnos : Sinalizado(t) /\ Denunciado(t)
       /\ \A p \in Procs : Antecipado(p)
-----------------------------------------------------------------------------
(* What a step may do to a record is enough to keep it; then one case per  *)
(* action.                                                                 *)

\* An alert that does not fail is created.
LEMMA AlertasCriados ==
    ASSUME TypeOK, NEW t \in Turnos, NEW tipos, CriarAlertas(t, tipos), falhas' = 0
    PROVE  /\ falhas = 0
           /\ alertas'[t] = alertas[t] \cup tipos
           /\ \A x \in Turnos : x # t => alertas'[x] = alertas[x]
  <1>1. PICK criados \in SUBSET tipos :
          /\ alertas' = [alertas EXCEPT ![t] = @ \cup criados]
          /\ falhas' = IF criados = tipos THEN falhas ELSE falhas + 1
    BY Zenon DEF CriarAlertas
  <1>2. falhas \in Nat /\ alertas \in [Turnos -> SUBSET TipoAlerta]
    BY DEF TypeOK
  <1>3. criados = tipos
    BY <1>1, <1>2
  <1>4. QED
    BY <1>1, <1>2, <1>3

LEMMA Gravado ==
    ASSUME TypeOK, NEW t \in Turnos, NEW e, NEW s, Gravar(t, e, s)
    PROVE  /\ checkins'[t] = checkins[t] \cup {<<e, s>>}
           /\ \A x \in Turnos : x # t => checkins'[x] = checkins[x]
  BY DEF TypeOK, Gravar

LEMMA RegistroSegue ==
    ASSUME Registro, falhas = 0, NEW p \in Procs,
           \A q \in Procs \ {p} : proc'[q] = proc[q],
           \A t \in Turnos : checkins[t] \subseteq checkins'[t] /\ alertas[t] \subseteq alertas'[t],
           \* a password that is stored, or whose alert was to come
           \A t \in Turnos, e \in Evento, s \in Graves :
              <<e, s>> \in checkins'[t] =>
                 \/ <<e, s>> \in checkins[t]
                 \/ s \in alertas'[t]
                 \/ /\ proc'[p].turno = t /\ proc'[p].pc \in {"chk_alertar", "fim_alertar"}
                    /\ proc'[p].senha = s,
           proc[p].pc \in {"chk_alertar", "fim_alertar"} /\ proc[p].senha \in Graves =>
              proc[p].senha \in alertas'[proc[p].turno],
           \* a sabotage that is written, or whose alert was to come
           \A t \in Turnos :
              turno'[t].status = "critico" \/ painel'[t] = "critico" =>
                 \/ turno[t].status = "critico" \/ painel[t] = "critico"
                 \/ proc'[p].turno = t /\ proc'[p].pc \in {"sab_emitir", "sab_alertar"},
           proc[p].pc \in {"sab_emitir", "sab_alertar"} =>
              \/ "sabotagem" \in alertas'[proc[p].turno]
              \/ proc'[p].turno = proc[p].turno /\ proc'[p].pc \in {"sab_emitir", "sab_alertar"},
           proc'[p].pc = "ini_checkin" =>
              AlertasDaSenha(proc'[p].senha) \subseteq alertas'[proc'[p].turno],
           \A q \in Procs : proc[q].pc \in Marcando => proc[q].turno \in Turnos
    PROVE  Registro'
  <1>2. ASSUME NEW t \in Turnos PROVE Sinalizado(t)'
    <2> SUFFICES ASSUME NEW e \in Evento, NEW s \in Graves, <<e, s>> \in checkins'[t], s \notin alertas'[t]
                 PROVE  \E q \in Procs : /\ proc'[q].turno = t
                                         /\ proc'[q].pc \in {"chk_alertar", "fim_alertar"}
                                         /\ proc'[q].senha = s
      BY DEF Sinalizado, Fara
    <2>1. CASE <<e, s>> \in checkins[t]
      <3>1. Sinalizado(t) /\ s \notin alertas[t]
        BY DEF Registro
      <3>2. PICK q \in Procs : /\ proc[q].turno = t /\ proc[q].pc \in {"chk_alertar", "fim_alertar"}
                               /\ proc[q].senha = s
        BY <2>1, <3>1 DEF Sinalizado, Fara
      <3>3. q # p
        BY <3>2
      <3>4. QED
        BY <3>2, <3>3
    <2>2. CASE <<e, s>> \notin checkins[t]
      BY <2>2
    <2>3. QED
      BY <2>1, <2>2
  <1>3. ASSUME NEW t \in Turnos PROVE Denunciado(t)'
    <2> SUFFICES ASSUME turno'[t].status = "critico" \/ painel'[t] = "critico",
                        "sabotagem" \notin alertas'[t]
                 PROVE  \E q \in Procs : proc'[q].turno = t /\ proc'[q].pc \in {"sab_emitir", "sab_alertar"}
      BY DEF Denunciado, Pedindo
    <2>1. CASE proc'[p].turno = t /\ proc'[p].pc \in {"sab_emitir", "sab_alertar"}
      BY <2>1
    <2>2. CASE turno[t].status = "critico" \/ painel[t] = "critico"
      <3>1. Denunciado(t) /\ "sabotagem" \notin alertas[t]
        BY DEF Registro
      <3>2. PICK q \in Procs : proc[q].turno = t /\ proc[q].pc \in {"sab_emitir", "sab_alertar"}
        BY <2>2, <3>1 DEF Denunciado, Pedindo
      <3>3. CASE q = p
        BY <3>2, <3>3
      <3>4. CASE q # p
        BY <3>2, <3>4
      <3>5. QED
        BY <3>3, <3>4
    <2>3. QED
      BY <2>1, <2>2
  <1>4. ASSUME NEW q \in Procs PROVE Antecipado(q)'
    <2>1. CASE q = p
      BY <2>1 DEF Antecipado
    <2>2. CASE q # p
      <3> SUFFICES ASSUME proc[q].pc = "ini_checkin"
                   PROVE  AlertasDaSenha(proc[q].senha) \subseteq alertas'[proc[q].turno]
        BY <2>2 DEF Antecipado
      <3>1. Antecipado(q) /\ proc[q].turno \in Turnos
        BY DEF Registro, Marcando
      <3>2. QED
        BY <3>1 DEF Antecipado
    <2>3. QED
      BY <2>1, <2>2
  <1>5. QED
    BY <1>2, <1>3, <1>4 DEF Registro
-----------------------------------------------------------------------------
\* How the request that takes a step goes on.
LEMMA Seguiu ==
    ASSUME TypeOK, NEW p \in Procs, NEW passo, Segue(p, passo)
    PROVE  /\ proc'[p].pc = passo /\ proc'[p].turno = proc[p].turno /\ proc'[p].senha = proc[p].senha
           /\ \A q \in Procs \ {p} : proc'[q] = proc[q]
  BY DEF TypeOK, Segue, Pedido

LEMMA Respondeu ==
    ASSUME TypeOK, NEW p \in Procs, Responde(p)
    PROVE  /\ proc'[p].pc = "livre" /\ proc'[p].turno = NULL
           /\ \A q \in Procs \ {p} : proc'[q] = proc[q]
  BY DEF TypeOK, Responde, Livre

LEMMA DoPedido ==
    ASSUME TypeOK, Registro, falhas = 0, NEW p \in Procs
    PROVE  /\ proc[p] \in Pedido /\ Antecipado(p)
           /\ proc[p].pc \in ComTurno => proc[p].turno \in Turnos
           /\ \A q \in Procs : proc[q].pc \in Marcando => proc[q].turno \in Turnos
  BY DEF TypeOK, Registro, Marcando, ComTurno, Passo

\* Steps that write no record: they may only bring a shift to an end.
LEMMA Quieto ==
    ASSUME TypeOK, Registro, falhas = 0, NEW p \in Procs,
           \A q \in Procs \ {p} : proc'[q] = proc[q],
           proc[p].pc \notin Marcando, proc'[p].pc # "ini_checkin",
           checkins' = checkins, alertas' = alertas,
           \A t \in Turnos :
              /\ turno'[t].status = "critico" => turno[t].status = "critico"
              /\ painel'[t] = "critico" => painel[t] = "critico"
    PROVE  Registro'
  <1>1. \A q \in Procs : proc[q].pc \in Marcando => proc[q].turno \in Turnos
    BY DoPedido
  <1>2. /\ proc[p].pc \notin {"ini_emitir", "ini_checkin"}
        /\ proc[p].pc \notin {"chk_alertar", "fim_alertar"}
        /\ proc[p].pc \notin {"sab_emitir", "sab_alertar"}
    BY DEF Marcando
  <1>3. \A t \in Turnos : checkins[t] \subseteq checkins'[t] /\ alertas[t] \subseteq alertas'[t]
    OBVIOUS
  <1>4. QED
    BY <1>1, <1>2, <1>3, RegistroSegue

\* A request that has read its guards has written nothing yet.
LEMMA ComecaQuieto ==
    ASSUME TypeOK, Registro, falhas = 0, NEW p \in Procs, NEW passo, NEW t, NEW u, NEW d,
           NEW s, NEW fora, passo # "ini_checkin", Comeca(p, passo, t, u, d, s, fora)
    PROVE  Registro'
  <1>1. /\ proc[p].pc \notin Marcando /\ proc'[p].pc = passo
        /\ \A q \in Procs \ {p} : proc'[q] = proc[q]
        /\ UNCHANGED <<turno, checkins, alertas, painel>>
    BY DEF Comeca, TypeOK, Marcando
  <1>2. QED
    BY <1>1, Quieto

LEMMA RegistroIniciar ==
    ASSUME TypeOK, Registro, falhas = 0, falhas' = 0, NEW p \in Procs, Iniciar(p)
    PROVE  Registro'
  <1> DEFINE r == proc[p]
             t == r.turno
  <1>0. /\ r \in Pedido /\ Antecipado(p) /\ (r.pc \in ComTurno => t \in Turnos)
        /\ \A q \in Procs : proc[q].pc \in Marcando => proc[q].turno \in Turnos
    BY DoPedido
  <1>1. ASSUME NEW u \in Usuarios, NEW d \in Devices, NEW s \in Senhas, NEW fora \in Desvios,
               IniciarLer(p, u, d, s, fora)
        PROVE  Registro'
    BY <1>1, ComecaQuieto DEF IniciarLer
  <1>2. ASSUME NEW x \in Turnos, NEW duracao \in Duracoes, IniciarCriar(p, x, duracao)
        PROVE  Registro'
    <2>1. /\ proc'[p].pc = "ini_emitir" /\ proc'[p].turno = x /\ r.pc = "ini_criar"
          /\ \A q \in Procs \ {p} : proc'[q] = proc[q]
      BY <1>2 DEF IniciarCriar, TypeOK, Pedido, Esta
    <2>2. turno'[x].status = "em_andamento" /\ \A y \in Turnos : y # x => turno'[y] = turno[y]
      BY <1>2 DEF IniciarCriar, TypeOK
    <2>3. UNCHANGED <<checkins, alertas, painel>>
      BY <1>2 DEF IniciarCriar
    <2>4. QED
      BY <1>0, <2>1, <2>2, <2>3, RegistroSegue
  <1>3. CASE IniciarEmitir(p)
    <2>1. r.pc = "ini_emitir" /\ t \in Turnos
      BY <1>0, <1>3 DEF IniciarEmitir, Esta, ComTurno, Passo
    <2>2. /\ proc'[p].pc = "ini_checkin" /\ proc'[p].turno = t /\ proc'[p].senha = r.senha
          /\ \A q \in Procs \ {p} : proc'[q] = proc[q]
      BY <1>3, Seguiu DEF IniciarEmitir
    <2>3. /\ alertas'[t] = alertas[t] \cup AlertasDaSenha(r.senha)
          /\ \A x \in Turnos : x # t => alertas'[x] = alertas[x]
      BY <1>3, <2>1, AlertasCriados DEF IniciarEmitir
    <2>4. \A x \in Turnos : painel'[x] = "critico" => painel[x] = "critico"
      BY <1>3, <2>1 DEF IniciarEmitir, Broadcast, TypeOK
    <2>5. UNCHANGED <<turno, checkins>>
      BY <1>3 DEF IniciarEmitir
    <2>6. QED
      BY <1>0, <2>1, <2>2, <2>3, <2>4, <2>5, RegistroSegue
  <1>4. CASE IniciarCheckin(p)
    <2>1. r.pc = "ini_checkin" /\ t \in Turnos
      BY <1>0, <1>4 DEF IniciarCheckin, Esta, ComTurno, Passo
    <2>2. /\ proc'[p].pc = "ini_desvio" /\ proc'[p].turno = t
          /\ \A q \in Procs \ {p} : proc'[q] = proc[q]
      BY <1>4, Seguiu DEF IniciarCheckin
    <2>3. /\ checkins'[t] = checkins[t] \cup {<<"inicio", r.senha>>}
          /\ \A x \in Turnos : x # t => checkins'[x] = checkins[x]
      BY <1>4, <2>1, Gravado DEF IniciarCheckin
    <2>4. r.senha \in Graves => r.senha \in alertas[t]
      BY <1>0, <2>1 DEF Antecipado, AlertasDaSenha, Graves
    <2>5. UNCHANGED <<turno, alertas, painel>>
      BY <1>4 DEF IniciarCheckin
    <2>6. ASSUME NEW x \in Turnos, NEW e \in Evento, NEW s \in Graves, <<e, s>> \in checkins'[x]
          PROVE  <<e, s>> \in checkins[x] \/ s \in alertas'[x]
      BY <2>3, <2>4, <2>5, <2>6
    <2>7. QED
      BY <1>0, <2>1, <2>2, <2>3, <2>5, <2>6, RegistroSegue
  <1>5. CASE IniciarDesvio(p)
    <2>1. r.pc = "ini_desvio" /\ t \in Turnos
      BY <1>0, <1>5 DEF IniciarDesvio, Esta, ComTurno, Passo
    <2>2. proc'[p].pc = "livre" /\ \A q \in Procs \ {p} : proc'[q] = proc[q]
      BY <1>5, Respondeu DEF IniciarDesvio
    <2>3. /\ alertas'[t] = alertas[t] \cup AlertasDoDesvio(r.desvio)
          /\ \A x \in Turnos : x # t => alertas'[x] = alertas[x]
      BY <1>5, <2>1, AlertasCriados DEF IniciarDesvio
    <2>4. UNCHANGED <<turno, checkins, painel>>
      BY <1>5 DEF IniciarDesvio
    <2>5. QED
      BY <1>0, <2>1, <2>2, <2>3, <2>4, RegistroSegue
  <1>6. QED
    BY <1>1, <1>2, <1>3, <1>4, <1>5 DEF Iniciar

\* Checkin and Finalizar store the password first, and then raise its alert.
LEMMA RegistroGrava ==
    ASSUME TypeOK, Registro, falhas = 0, NEW p \in Procs, proc[p].turno \in Turnos,
           proc[p].pc \in {"chk_gravar", "fim_gravar"},
           NEW evento \in Evento, Gravar(proc[p].turno, evento, proc[p].senha),
           NEW passo \in {"chk_alertar", "fim_alertar"}, Segue(p, passo),
           UNCHANGED <<turno, alertas, painel>>
    PROVE  Registro'
  <1> DEFINE r == proc[p]
             t == r.turno
  <1>1. \A q \in Procs : proc[q].pc \in Marcando => proc[q].turno \in Turnos
    BY DoPedido
  <1>2. /\ proc'[p].pc = passo /\ proc'[p].turno = t /\ proc'[p].senha = r.senha
        /\ \A q \in Procs \ {p} : proc'[q] = proc[q]
    BY Seguiu
  <1>3. /\ checkins'[t] = checkins[t] \cup {<<evento, r.senha>>}
        /\ \A x \in Turnos : x # t => checkins'[x] = checkins[x]
    BY Gravado
  <1>4. ASSUME NEW x \in Turnos, NEW e \in Evento, NEW s \in Graves, <<e, s>> \in checkins'[x]
        PROVE  \/ <<e, s>> \in checkins[x]
               \/ proc'[p].turno = x /\ proc'[p].senha = s
    BY <1>2, <1>3, <1>4
  <1>5. QED
    BY <1>1, <1>2, <1>3, <1>4, RegistroSegue

LEMMA RegistroAlerta ==
    ASSUME TypeOK, Registro, falhas = 0, falhas' = 0, NEW p \in Procs, proc[p].turno \in Turnos,
           proc[p].pc \in {"chk_alertar", "fim_alertar"},
           CriarAlertas(proc[p].turno,
              AlertasDaSenha(proc[p].senha) \cup AlertasDoDesvio(proc[p].desvio)),
           Segue(p, "fim_status") \/ Responde(p),
           UNCHANGED <<turno, checkins, painel>>
    PROVE  Registro'
  <1> DEFINE r == proc[p]
             t == r.turno
  <1>1. \A q \in Procs : proc[q].pc \in Marcando => proc[q].turno \in Turnos
    BY DoPedido
  <1>2. /\ proc'[p].pc \in {"fim_status", "livre"}
        /\ \A q \in Procs \ {p} : proc'[q] = proc[q]
    BY Seguiu, Respondeu
  <1>3. /\ alertas'[t] = alertas[t] \cup AlertasDaSenha(r.senha) \cup AlertasDoDesvio(r.desvio)
        /\ \A x \in Turnos : x # t => alertas'[x] = alertas[x]
    BY AlertasCriados
  <1>4. r.senha \in Graves => r.senha \in alertas'[t]
    BY <1>3 DEF AlertasDaSenha, Graves
  <1>5. QED
    BY <1>1, <1>2, <1>3, <1>4, RegistroSegue

LEMMA RegistroCheckin ==
    ASSUME TypeOK, Registro, falhas = 0, falhas' = 0, NEW p \in Procs, Checkin(p)
    PROVE  Registro'
  <1>0. proc[p].pc \in ComTurno => proc[p].turno \in Turnos
    BY DoPedido
  <1>1. ASSUME NEW t \in Turnos, NEW u \in Usuarios, NEW d \in Devices, NEW s \in Senhas,
               NEW fora \in Desvios, CheckinLer(p, t, u, d, s, fora)
        PROVE  Registro'
    BY <1>1, ComecaQuieto DEF CheckinLer
  <1>2. CASE CheckinGravar(p)
    <2>1. proc[p].pc = "chk_gravar" /\ proc[p].turno \in Turnos /\ "checkin" \in Evento
      BY <1>0, <1>2 DEF CheckinGravar, Esta, ComTurno, Passo, Evento
    <2>2. QED
      BY <1>2, <2>1, RegistroGrava DEF CheckinGravar
  <1>3. CASE CheckinAlertar(p)
    <2>1. proc[p].pc = "chk_alertar" /\ proc[p].turno \in Turnos
      BY <1>0, <1>3 DEF CheckinAlertar, Esta, ComTurno, Passo
    <2>2. QED
      BY <1>3, <2>1, RegistroAlerta DEF CheckinAlertar
  <1>4. QED
    BY <1>1, <1>2, <1>3 DEF Checkin

\* What the statements that write a row leave in it.
LEMMA LinhaEscrita ==
    ASSUME TypeOK, Pendente, NEW p \in Procs, Escreve(p), NEW t, t = proc[p].turno
    PROVE  /\ t \in Turnos /\ turno[t].status \in Iniciado
           /\ \A x \in Turnos : x # t => turno'[x] = turno[x]
           /\ turno'[t].fimPrevisto = turno[t].fimPrevisto
           /\ FinalizarStatus(p) \/ GetVigiaTurnoFinalizar(p) =>
                 turno'[t].status = "finalizado" /\ turno'[t].token = turno[t].token
           /\ SabotagemStatus(p) =>
                 \/ turno'[t] = turno[t] /\ falhas' = falhas + 1
                 \/ turno'[t].status = "critico" /\ turno'[t].token = turno[t].token
           /\ (\E pin \in Pins : RevogarGravar(p, pin)) =>
                 turno'[t].status = turno[t].status /\ ~turno'[t].token
           /\ ReassociarGravar(p) =>
                 turno'[t].status = turno[t].status /\ turno'[t].token
           /\ turno'[t].device # turno[t].device =>
                 (\E pin \in Pins : RevogarGravar(p, pin)) \/ ReassociarGravar(p)
  <1>1. /\ t \in Turnos /\ turno[t].status \in Iniciado /\ turno[t] \in Linha
        /\ \A x \in Turnos : x # t => turno'[x] = turno[x]
    BY EscreveSeu DEF TypeOK
  <1>2. ASSUME FinalizarStatus(p) \/ GetVigiaTurnoFinalizar(p)
        PROVE  /\ turno'[t].status = "finalizado" /\ turno'[t].token = turno[t].token
               /\ turno'[t].device = turno[t].device /\ turno'[t].fimPrevisto = turno[t].fimPrevisto
    <2>1. turno' = [turno EXCEPT ![t] = [turno[t] EXCEPT !.status = "finalizado", !.fimReal = agora]]
      BY <1>2 DEF FinalizarStatus, GetVigiaTurnoFinalizar, UpdateStatus
    <2>2. turno'[t] = [turno[t] EXCEPT !.status = "finalizado", !.fimReal = agora]
      BY <1>1, <2>1 DEF TypeOK
    <2> QED BY <1>1, <2>2 DEF Linha
  <1>3. ASSUME SabotagemStatus(p)
        PROVE  \/ turno'[t] = turno[t] /\ falhas' = falhas + 1
               \/ /\ turno'[t].status = "critico" /\ turno'[t].token = turno[t].token
                  /\ turno'[t].device = turno[t].device
                  /\ turno'[t].fimPrevisto = turno[t].fimPrevisto
    <2>1. \/ turno' = turno /\ falhas' = falhas + 1
          \/ turno' = [turno EXCEPT ![t] = [turno[t] EXCEPT !.status = "critico", !.fimReal = NULL]]
      BY <1>3 DEF SabotagemStatus, UpdateStatus
    <2>2. \/ turno'[t] = turno[t] /\ falhas' = falhas + 1
          \/ turno'[t] = [turno[t] EXCEPT !.status = "critico", !.fimReal = NULL]
      BY <1>1, <2>1 DEF TypeOK
    <2> QED BY <1>1, <2>2 DEF Linha
  <1>4. ASSUME NEW pin \in Pins, RevogarGravar(p, pin)
        PROVE  /\ turno'[t].status = turno[t].status /\ ~turno'[t].token
               /\ turno'[t].fimPrevisto = turno[t].fimPrevisto
    <2>1. turno' = [turno EXCEPT ![t] = [turno[t] EXCEPT !.token = FALSE, !.device = NULL,
                       !.pin = pin, !.pinValidoAte = agora + ValidadePin]]
      BY <1>4 DEF RevogarGravar
    <2>2. turno'[t] = [turno[t] EXCEPT !.token = FALSE, !.device = NULL,
                       !.pin = pin, !.pinValidoAte = agora + ValidadePin]
      BY <1>1, <2>1 DEF TypeOK
    <2> QED BY SMTT(60), <1>1, <2>2 DEF Linha
  <1>5. ASSUME ReassociarGravar(p)
        PROVE  /\ turno'[t].status = turno[t].status /\ turno'[t].token
               /\ turno'[t].fimPrevisto = turno[t].fimPrevisto
    <2> DEFINE d == proc[p].device
    <2>1. turno' = [turno EXCEPT ![t] = [turno[t] EXCEPT !.token = TRUE, !.device = d,
                       !.pin = NULL, !.pinValidoAte = NULL]]
      BY <1>5 DEF ReassociarGravar
    <2> HIDE DEF d
    <2>2. turno'[t] = [turno[t] EXCEPT !.token = TRUE, !.device = d,
                       !.pin = NULL, !.pinValidoAte = NULL]
      BY <1>1, <2>1 DEF TypeOK
    <2> QED BY SMTT(60), <1>1, <2>2 DEF Linha
  <1>6. \/ FinalizarStatus(p) \/ GetVigiaTurnoFinalizar(p)
        \/ SabotagemStatus(p)
        \/ \E pin \in Pins : RevogarGravar(p, pin)
        \/ ReassociarGravar(p)
    BY Zenon DEF Escreve
  <1>7. turno'[t].fimPrevisto = turno[t].fimPrevisto
    BY <1>2, <1>3, <1>4, <1>5, <1>6
  <1>8. turno'[t].device # turno[t].device =>
           (\E pin \in Pins : RevogarGravar(p, pin)) \/ ReassociarGravar(p)
    BY <1>2, <1>3, <1>6
  <1>9. (\E pin \in Pins : RevogarGravar(p, pin)) =>
           turno'[t].status = turno[t].status /\ ~turno'[t].token
    BY <1>4
  <1> QED BY <1>1, <1>2, <1>3, <1>5, <1>7, <1>8, <1>9

\* The requests that close a shift, or touch its session, write no record.
LEMMA RegistroLinha ==
    ASSUME TypeOK, Pendente, Registro, falhas = 0, NEW p \in Procs,
           \/ FinalizarStatus(p) \/ GetVigiaTurnoFinalizar(p)
           \/ (\E pin \in Pins : RevogarGravar(p, pin)) \/ ReassociarGravar(p)
    PROVE  Registro'
  <1> DEFINE t == proc[p].turno
  <1>0. Escreve(p)
    BY DEF Escreve
  <1>1. /\ proc[p].pc \in {"fim_status", "vig_finalizar", "rev_gravar", "rea_gravar"}
        /\ Segue(p, "fim_emitir") \/ Responde(p)
        /\ UNCHANGED <<checkins, alertas, painel>>
    BY DEF FinalizarStatus, GetVigiaTurnoFinalizar, RevogarGravar, ReassociarGravar, Esta
  <1>2. t \in Turnos /\ turno[t].status \in Iniciado /\ turno[t] \in Linha
    BY <1>1 DEF TypeOK, Pendente, ComTurno, Passo
  <1>3. /\ proc'[p].pc \in {"fim_emitir", "livre"} /\ \A q \in Procs \ {p} : proc'[q] = proc[q]
        /\ proc[p].pc \notin Marcando
    BY <1>1, Seguiu, Respondeu DEF Marcando
  <1>4. /\ \A x \in Turnos : x # t => turno'[x] = turno[x]
        /\ turno'[t].status \in {"finalizado", turno[t].status}
    BY <1>0, LinhaEscrita
  <1>5. QED
    BY <1>1, <1>2, <1>3, <1>4, Quieto

LEMMA RegistroFinalizar ==
    ASSUME TypeOK, Pendente, Registro, falhas = 0, falhas' = 0, NEW p \in Procs, Finalizar(p)
    PROVE  Registro'
  <1>0. proc[p].pc \in ComTurno => proc[p].turno \in Turnos
    BY DoPedido
  <1>1. ASSUME NEW t \in Turnos, NEW u \in Usuarios, NEW d \in Devices, NEW s \in Senhas,
               NEW fora \in Desvios, NEW ts, FinalizarLer(p, t, u, d, s, fora, ts)
        PROVE  Registro'
    BY <1>1, ComecaQuieto DEF FinalizarLer
  <1>2. CASE FinalizarGravar(p)
    <2>1. proc[p].pc = "fim_gravar" /\ proc[p].turno \in Turnos /\ "finalizacao" \in Evento
      BY <1>0, <1>2 DEF FinalizarGravar, Esta, ComTurno, Passo, Evento
    <2>2. QED
      BY <1>2, <2>1, RegistroGrava DEF FinalizarGravar
  <1>3. CASE FinalizarAlertar(p)
    <2>1. proc[p].pc = "fim_alertar" /\ proc[p].turno \in Turnos
      BY <1>0, <1>3 DEF FinalizarAlertar, Esta, ComTurno, Passo
    <2>2. QED
      BY <1>3, <2>1, RegistroAlerta DEF FinalizarAlertar
  <1>4. CASE FinalizarEmitir(p)
    <2>1. proc[p].pc = "fim_emitir" /\ proc[p].turno \in Turnos
      BY <1>0, <1>4 DEF FinalizarEmitir, Esta, ComTurno, Passo
    <2>2. /\ proc'[p].pc = "livre" /\ \A q \in Procs \ {p} : proc'[q] = proc[q]
          /\ proc[p].pc \notin Marcando
      BY <1>4, <2>1, Respondeu DEF FinalizarEmitir, Marcando
    <2>3. \A x \in Turnos : painel'[x] = "critico" => painel[x] = "critico"
      BY <1>4, <2>1 DEF FinalizarEmitir, Broadcast, TypeOK
    <2>4. UNCHANGED <<turno, checkins, alertas>>
      BY <1>4 DEF FinalizarEmitir
    <2>5. QED
      BY <2>2, <2>3, <2>4, Quieto
  <1>5. CASE FinalizarStatus(p)
    BY <1>5, RegistroLinha
  <1>6. QED
    BY <1>1, <1>2, <1>3, <1>4, <1>5 DEF Finalizar

LEMMA RegistroSabotagem ==
    ASSUME TypeOK, Pendente, Registro, falhas = 0, falhas' = 0, NEW p \in Procs, Sabotagem(p)
    PROVE  Registro'
  <1> DEFINE t == proc[p].turno
  <1>0. /\ proc[p].pc \in ComTurno => t \in Turnos
        /\ \A q \in Procs : proc[q].pc \in Marcando => proc[q].turno \in Turnos
    BY DoPedido
  <1>1. ASSUME NEW x \in Turnos, NEW u \in Usuarios, NEW d \in Devices, SabotagemLer(p, x, u, d)
        PROVE  Registro'
    BY <1>1, ComecaQuieto DEF SabotagemLer
  <1>2. CASE SabotagemStatus(p)
    <2>1. proc[p].pc = "sab_status" /\ t \in Turnos /\ turno[t].status \in Iniciado
      BY <1>0, <1>2 DEF SabotagemStatus, Esta, ComTurno, Passo, Pendente
    <2>2. /\ proc'[p].pc = "sab_emitir" /\ proc'[p].turno = t
          /\ \A q \in Procs \ {p} : proc'[q] = proc[q]
      BY <1>2, Seguiu DEF SabotagemStatus
    <2>3. \A x \in Turnos : x # t => turno'[x] = turno[x]
      BY <1>2, <2>1 DEF SabotagemStatus, UpdateStatus, TypeOK
    <2>4. UNCHANGED <<checkins, alertas, painel>>
      BY <1>2 DEF SabotagemStatus
    <2>5. QED
      BY <1>0, <1>2, <2>1, <2>2, <2>3, <2>4, RegistroSegue
  <1>3. CASE SabotagemEmitir(p)
    <2>1. proc[p].pc = "sab_emitir" /\ t \in Turnos
      BY <1>0, <1>3 DEF SabotagemEmitir, Esta, ComTurno, Passo
    <2>2. /\ proc'[p].pc = "sab_alertar" /\ proc'[p].turno = t
          /\ \A q \in Procs \ {p} : proc'[q] = proc[q]
      BY <1>3, Seguiu DEF SabotagemEmitir
    <2>3. \A x \in Turnos : x # t => painel'[x] = painel[x]
      BY <1>3, <2>1 DEF SabotagemEmitir, Broadcast, TypeOK
    <2>4. /\ \A x \in Turnos : checkins[x] \subseteq checkins'[x]
          /\ \A x \in Turnos, e \in Evento, s \in Graves :
                <<e, s>> \in checkins'[x] => <<e, s>> \in checkins[x]
      <3>1. CASE Gravar(t, "sabotagem", "ok")
        <4>1. /\ checkins'[t] = checkins[t] \cup {<<"sabotagem", "ok">>}
              /\ \A x \in Turnos : x # t => checkins'[x] = checkins[x]
          BY <2>1, <3>1, Gravado
        <4>2. QED
          BY <4>1 DEF Graves
      <3>2. CASE UNCHANGED checkins
        BY <3>2
      <3>3. QED
        BY <1>3, <3>1, <3>2 DEF SabotagemEmitir
    <2>5. UNCHANGED <<turno, alertas>>
      BY <1>3 DEF SabotagemEmitir
    <2>6. QED
      BY <1>0, <2>1, <2>2, <2>3, <2>4, <2>5, RegistroSegue
  <1>4. CASE SabotagemAlertar(p)
    <2>1. proc[p].pc = "sab_alertar" /\ t \in Turnos
      BY <1>0, <1>4 DEF SabotagemAlertar, Esta, ComTurno, Passo
    <2>2. proc'[p].pc = "livre" /\ \A q \in Procs \ {p} : proc'[q] = proc[q]
      BY <1>4, Respondeu DEF SabotagemAlertar
    <2>3. /\ alertas'[t] = alertas[t] \cup {"sabotagem"}
          /\ \A x \in Turnos : x # t => alertas'[x] = alertas[x]
      BY <1>4, <2>1, AlertasCriados DEF SabotagemAlertar
    <2>4. UNCHANGED <<turno, checkins, painel>>
      BY <1>4 DEF SabotagemAlertar
    <2>5. QED
      BY <1>0, <2>1, <2>2, <2>3, <2>4, RegistroSegue
  <1>5. QED
    BY <1>1, <1>2, <1>3, <1>4 DEF Sabotagem

LEMMA RegistroSessao ==
    ASSUME TypeOK, Pendente, Registro, falhas = 0, falhas' = 0, NEW p \in Procs,
           GetVigiaTurno(p) \/ Revogar(p) \/ Reassociar(p) \/ Abortar(p)
    PROVE  Registro'
  <1>1. ASSUME NEW passo, NEW t, NEW u, NEW d, passo # "ini_checkin",
               Comeca(p, passo, t, u, d, "ok", FALSE)
        PROVE  Registro'
    BY <1>1, ComecaQuieto
  <1>2. CASE GetVigiaTurno(p)
    BY <1>1, <1>2, RegistroLinha DEF GetVigiaTurno, GetVigiaTurnoLer
  <1>3. CASE Revogar(p)
    BY <1>1, <1>3, RegistroLinha DEF Revogar, RevogarLer
  <1>4. CASE Reassociar(p)
    BY <1>1, <1>4, RegistroLinha DEF Reassociar, ReassociarLer
  <1>5. ~Abortar(p)
    BY DEF Abortar
  <1>6. QED
    BY <1>2, <1>3, <1>4, <1>5

LEMMA RegistroAmbiente ==
    ASSUME TypeOK, Registro, Ambiente \/ UNCHANGED vars
    PROVE  Registro'
  <1>1. UNCHANGED <<checkins, alertas, painel, proc, falhas>>
    BY DEF Ambiente, RegisterBiometric, Logout, CriarTurnoDoWorker, Tique, vars
  <1>2. ASSUME NEW t \in Turnos
        PROVE  /\ turno'[t].status \in Iniciado => turno[t].status \in Iniciado
               /\ turno'[t].status = "critico" => turno[t].status = "critico"
    <2>1. CASE turno' = turno
      BY <2>1
    <2>2. ASSUME NEW x \in Turnos, NEW u \in Usuarios, NEW status \in DoWorker, NEW fim \in Duracoes,
                 CriarTurnoDoWorker(x, u, status, fim)
          PROVE  turno'[t] = turno[t] \/ turno'[t].status \in DoWorker
      BY <2>2 DEF CriarTurnoDoWorker, TypeOK, Vaga
    <2>3. QED
      BY <2>1, <2>2 DEF Ambiente, RegisterBiometric, Logout, Tique, vars, DoWorker, Iniciado, Ativo
  <1>3. QED
    BY <1>1, <1>2 DEF Registro, Sinalizado, Denunciado, Antecipado, Pedindo, Fara

LEMMA RegistroInit == Init => Registro
  BY DEF Init, Registro, Sinalizado, Denunciado, Antecipado, Vaga, Livre, Iniciado, Ativo

LEMMA FalhasCrescem == TypeOK /\ [Next]_vars /\ falhas' = 0 => falhas = 0
  <1> SUFFICES ASSUME TypeOK, [Next]_vars, falhas' = 0 PROVE falhas = 0
    OBVIOUS
  <1>1. falhas \in Nat
    BY DEF TypeOK
  <1>2. ASSUME NEW t, NEW tipos, CriarAlertas(t, tipos) PROVE falhas = 0
    BY <1>1, <1>2 DEF CriarAlertas
  <1>3. CASE Ambiente \/ UNCHANGED vars
    BY <1>3 DEF Ambiente, RegisterBiometric, Logout, CriarTurnoDoWorker, Tique, vars
  <1>4. ASSUME NEW p \in Procs, Iniciar(p) PROVE falhas = 0
    BY <1>2, <1>4 DEF Iniciar, IniciarLer, Comeca, IniciarCriar, IniciarEmitir, IniciarCheckin,
                      IniciarDesvio
  <1>5. ASSUME NEW p \in Procs, Checkin(p) PROVE falhas = 0
    BY <1>2, <1>5 DEF Checkin, CheckinLer, Comeca, CheckinGravar, CheckinAlertar
  <1>6. ASSUME NEW p \in Procs, Finalizar(p) PROVE falhas = 0
    BY <1>2, <1>6 DEF Finalizar, FinalizarLer, Comeca, FinalizarGravar, FinalizarAlertar,
                      FinalizarStatus, FinalizarEmitir
  <1>7. ASSUME NEW p \in Procs, Sabotagem(p) PROVE falhas = 0
    BY <1>1, <1>2, <1>7 DEF Sabotagem, SabotagemLer, Comeca, SabotagemStatus, SabotagemEmitir,
                            SabotagemAlertar
  <1>8. ASSUME NEW p \in Procs, GetVigiaTurno(p) \/ Revogar(p) \/ Reassociar(p) \/ Abortar(p)
        PROVE  falhas = 0
    <2>1. CASE GetVigiaTurno(p)
      BY SMTT(60), <2>1 DEF GetVigiaTurno, GetVigiaTurnoLer, GetVigiaTurnoFinalizar, Comeca
    <2>2. CASE Revogar(p)
      BY ZenonT(60), <2>2 DEF Revogar, RevogarLer, RevogarGravar, Comeca
    <2>3. CASE Reassociar(p)
      BY <2>3 DEF Reassociar, ReassociarLer, ReassociarGravar, Comeca
    <2>4. ~Abortar(p)
      BY <1>1 DEF Abortar
    <2> QED BY <1>8, <2>1, <2>2, <2>3, <2>4
  <1>9. QED
    BY <1>3, <1>4, <1>5, <1>6, <1>7, <1>8 DEF Next

LEMMA RegistroNext ==
    ASSUME TypeOK, Pendente, Registro, [Next]_vars
    PROVE  Registro'
  <1>1. CASE falhas' # 0
    BY <1>1 DEF Registro
  <1>2. CASE falhas' = 0
    <2>1. falhas = 0
      BY <1>2, FalhasCrescem
    <2>2. CASE Ambiente \/ UNCHANGED vars
      BY <2>2, RegistroAmbiente
    <2>3. ASSUME NEW p \in Procs,
                 \/ Iniciar(p) \/ Checkin(p) \/ Finalizar(p) \/ Sabotagem(p)
                 \/ GetVigiaTurno(p) \/ Revogar(p) \/ Reassociar(p) \/ Abortar(p)
          PROVE  Registro'
      BY <1>2, <2>1, <2>3, RegistroIniciar, RegistroCheckin, RegistroFinalizar, RegistroSabotagem,
         RegistroSessao
    <2>4. QED
      BY <2>2, <2>3 DEF Next
  <1>3. QED
    BY <1>1, <1>2

LEMMA RegistroSempre == Spec => []Registro
  BY RegistroInit, RegistroNext, TypeCorrect, PendenteCorrect, PTL DEF Spec

\* No interleaving loses a guard's signal: while nothing fails, a duress password that
\* is stored, and a shift that is critical or shown so, have their alert or the request
\* that is about to raise it.
THEOREM SinalCorrect == Spec => []SinalTemAlerta
  <1>1. Registro => SinalTemAlerta
    <2> SUFFICES ASSUME Registro, falhas = 0, NEW t \in Turnos
                 PROVE  /\ \A e \in Evento, s \in Graves :
                             <<e, s>> \in checkins[t] =>
                                s \in alertas[t] \/ Pedindo(t, {"chk_alertar", "fim_alertar"})
                        /\ turno[t].status = "critico" \/ painel[t] = "critico" =>
                             "sabotagem" \in alertas[t] \/ Pedindo(t, {"sab_emitir", "sab_alertar"})
      BY DEF SinalTemAlerta, Graves
    <2>1. Sinalizado(t) /\ Denunciado(t)
      BY DEF Registro
    <2>2. \A s : Fara(t, {"chk_alertar", "fim_alertar"}, s) => Pedindo(t, {"chk_alertar", "fim_alertar"})
      BY DEF Fara, Pedindo
    <2>3. QED
      BY <2>1, <2>2 DEF Sinalizado, Denunciado
  <1>2. QED
    BY <1>1, RegistroSempre, PTL
-----------------------------------------------------------------------------
(***************************************************************************)
(* One step, seen from the shift it is about: what every interleaving is   *)
(* made of.                                                                *)
(***************************************************************************)

Outros(p) == \A q \in Procs \ {p} : proc'[q] = proc[q]

\* A request starts: what its guards read, and nothing written.
Comecou(p) ==
    LET t == proc'[p].turno IN
    /\ proc[p].pc = "livre" /\ Outros(p)
    /\ UNCHANGED <<turno, checkins, alertas, painel, agora, falhas>>
    /\ \/ proc'[p].pc = "ini_criar" /\ t = NULL
       \/ /\ t \in Turnos /\ turno[t].status \in Ativo
          /\ \/ proc'[p].pc \in {"chk_gravar", "fim_gravar", "sab_status"} /\ turno[t].token
             \/ proc'[p].pc = "vig_finalizar" /\ agora > turno[t].fimPrevisto
             \/ proc'[p].pc = "rev_gravar"
             \/ proc'[p].pc = "rea_gravar" /\ ~turno[t].token

\* Iniciar fills a free row.
Criou(p) ==
    LET t == proc'[p].turno IN
    /\ proc[p].pc = "ini_criar" /\ proc'[p].pc = "ini_emitir" /\ Outros(p)
    /\ t \in Turnos /\ turno[t].status = "vago" /\ turno'[t].status = "em_andamento"
    /\ \A x \in Turnos \ {t} : turno'[x] = turno[x]
    /\ UNCHANGED <<checkins, alertas, painel, agora, falhas>>

\* The steps that write a row.
Escritas == {"fim_status", "sab_status", "vig_finalizar", "rev_gravar", "rea_gravar"}

\* What a request writes on its shift, by the step it was at.
Escreveu(t, pc) ==
    /\ pc \notin Escritas => turno'[t] = turno[t]
    /\ pc \in Escritas =>
          checkins'[t] = checkins[t] /\ alertas'[t] = alertas[t] /\ painel'[t] = painel[t]
    /\ pc \in {"fim_status", "vig_finalizar"} => turno'[t].status = "finalizado"
    /\ pc = "sab_status" /\ falhas' = falhas => turno'[t].status = "critico"
    /\ pc \in {"rev_gravar", "rea_gravar"} => turno'[t].status = turno[t].status
    /\ pc = "rev_gravar" => ~turno'[t].token
    /\ turno'[t].device # turno[t].device => pc \in {"rev_gravar", "rea_gravar"}
    /\ pc \notin {"ini_emitir", "sab_emitir", "fim_emitir"} => painel'[t] = painel[t]
    /\ pc = "ini_emitir" => painel'[t] = "em_andamento"
    /\ pc = "sab_emitir" => painel'[t] = "critico"
    /\ pc = "fim_emitir" => painel'[t] = "finalizado"
    /\ pc = "ini_checkin" => checkins'[t] # {}

Proximo ==
    {<<"ini_emitir", "ini_checkin">>, <<"ini_checkin", "ini_desvio">>,
     <<"chk_gravar", "chk_alertar">>,
     <<"fim_gravar", "fim_alertar">>, <<"fim_alertar", "fim_status">>,
     <<"fim_status", "fim_emitir">>,
     <<"sab_status", "sab_emitir">>, <<"sab_emitir", "sab_alertar">>}

\* The steps after which a request is answered.
Finais ==
    {"ini_desvio", "chk_alertar", "fim_emitir", "sab_alertar", "vig_finalizar", "rev_gravar",
     "rea_gravar"}

\* A request at work writes on no shift but its own, which stays started.
Frame(p) ==
    LET t == proc[p].turno IN
    /\ proc[p].pc \in ComTurno /\ Outros(p)
    /\ t \in Turnos /\ turno[t].status \in Iniciado /\ turno'[t].status \in Iniciado
    /\ turno'[t].fimPrevisto = turno[t].fimPrevisto
    /\ checkins[t] \subseteq checkins'[t]
    /\ \A x \in Turnos \ {t} : UNCHANGED <<turno[x], checkins[x], alertas[x], painel[x]>>
    /\ agora' = agora /\ falhas' \in Nat /\ falhas' >= falhas

Avancou(p) ==
    /\ Frame(p) /\ Escreveu(proc[p].turno, proc[p].pc)
    /\ \/ <<proc[p].pc, proc'[p].pc>> \in Proximo /\ proc'[p].turno = proc[p].turno
       \/ proc[p].pc \in Finais /\ proc'[p].pc = "livre" /\ proc'[p].turno = NULL

\* A request is cut short.
Parou(p) ==
    /\ proc[p].pc # "livre" /\ proc'[p].pc = "livre" /\ proc'[p].turno = NULL /\ Outros(p)
    /\ UNCHANGED <<turno, checkins, alertas, painel, agora>> /\ falhas' = falhas + 1

\* No request takes a step: a worker may fill a free row, and time may pass.
Alheio ==
    /\ UNCHANGED <<checkins, alertas, painel, proc, falhas>>
    /\ agora' \in Nat /\ agora' >= agora
    /\ \A t \in Turnos :
          \/ turno'[t] = turno[t]
          \/ turno[t].status = "vago" /\ turno'[t].status \in DoWorker /\ ~turno'[t].token

Andou(p) == Comecou(p) \/ Criou(p) \/ Avancou(p) \/ Parou(p)

\* The guards of Checkin, Finalizar and Sabotagem, and those of Reassociar.
LEMMA Guardas ==
    ASSUME TypeOK, SessaoCoerente, NEW t \in Turnos, NEW u \in Usuarios
    PROVE  /\ \A d : PodeAgir(t, u, d) => turno[t].status \in Ativo /\ turno[t].token
           /\ t \in Ativos(u) => turno[t].status \in Ativo
           /\ \A pin \in Pins : turno[t].pin = pin /\ t \in Ativos(u) => ~turno[t].token
  <1>1. turno[t] \in Linha /\ turno[t].status \in Status
    BY DEF TypeOK, Linha
  <1>2. \A d : PodeAgir(t, u, d) => turno[t].status \in Ativo /\ turno[t].token
    BY <1>1 DEF PodeAgir, validarSessaoTurno, Status
  <1>3. t \in Ativos(u) => turno[t].status \in Ativo
    BY DEF Ativos
  <1>4. \A pin \in Pins : turno[t].pin = pin /\ t \in Ativos(u) => ~turno[t].token
    BY <1>3, ConstantesOK DEF SessaoCoerente, Iniciado
  <1> QED BY <1>2, <1>3, <1>4

LEMMA Comecando ==
    ASSUME TypeOK, NEW p \in Procs, NEW passo, NEW t, NEW u, NEW d, NEW s, NEW fora,
           Comeca(p, passo, t, u, d, s, fora)
    PROVE  /\ proc[p].pc = "livre" /\ proc'[p].pc = passo /\ proc'[p].turno = t /\ Outros(p)
           /\ UNCHANGED <<turno, checkins, alertas, painel, agora, falhas>>
  BY DEF Comeca, TypeOK, Outros

\* The steps that write on what is recorded of a shift, and not on its row.
LEMMA Anotando ==
    ASSUME TypeOK, Pendente, NEW p \in Procs, proc[p].pc \in ComTurno,
           UNCHANGED <<turno, agora>>,
           UNCHANGED checkins \/ \E e, s : Gravar(proc[p].turno, e, s),
           \/ UNCHANGED alertas /\ falhas' \in {falhas, falhas + 1}
           \/ \E ks : CriarAlertas(proc[p].turno, ks),
           UNCHANGED painel \/ \E st : Broadcast(proc[p].turno, st),
           Responde(p) \/ \E passo : Segue(p, passo)
    PROVE  Frame(p)
  <1> DEFINE t == proc[p].turno
  <1>1. t \in Turnos /\ turno[t].status \in Iniciado
    BY DEF TypeOK, Pendente
  <1>2. checkins[t] \subseteq checkins'[t] /\ \A x \in Turnos \ {t} : checkins'[x] = checkins[x]
    BY <1>1, Gravado
  <1>3. /\ \A x \in Turnos \ {t} : alertas'[x] = alertas[x]
        /\ falhas' \in Nat /\ falhas' >= falhas
    <2>1. falhas \in Nat /\ falhas' \in {falhas, falhas + 1}
      BY DEF TypeOK, CriarAlertas
    <2>2. \A x \in Turnos \ {t} : alertas'[x] = alertas[x]
      BY <1>1 DEF TypeOK, CriarAlertas
    <2> QED BY <2>1, <2>2
  <1>4. \A x \in Turnos \ {t} : painel'[x] = painel[x]
    BY <1>1 DEF TypeOK, Broadcast
  <1>5. Outros(p)
    BY Seguiu, Respondeu DEF Outros
  <1> QED BY <1>1, <1>2, <1>3, <1>4, <1>5 DEF Frame

LEMMA AndouIniciar ==
    ASSUME TypeOK, Pendente, NEW p \in Procs, Iniciar(p)
    PROVE  Andou(p)
  <1> DEFINE t == proc[p].turno
  <1>1. ASSUME NEW u \in Usuarios, NEW d \in Devices, NEW s \in Senhas, NEW fora \in Desvios,
               IniciarLer(p, u, d, s, fora)
        PROVE  Andou(p)
    BY <1>1, Comecando DEF IniciarLer, Comecou, Andou
  <1>2. ASSUME NEW x \in Turnos, NEW duracao \in Duracoes, IniciarCriar(p, x, duracao)
        PROVE  Andou(p)
    <2>1. /\ proc'[p].pc = "ini_emitir" /\ proc'[p].turno = x /\ proc[p].pc = "ini_criar"
          /\ Outros(p)
      BY <1>2 DEF IniciarCriar, TypeOK, Pedido, Esta, Outros
    <2>2. /\ turno[x].status = "vago" /\ turno'[x].status = "em_andamento"
          /\ \A y \in Turnos \ {x} : turno'[y] = turno[y]
      BY <1>2 DEF IniciarCriar, TypeOK
    <2>3. UNCHANGED <<checkins, alertas, painel, agora, falhas>>
      BY <1>2 DEF IniciarCriar
    <2> QED BY <2>1, <2>2, <2>3 DEF Criou, Andou
  <1>3. CASE IniciarEmitir(p)
    <2>1. proc[p].pc = "ini_emitir" /\ proc[p].pc \in ComTurno
      BY <1>3 DEF IniciarEmitir, Esta, ComTurno, Passo
    <2>2. Frame(p)
      BY <1>3, <2>1, Anotando DEF IniciarEmitir
    <2>3. proc'[p].pc = "ini_checkin" /\ proc'[p].turno = t
      BY <1>3, Seguiu DEF IniciarEmitir
    <2>4. UNCHANGED turno /\ painel'[t] = "em_andamento"
      BY <1>3, <2>2 DEF IniciarEmitir, Broadcast, TypeOK, Frame
    <2>5. Escreveu(t, proc[p].pc)
      BY <2>1, <2>4 DEF Escreveu, Escritas
    <2> QED BY <2>1, <2>2, <2>3, <2>5 DEF Proximo, Avancou, Andou
  <1>4. CASE IniciarCheckin(p)
    <2>1. proc[p].pc = "ini_checkin" /\ proc[p].pc \in ComTurno
      BY <1>4 DEF IniciarCheckin, Esta, ComTurno, Passo
    <2>2. Frame(p)
      BY <1>4, <2>1, Anotando DEF IniciarCheckin
    <2>3. proc'[p].pc = "ini_desvio" /\ proc'[p].turno = t
      BY <1>4, Seguiu DEF IniciarCheckin
    <2>4. UNCHANGED <<turno, painel>> /\ checkins'[t] # {}
      BY <1>4, <2>2, Gravado DEF IniciarCheckin, Frame
    <2>5. Escreveu(t, proc[p].pc)
      BY <2>1, <2>4 DEF Escreveu, Escritas
    <2> QED BY <2>1, <2>2, <2>3, <2>5 DEF Proximo, Avancou, Andou
  <1>5. CASE IniciarDesvio(p)
    <2>1. proc[p].pc = "ini_desvio" /\ proc[p].pc \in ComTurno
      BY <1>5 DEF IniciarDesvio, Esta, ComTurno, Passo
    <2>2. Frame(p)
      BY <1>5, <2>1, Anotando DEF IniciarDesvio
    <2>3. proc'[p].pc = "livre" /\ proc'[p].turno = NULL
      BY <1>5, Respondeu DEF IniciarDesvio
    <2>4. UNCHANGED <<turno, painel>>
      BY <1>5 DEF IniciarDesvio
    <2>5. Escreveu(t, proc[p].pc)
      BY <2>1, <2>4 DEF Escreveu, Escritas
    <2> QED BY <2>1, <2>2, <2>3, <2>5 DEF Finais, Avancou, Andou
  <1> QED BY <1>1, <1>2, <1>3, <1>4, <1>5 DEF Iniciar

\* The steps of Checkin, Finalizar and Sabotagem that leave row and panel alone.
LEMMA AndouAnotando ==
    ASSUME TypeOK, Pendente, NEW p \in Procs,
           proc[p].pc \in {"chk_gravar", "chk_alertar", "fim_gravar", "fim_alertar", "sab_alertar"},
           UNCHANGED <<turno, painel, agora>>,
           UNCHANGED checkins \/ \E e, s : Gravar(proc[p].turno, e, s),
           \/ UNCHANGED alertas /\ falhas' \in {falhas, falhas + 1}
           \/ \E ks : CriarAlertas(proc[p].turno, ks),
           \/ proc[p].pc \in Finais /\ Responde(p)
           \/ \E passo : <<proc[p].pc, passo>> \in Proximo /\ Segue(p, passo)
    PROVE  Andou(p)
  <1>1. proc[p].pc \in ComTurno
    BY DEF ComTurno, Passo
  <1>2. Frame(p)
    BY <1>1, Anotando
  <1>3. \/ <<proc[p].pc, proc'[p].pc>> \in Proximo /\ proc'[p].turno = proc[p].turno
        \/ proc[p].pc \in Finais /\ proc'[p].pc = "livre" /\ proc'[p].turno = NULL
    BY Seguiu, Respondeu
  <1>4. Escreveu(proc[p].turno, proc[p].pc)
    BY DEF Escreveu, Escritas
  <1> QED BY <1>2, <1>3, <1>4 DEF Avancou, Andou

LEMMA AndouCheckin ==
    ASSUME TypeOK, Pendente, SessaoCoerente, NEW p \in Procs, Checkin(p)
    PROVE  Andou(p)
  <1>1. ASSUME NEW t \in Turnos, NEW u \in Usuarios, NEW d \in Devices, NEW s \in Senhas,
               NEW fora \in Desvios, CheckinLer(p, t, u, d, s, fora)
        PROVE  Andou(p)
    BY <1>1, Comecando, Guardas DEF CheckinLer, Comecou, Andou
  <1>2. CASE CheckinGravar(p)
    <2>1. proc[p].pc = "chk_gravar" /\ <<proc[p].pc, "chk_alertar">> \in Proximo
      BY <1>2 DEF CheckinGravar, Esta, Proximo
    <2> QED BY <1>2, <2>1, AndouAnotando DEF CheckinGravar
  <1>3. CASE CheckinAlertar(p)
    <2>1. proc[p].pc = "chk_alertar" /\ proc[p].pc \in Finais
      BY <1>3 DEF CheckinAlertar, Esta, Finais
    <2> QED BY <1>3, <2>1, AndouAnotando DEF CheckinAlertar
  <1> QED BY <1>1, <1>2, <1>3 DEF Checkin

\* The steps that write a row.
LEMMA AndouEscrevendo ==
    ASSUME TypeOK, Pendente, NEW p \in Procs, Escreve(p)
    PROVE  Andou(p)
  <1> DEFINE t == proc[p].turno
  <1>1. /\ t \in Turnos /\ turno[t].status \in Iniciado
        /\ \A x \in Turnos : x # t => turno'[x] = turno[x]
        /\ turno'[t].fimPrevisto = turno[t].fimPrevisto
    BY LinhaEscrita
  <1>2. proc[p].pc \in Escritas /\ proc[p].pc \in ComTurno
    BY DEF Escreve, Escritas, FinalizarStatus, SabotagemStatus, GetVigiaTurnoFinalizar, RevogarGravar,
           ReassociarGravar, Esta, ComTurno, Passo
  <1>3. UNCHANGED <<checkins, alertas, painel, agora>>
    BY DEF Escreve, FinalizarStatus, SabotagemStatus, GetVigiaTurnoFinalizar, RevogarGravar,
           ReassociarGravar
  <1>4. falhas' \in Nat /\ falhas' >= falhas
    <2>1. falhas' \in {falhas, falhas + 1}
      BY DEF Escreve, FinalizarStatus, SabotagemStatus, GetVigiaTurnoFinalizar, RevogarGravar,
             ReassociarGravar
    <2> QED BY <2>1 DEF TypeOK
  <1>5. /\ Outros(p)
        /\ \/ <<proc[p].pc, proc'[p].pc>> \in Proximo /\ proc'[p].turno = t
           \/ proc[p].pc \in Finais /\ proc'[p].pc = "livre" /\ proc'[p].turno = NULL
    <2>1. CASE FinalizarStatus(p)
      BY <2>1, Seguiu DEF FinalizarStatus, Esta, Proximo, Outros
    <2>2. CASE SabotagemStatus(p)
      BY <2>2, Seguiu DEF SabotagemStatus, Esta, Proximo, Outros
    <2>3. CASE GetVigiaTurnoFinalizar(p)
      BY <2>3, Respondeu DEF GetVigiaTurnoFinalizar, Esta, Finais, Outros
    <2>4. ASSUME NEW pin \in Pins, RevogarGravar(p, pin)
          PROVE  Outros(p) /\ proc[p].pc \in Finais /\ proc'[p].pc = "livre" /\ proc'[p].turno = NULL
      BY <2>4, Respondeu DEF RevogarGravar, Esta, Finais, Outros
    <2>5. CASE ReassociarGravar(p)
      BY <2>5, Respondeu DEF ReassociarGravar, Esta, Finais, Outros
    <2> QED BY <2>1, <2>2, <2>3, <2>4, <2>5 DEF Escreve
  <1>6. Escreveu(t, proc[p].pc) /\ turno'[t].status \in Iniciado
    <2>1. CASE FinalizarStatus(p) \/ GetVigiaTurnoFinalizar(p)
      <3>1. /\ turno'[t].status = "finalizado"
            /\ turno'[t].device = turno[t].device
        BY <2>1, LinhaEscrita DEF FinalizarStatus, GetVigiaTurnoFinalizar, RevogarGravar,
                                  ReassociarGravar, Esta
      <3>2. proc[p].pc \in {"fim_status", "vig_finalizar"}
        BY <2>1 DEF FinalizarStatus, GetVigiaTurnoFinalizar, Esta
      <3> QED BY <1>3, <3>1, <3>2 DEF Escreveu, Escritas, Iniciado
    <2>2. CASE SabotagemStatus(p)
      <3>1. /\ (turno'[t] = turno[t] /\ falhas' = falhas + 1) \/ turno'[t].status = "critico"
            /\ turno'[t].device = turno[t].device
        BY <2>2, LinhaEscrita DEF SabotagemStatus, RevogarGravar, ReassociarGravar, Esta
      <3>2. proc[p].pc = "sab_status" /\ falhas \in Nat
        BY <2>2 DEF SabotagemStatus, Esta, TypeOK
      <3> QED BY <1>1, <1>3, <3>1, <3>2 DEF Escreveu, Escritas, Iniciado, Ativo
    <2>3. ASSUME NEW pin \in Pins, RevogarGravar(p, pin)
          PROVE  Escreveu(t, proc[p].pc) /\ turno'[t].status \in Iniciado
      <3>1. turno'[t].status = turno[t].status /\ ~turno'[t].token
        BY <2>3, LinhaEscrita
      <3>2. proc[p].pc = "rev_gravar"
        BY <2>3 DEF RevogarGravar, Esta
      <3> QED BY <1>1, <1>3, <3>1, <3>2 DEF Escreveu, Escritas
    <2>4. CASE ReassociarGravar(p)
      <3>1. turno'[t].status = turno[t].status
        BY <2>4, LinhaEscrita
      <3>2. proc[p].pc = "rea_gravar"
        BY <2>4 DEF ReassociarGravar, Esta
      <3> QED BY <1>1, <1>3, <3>1, <3>2 DEF Escreveu, Escritas
    <2> QED BY Zenon, <2>1, <2>2, <2>3, <2>4 DEF Escreve
  <1>7. Frame(p)
    BY <1>1, <1>2, <1>3, <1>4, <1>5, <1>6 DEF Frame
  <1> QED BY <1>5, <1>6, <1>7 DEF Avancou, Andou

LEMMA AndouFinalizar ==
    ASSUME TypeOK, Pendente, SessaoCoerente, NEW p \in Procs, Finalizar(p)
    PROVE  Andou(p)
  <1> DEFINE t == proc[p].turno
  <1>1. ASSUME NEW x \in Turnos, NEW u \in Usuarios, NEW d \in Devices, NEW s \in Senhas,
               NEW fora \in Desvios, NEW ts \in 0 .. MaxAgora + 1,
               FinalizarLer(p, x, u, d, s, fora, ts)
        PROVE  Andou(p)
    BY <1>1, Comecando, Guardas DEF FinalizarLer, Comecou, Andou
  <1>2. CASE FinalizarGravar(p)
    <2>1. proc[p].pc = "fim_gravar" /\ <<proc[p].pc, "fim_alertar">> \in Proximo
      BY <1>2 DEF FinalizarGravar, Esta, Proximo
    <2> QED BY <1>2, <2>1, AndouAnotando DEF FinalizarGravar
  <1>3. CASE FinalizarAlertar(p)
    <2>1. proc[p].pc = "fim_alertar" /\ <<proc[p].pc, "fim_status">> \in Proximo
      BY <1>3 DEF FinalizarAlertar, Esta, Proximo
    <2> QED BY <1>3, <2>1, AndouAnotando DEF FinalizarAlertar
  <1>4. CASE FinalizarStatus(p)
    BY <1>4, AndouEscrevendo DEF Escreve
  <1>5. CASE FinalizarEmitir(p)
    <2>1. proc[p].pc = "fim_emitir" /\ proc[p].pc \in ComTurno
      BY <1>5 DEF FinalizarEmitir, Esta, ComTurno, Passo
    <2>2. Frame(p)
      BY <1>5, <2>1, Anotando DEF FinalizarEmitir
    <2>3. proc'[p].pc = "livre" /\ proc'[p].turno = NULL
      BY <1>5, Respondeu DEF FinalizarEmitir
    <2>4. UNCHANGED turno /\ painel'[t] = "finalizado"
      BY <1>5, <2>2 DEF FinalizarEmitir, Broadcast, TypeOK, Frame
    <2>5. Escreveu(t, proc[p].pc)
      BY <2>1, <2>4 DEF Escreveu, Escritas
    <2> QED BY <2>1, <2>2, <2>3, <2>5 DEF Finais, Avancou, Andou
  <1> QED BY <1>1, <1>2, <1>3, <1>4, <1>5 DEF Finalizar

LEMMA AndouSabotagem ==
    ASSUME TypeOK, Pendente, SessaoCoerente, NEW p \in Procs, Sabotagem(p)
    PROVE  Andou(p)
  <1> DEFINE t == proc[p].turno
  <1>1. ASSUME NEW x \in Turnos, NEW u \in Usuarios, NEW d \in Devices, SabotagemLer(p, x, u, d)
        PROVE  Andou(p)
    BY <1>1, Comecando, Guardas DEF SabotagemLer, Comecou, Andou
  <1>2. CASE SabotagemStatus(p)
    BY <1>2, AndouEscrevendo DEF Escreve
  <1>3. CASE SabotagemEmitir(p)
    <2>1. proc[p].pc = "sab_emitir" /\ proc[p].pc \in ComTurno
      BY <1>3 DEF SabotagemEmitir, Esta, ComTurno, Passo
    <2>2. Frame(p)
      BY <1>3, <2>1, Anotando DEF SabotagemEmitir
    <2>3. proc'[p].pc = "sab_alertar" /\ proc'[p].turno = t
      BY <1>3, Seguiu DEF SabotagemEmitir
    <2>4. UNCHANGED turno /\ painel'[t] = "critico"
      BY <1>3, <2>2 DEF SabotagemEmitir, Broadcast, TypeOK, Frame
    <2>5. Escreveu(t, proc[p].pc)
      BY <2>1, <2>4 DEF Escreveu, Escritas
    <2> QED BY <2>1, <2>2, <2>3, <2>5 DEF Proximo, Avancou, Andou
  <1>4. CASE SabotagemAlertar(p)
    <2>1. proc[p].pc = "sab_alertar" /\ proc[p].pc \in Finais
      BY <1>4 DEF SabotagemAlertar, Esta, Finais
    <2> QED BY <1>4, <2>1, AndouAnotando DEF SabotagemAlertar
  <1> QED BY <1>1, <1>2, <1>3, <1>4 DEF Sabotagem

LEMMA AndouSessao ==
    ASSUME TypeOK, Pendente, SessaoCoerente, NEW p \in Procs,
           GetVigiaTurno(p) \/ Revogar(p) \/ Reassociar(p) \/ Abortar(p)
    PROVE  Andou(p)
  <1>1. ASSUME NEW t \in Turnos, NEW u \in Usuarios, GetVigiaTurnoLer(p, t, u)
        PROVE  Andou(p)
    BY <1>1, Comecando, Guardas DEF GetVigiaTurnoLer, Comecou, Andou
  <1>2. ASSUME NEW t \in Turnos, RevogarLer(p, t)
        PROVE  Andou(p)
    <2>1. turno[t].status \in Ativo
      BY <1>2 DEF RevogarLer, TypeOK, Linha, Status
    <2> QED BY <1>2, <2>1, Comecando DEF RevogarLer, Comecou, Andou
  <1>3. ASSUME NEW t \in Turnos, NEW u \in Usuarios, NEW d \in Devices, NEW pin \in Pins,
               ReassociarLer(p, t, u, d, pin)
        PROVE  Andou(p)
    <2>1. turno[t].status \in Ativo /\ ~turno[t].token
      BY <1>3, Guardas DEF ReassociarLer
    <2> QED BY <1>3, <2>1, Comecando DEF ReassociarLer, Comecou, Andou
  <1>4. CASE Abortar(p)
    BY <1>4, Respondeu DEF Abortar, Esta, Parou, Outros, Andou
  <1>5. Escreve(p) => Andou(p)
    BY AndouEscrevendo
  <1> QED BY <1>1, <1>2, <1>3, <1>4, <1>5 DEF GetVigiaTurno, Revogar, Reassociar, Escreve

LEMMA AndouAmbiente ==
    ASSUME TypeOK, Ambiente \/ UNCHANGED vars
    PROVE  Alheio
  <1>1. UNCHANGED <<checkins, alertas, painel, proc, falhas>> /\ agora' \in Nat /\ agora' >= agora
    <2>1. /\ UNCHANGED <<checkins, alertas, painel, proc, falhas>>
          /\ agora' = agora \/ agora' = agora + 1
      BY DEF Ambiente, RegisterBiometric, Logout, CriarTurnoDoWorker, Tique, vars
    <2> QED BY <2>1 DEF TypeOK
  <1>2. ASSUME NEW x \in Turnos, NEW u \in Usuarios, NEW status \in DoWorker, NEW fim \in Duracoes,
               CriarTurnoDoWorker(x, u, status, fim), NEW t \in Turnos
        PROVE  \/ turno'[t] = turno[t]
               \/ turno[t].status = "vago" /\ turno'[t].status \in DoWorker /\ ~turno'[t].token
    <2> DEFINE linha == [Vaga EXCEPT !.status = status, !.usuario = u, !.fimPrevisto = fim]
    <2>1. turno' = [turno EXCEPT ![x] = linha] /\ turno[x].status = "vago"
      BY <1>2 DEF CriarTurnoDoWorker
    <2>2. linha.status = status /\ linha.token = FALSE
      BY DEF Vaga
    <2> HIDE DEF linha
    <2> QED BY <2>1, <2>2 DEF TypeOK
  <1>3. \/ turno' = turno
        \/ \E x \in Turnos, u \in Usuarios, status \in DoWorker, fim \in Duracoes :
              CriarTurnoDoWorker(x, u, status, fim)
    BY DEF Ambiente, RegisterBiometric, Logout, Tique, vars
  <1> QED BY <1>1, <1>2, <1>3 DEF Alheio

\* Every step of the system is one of these.
LEMMA UmPasso ==
    ASSUME TypeOK, Pendente, SessaoCoerente, [Next]_vars
    PROVE  Alheio \/ \E p \in Procs : Andou(p)
  BY AndouIniciar, AndouCheckin, AndouFinalizar, AndouSabotagem, AndouSessao, AndouAmbiente DEF Next
-----------------------------------------------------------------------------
(* Two facts about every state: who is not on duty has no session, and a   *)
(* request that closes a shift for its time does so after that time.       *)

SemSessao == \A t \in Turnos : turno[t].status \notin Iniciado => ~turno[t].token

Vencido ==
    \A p \in Procs : proc[p].pc = "vig_finalizar" => agora > turno[proc[p].turno].fimPrevisto

LEMMA SemSessaoNext ==
    ASSUME TypeOK, Pendente, SessaoCoerente, SemSessao, [Next]_vars
    PROVE  SemSessao'
  <1> SUFFICES ASSUME NEW t \in Turnos, turno'[t].status \notin Iniciado, turno'[t].token
               PROVE  FALSE
    BY DEF SemSessao
  <1>1. turno'[t] # turno[t]
    BY DEF SemSessao
  <1>2. ~Alheio
    BY <1>1 DEF Alheio
  <1>3. ASSUME NEW p \in Procs, Andou(p)
        PROVE  FALSE
    <2>1. ~Comecou(p) /\ ~Parou(p)
      BY <1>1 DEF Comecou, Parou
    <2>2. ~Criou(p)
      BY <1>1 DEF Criou, Iniciado, Ativo
    <2>3. ~Avancou(p)
      BY <1>1 DEF Avancou, Frame
    <2> QED BY <1>3, <2>1, <2>2, <2>3 DEF Andou
  <1> QED BY <1>2, <1>3, UmPasso

LEMMA VencidoNext ==
    ASSUME TypeOK, Pendente, SessaoCoerente, Vencido, [Next]_vars
    PROVE  Vencido'
  <1> SUFFICES ASSUME NEW q \in Procs, proc'[q].pc = "vig_finalizar"
               PROVE  agora' > turno'[proc'[q].turno].fimPrevisto
    BY DEF Vencido
  <1>1. ASSUME NEW t \in Turnos, turno[t].status \in Iniciado
        PROVE  /\ turno[t].fimPrevisto \in Nat /\ agora \in Nat /\ agora' \in Nat /\ agora' >= agora
               /\ turno'[t].fimPrevisto = turno[t].fimPrevisto
    <2>1. turno[t].fimPrevisto \in Nat /\ agora \in Nat
      BY DEF TypeOK, Linha
    <2>2. turno[t].status # "vago"
      BY <1>1 DEF Iniciado, Ativo
    <2>3. CASE Alheio
      BY <2>1, <2>2, <2>3 DEF Alheio
    <2>4. ASSUME NEW p \in Procs, Andou(p)
          PROVE  agora' = agora /\ turno'[t].fimPrevisto = turno[t].fimPrevisto
      BY <2>2, <2>4 DEF Andou, Comecou, Criou, Avancou, Frame, Parou
    <2> QED BY <2>1, <2>3, <2>4, UmPasso
  <1>2. ASSUME proc'[q] = proc[q]
        PROVE  agora' > turno'[proc'[q].turno].fimPrevisto
    <2>1. proc[q].turno \in Turnos /\ turno[proc[q].turno].status \in Iniciado
      BY <1>2 DEF TypeOK, Pendente, ComTurno, Passo
    <2>2. agora > turno[proc[q].turno].fimPrevisto
      BY <1>2 DEF Vencido
    <2> QED BY <1>1, <1>2, <2>1, <2>2
  <1>3. CASE Alheio
    BY <1>2, <1>3 DEF Alheio
  <1>4. ASSUME NEW p \in Procs, Andou(p), proc'[q] # proc[q]
        PROVE  agora' > turno'[proc'[q].turno].fimPrevisto
    <2>1. q = p
      BY <1>4 DEF Andou, Comecou, Criou, Avancou, Frame, Parou, Outros
    <2>2. Comecou(q)
      BY <1>4, <2>1 DEF Andou, Criou, Avancou, Parou, Proximo
    <2> QED BY <2>2 DEF Comecou
  <1> QED BY <1>2, <1>3, <1>4, UmPasso

LEMMA SessaoVencida == Spec => [](SemSessao /\ Vencido)
  <1>1. Init => SemSessao /\ Vencido
    BY DEF Init, SemSessao, Vencido, Vaga, Livre
  <1>2. TypeOK /\ Pendente /\ SessaoCoerente /\ SemSessao /\ Vencido /\ [Next]_vars =>
           SemSessao' /\ Vencido'
    BY SemSessaoNext, VencidoNext
  <1> QED BY <1>1, <1>2, TypeCorrect, PendenteCorrect, SessaoCorrect, PTL DEF Spec
-----------------------------------------------------------------------------
(***************************************************************************)
(* What a request may still write after its guard ceased to hold.          *)
(***************************************************************************)

\* A request gets to a step on a shift because it was there, moved on on that shift,
\* read it, or has just created it.
LEMMA Novo ==
    ASSUME TypeOK, Pendente, SessaoCoerente, [Next]_vars, NEW t \in Turnos,
           NEW q \in Procs, proc'[q].turno = t
    PROVE  \/ proc'[q] = proc[q]
           \/ Comecou(q) /\ turno[t].status \in Ativo
           \/ Criou(q) /\ turno[t].status = "vago"
           \/ Avancou(q) /\ proc[q].turno = t /\ <<proc[q].pc, proc'[q].pc>> \in Proximo
  <1>1. CASE Alheio
    BY <1>1 DEF Alheio
  <1>2. ASSUME NEW p \in Procs, Andou(p), proc'[q] # proc[q]
        PROVE  \/ Comecou(q) /\ turno[t].status \in Ativo
               \/ Criou(q) /\ turno[t].status = "vago"
               \/ Avancou(q) /\ proc[q].turno = t /\ <<proc[q].pc, proc'[q].pc>> \in Proximo
    <2>1. q = p
      BY <1>2 DEF Andou, Comecou, Criou, Avancou, Frame, Parou, Outros
    <2>2. t # NULL
      BY ConstantesOK
    <2>3. CASE Comecou(q)
      BY <2>2, <2>3 DEF Comecou
    <2>4. CASE Criou(q)
      BY <2>4 DEF Criou
    <2>5. CASE Avancou(q)
      BY <2>2, <2>5 DEF Avancou
    <2>6. CASE Parou(q)
      BY <2>2, <2>6 DEF Parou
    <2> QED BY <1>2, <2>1, <2>3, <2>4, <2>5, <2>6 DEF Andou
  <1> QED BY <1>1, <1>2, UmPasso

\* A started shift changes only at a step of a request on it.
LEMMA SoDele ==
    ASSUME TypeOK, Pendente, SessaoCoerente, [Next]_vars, NEW t \in Turnos,
           turno[t].status \in Iniciado
    PROVE  \/ UNCHANGED <<turno[t], checkins[t], alertas[t], painel[t]>>
           \/ \E p \in Procs : Avancou(p) /\ proc[p].turno = t
  <1>1. turno[t].status # "vago"
    BY DEF Iniciado, Ativo
  <1>2. CASE Alheio
    BY <1>1, <1>2 DEF Alheio
  <1>3. ASSUME NEW p \in Procs, Andou(p), ~(Avancou(p) /\ proc[p].turno = t)
        PROVE  UNCHANGED <<turno[t], checkins[t], alertas[t], painel[t]>>
    BY <1>1, <1>3 DEF Andou, Comecou, Criou, Avancou, Frame, Parou
  <1> QED BY <1>2, <1>3, UmPasso

\* No request begins on a finished shift, and once those that had begun are answered
\* nothing of it changes: no interleaving of guards and late writes brings it back.
THEOREM FinalizadoCorrect == Spec => FinalizadoEFinal
  <1>1. TypeOK /\ Pendente /\ SessaoCoerente /\ [Next]_vars =>
           [\A t \in Turnos :
               turno[t].status = "finalizado" =>
                  /\ Sobre(t, Passo)' \subseteq Sobre(t, Passo)
                  /\ Sobre(t, Passo) = {} =>
                        UNCHANGED <<turno[t], checkins[t], alertas[t], painel[t]>>]_vars
    <2> SUFFICES ASSUME TypeOK, Pendente, SessaoCoerente, [Next]_vars,
                        NEW t \in Turnos, turno[t].status = "finalizado"
                 PROVE  /\ Sobre(t, Passo)' \subseteq Sobre(t, Passo)
                        /\ Sobre(t, Passo) = {} =>
                              UNCHANGED <<turno[t], checkins[t], alertas[t], painel[t]>>
      OBVIOUS
    <2>1. ASSUME NEW q \in Procs, proc'[q].turno = t
          PROVE  q \in Sobre(t, Passo)
      <3>1. proc[q].turno = t
        BY <2>1, Novo DEF Ativo
      <3> QED BY <3>1 DEF Sobre, TypeOK, Pedido
    <2>2. ASSUME NEW p \in Procs, proc[p].turno = t
          PROVE  p \in Sobre(t, Passo)
      BY <2>2 DEF Sobre, TypeOK, Pedido
    <2>3. turno[t].status \in Iniciado
      BY DEF Iniciado
    <2>4. Sobre(t, Passo) = {} => UNCHANGED <<turno[t], checkins[t], alertas[t], painel[t]>>
      BY <2>2, <2>3, SoDele
    <2> QED BY <2>1, <2>4 DEF Sobre
  <1> QED BY <1>1, TypeCorrect, PendenteCorrect, SessaoCorrect, PTL DEF Spec, FinalizadoEFinal

\* While a shift has no session no request of its guard's begins on it, and once those
\* past the check of the session are answered, the guard leaves nothing on it.
THEOREM RevogadoCorrect == Spec => RevogadoNaoAge
  <1> DEFINE Calado(t) ==
                /\ UNCHANGED <<checkins[t], alertas[t], painel[t]>>
                /\ \/ turno'[t].status = turno[t].status
                   \/ turno'[t].status = "finalizado" /\ agora > turno[t].fimPrevisto
  <1>1. TypeOK /\ Pendente /\ SessaoCoerente /\ Vencido /\ [Next]_vars =>
           [\A t \in Turnos :
               turno[t].status \in Ativo /\ ~turno[t].token =>
                  /\ Sobre(t, DoVigia)' \subseteq Sobre(t, DoVigia)
                  /\ Sobre(t, DoVigia) = {} => Calado(t)]_vars
    <2> SUFFICES ASSUME TypeOK, Pendente, SessaoCoerente, Vencido, [Next]_vars,
                        NEW t \in Turnos, turno[t].status \in Ativo, ~turno[t].token
                 PROVE  /\ Sobre(t, DoVigia)' \subseteq Sobre(t, DoVigia)
                        /\ Sobre(t, DoVigia) = {} => Calado(t)
      OBVIOUS
    <2>1. turno[t].status \in Iniciado /\ turno[t].status # "vago"
      BY DEF Iniciado, Ativo
    <2>2. ASSUME NEW q \in Procs, proc'[q].turno = t, proc'[q].pc \in DoVigia
          PROVE  proc[q].turno = t /\ proc[q].pc \in DoVigia
      <3>1. ~Comecou(q)
        BY <2>2 DEF Comecou, DoVigia, Passo
      <3> QED BY <2>1, <2>2, <3>1, Novo DEF Proximo, DoVigia, Passo
    <2>3. ASSUME NEW p \in Procs, Avancou(p), proc[p].turno = t, proc[p].pc \notin DoVigia
          PROVE  Calado(t)
      <3>1. proc[p].pc \in {"vig_finalizar", "rev_gravar", "rea_gravar"}
        BY <2>3 DEF Avancou, Frame, DoVigia, ComTurno
      <3>2. checkins'[t] = checkins[t] /\ alertas'[t] = alertas[t] /\ painel'[t] = painel[t]
        BY <2>3, <3>1 DEF Avancou, Escreveu, Escritas
      <3>3. proc[p].pc = "vig_finalizar" =>
               turno'[t].status = "finalizado" /\ agora > turno[t].fimPrevisto
        BY <2>3 DEF Avancou, Escreveu, Vencido
      <3>4. proc[p].pc \in {"rev_gravar", "rea_gravar"} => turno'[t].status = turno[t].status
        BY <2>3 DEF Avancou, Escreveu
      <3> QED BY <3>1, <3>2, <3>3, <3>4
    <2>4. ASSUME Sobre(t, DoVigia) = {}
          PROVE  Calado(t)
      <3>1. \A p \in Procs : proc[p].turno = t => proc[p].pc \notin DoVigia
        BY <2>4 DEF Sobre
      <3> QED BY <2>1, <2>3, <3>1, SoDele
    <2> HIDE DEF Calado
    <2> QED BY <2>2, <2>4 DEF Sobre
  <1> QED BY <1>1, TypeCorrect, PendenteCorrect, SessaoCorrect, SessaoVencida, PTL
          DEF Spec, RevogadoNaoAge

\* While a shift has a session no association begins on it, and once those that had
\* read its PIN are answered its device changes only through a revocation.
THEOREM PinCorrect == Spec => PinDeUsoUnico
  <1>1. TypeOK /\ Pendente /\ SessaoCoerente /\ SemSessao /\ [Next]_vars =>
           [\A t \in Turnos :
               turno[t].token =>
                  /\ Sobre(t, {"rea_gravar"})' \subseteq Sobre(t, {"rea_gravar"})
                  /\ Sobre(t, {"rea_gravar"}) = {} /\ turno'[t].token =>
                        turno'[t].device = turno[t].device]_vars
    <2> SUFFICES ASSUME TypeOK, Pendente, SessaoCoerente, SemSessao, [Next]_vars,
                        NEW t \in Turnos, turno[t].token
                 PROVE  /\ Sobre(t, {"rea_gravar"})' \subseteq Sobre(t, {"rea_gravar"})
                        /\ Sobre(t, {"rea_gravar"}) = {} /\ turno'[t].token =>
                              turno'[t].device = turno[t].device
      OBVIOUS
    <2>1. ASSUME NEW q \in Procs, proc'[q].turno = t, proc'[q].pc = "rea_gravar"
          PROVE  proc[q].turno = t /\ proc[q].pc = "rea_gravar"
      <3>1. ~Comecou(q) /\ ~Criou(q)
        BY <2>1 DEF Comecou, Criou
      <3>2. <<proc[q].pc, proc'[q].pc>> \notin Proximo
        BY <2>1 DEF Proximo
      <3> QED BY <2>1, <3>1, <3>2, Novo
    <2>2. ASSUME Sobre(t, {"rea_gravar"}) = {}, turno'[t].token
          PROVE  turno'[t].device = turno[t].device
      <3>1. turno[t].status \in Iniciado
        BY DEF SemSessao
      <3>2. ASSUME NEW p \in Procs, Avancou(p), proc[p].turno = t
            PROVE  turno'[t].device = turno[t].device
        BY <2>2, <3>2 DEF Avancou, Escreveu, Sobre
      <3> QED BY <3>1, <3>2, SoDele
    <2> QED BY <2>1, <2>2 DEF Sobre
  <1> QED BY <1>1, TypeCorrect, PendenteCorrect, SessaoCorrect, SessaoVencida, PTL
          DEF Spec, PinDeUsoUnico
-----------------------------------------------------------------------------
(* The panel and the first check-in.                                       *)

\* Who is between the UPDATE and the event, and the event, after a step.
LEMMA Emitira ==
    ASSUME NEW t \in Turnos, NEW q
    PROVE  /\ q \in Emitindo(t) <=>
                 /\ q \in Procs /\ proc[q].turno = t
                 /\ proc[q].pc \in {"ini_emitir", "sab_emitir", "fim_emitir"}
           /\ q \in Emitindo(t)' <=>
                 /\ q \in Procs /\ proc'[q].turno = t
                 /\ proc'[q].pc \in {"ini_emitir", "sab_emitir", "fim_emitir"}
           /\ proc[q].pc = "ini_emitir" => EventoDe(q) = "em_andamento"
           /\ proc[q].pc = "sab_emitir" => EventoDe(q) = "critico"
           /\ proc[q].pc = "fim_emitir" => EventoDe(q) = "finalizado"
           /\ proc'[q].pc = "ini_emitir" => EventoDe(q)' = "em_andamento"
           /\ proc'[q].pc = "sab_emitir" => EventoDe(q)' = "critico"
           /\ proc'[q].pc = "fim_emitir" => EventoDe(q)' = "finalizado"
           /\ proc'[q] = proc[q] => EventoDe(q)' = EventoDe(q)
  BY DEF Emitindo, Sobre, EventoDe

\* A shift nobody's step is about keeps what the panel owes it.
LEMMA AcompanhaIgual ==
    ASSUME NEW t \in Turnos, Acompanha(t),
           turno'[t].status \in Ativo => turno'[t].status = turno[t].status /\ painel'[t] = painel[t],
           Emitindo(t)' = Emitindo(t),
           \A q \in Emitindo(t) : EventoDe(q)' = EventoDe(q)
    PROVE  Acompanha(t)'
  BY DEF Acompanha

LEMMA PainelPasso ==
    ASSUME TypeOK, Pendente, SessaoCoerente, [Next]_vars, falhas' = falhas,
           NEW t \in Turnos, Acompanha(t), NEW p \in Procs, Andou(p)
    PROVE  Acompanha(t)' \/ \E a, b \in Emitindo(t)' : a # b
  <1>0. Outros(p)
    BY DEF Andou, Comecou, Criou, Avancou, Frame, Parou
  <1>1. \A q \in Procs \ {p} :
           /\ q \in Emitindo(t)' <=> q \in Emitindo(t)
           /\ EventoDe(q)' = EventoDe(q)
    BY <1>0, Emitira DEF Outros
  <1>2. Emitindo(t) \subseteq Procs /\ Emitindo(t)' \subseteq Procs
    BY DEF Emitindo, Sobre
  <1>3. ASSUME p \notin Emitindo(t), p \notin Emitindo(t)',
               turno'[t].status \in Ativo => turno'[t].status = turno[t].status /\ painel'[t] = painel[t]
        PROVE  Acompanha(t)'
    <2>1. Emitindo(t)' = Emitindo(t) /\ \A q \in Emitindo(t) : EventoDe(q)' = EventoDe(q)
      BY <1>1, <1>2, <1>3
    <2> QED BY <1>3, <2>1, AcompanhaIgual
  <1>4. CASE Comecou(p)
    <2>1. p \notin Emitindo(t) /\ p \notin Emitindo(t)'
      BY <1>4, Emitira DEF Comecou
    <2> QED BY <1>3, <1>4, <2>1 DEF Comecou
  <1>5. CASE Criou(p)
    <2>1. CASE proc'[p].turno # t
      <3>1. p \notin Emitindo(t) /\ p \notin Emitindo(t)'
        BY <1>5, <2>1, Emitira DEF Criou
      <3> QED BY <1>3, <1>5, <2>1, <3>1 DEF Criou
    <2>2. CASE proc'[p].turno = t
      <3>1. Emitindo(t) = {}
        <4>1. ASSUME NEW q \in Emitindo(t) PROVE FALSE
          <5>1. q \in Procs /\ proc[q].turno = t /\ proc[q].pc \in ComTurno
            BY <4>1, Emitira DEF ComTurno, Passo
          <5> QED BY <1>5, <2>2, <5>1 DEF Criou, Pendente, Iniciado, Ativo
        <4> QED BY <4>1
      <3>2. p \in Emitindo(t)' /\ EventoDe(p)' = "em_andamento"
        BY <1>5, <2>2, Emitira DEF Criou
      <3>3. \A q \in Emitindo(t)' : q = p
        BY <1>1, <1>2, <3>1
      <3>4. turno'[t].status = "em_andamento"
        BY <1>5, <2>2 DEF Criou
      <3> QED BY <3>2, <3>3, <3>4 DEF Acompanha
    <2> QED BY <2>1, <2>2
  <1>6. CASE Avancou(p) /\ proc[p].turno # t
    <2>1. proc'[p].turno # t
      BY <1>6, ConstantesOK DEF Avancou
    <2>2. p \notin Emitindo(t) /\ p \notin Emitindo(t)'
      BY <1>6, <2>1, Emitira
    <2>3. turno'[t] = turno[t] /\ painel'[t] = painel[t]
      BY <1>6 DEF Avancou, Frame
    <2> QED BY <1>3, <2>2, <2>3
  <1>7. CASE Avancou(p) /\ proc[p].turno = t
    <2>1. CASE proc[p].pc \in {"ini_emitir", "sab_emitir", "fim_emitir"}
      <3>1. p \in Emitindo(t) /\ p \notin Emitindo(t)'
        BY <1>7, <2>1, Emitira, ConstantesOK DEF Avancou, Proximo
      <3>2. turno'[t] = turno[t] /\ painel'[t] = EventoDe(p)
        BY <1>7, <2>1, Emitira DEF Avancou, Escreveu, Escritas
      <3>3. turno[t].status \in Ativo => painel'[t] = turno[t].status
        BY <3>1, <3>2 DEF Acompanha
      <3>4. \A q \in Emitindo(t)' : q \in Emitindo(t) /\ EventoDe(q)' = EventoDe(q)
        BY <1>1, <1>2, <3>1
      <3> QED BY <3>2, <3>3, <3>4 DEF Acompanha
    <2>2. CASE proc[p].pc \in {"fim_status", "vig_finalizar"}
      <3>1. turno'[t].status = "finalizado"
        BY <1>7, <2>2 DEF Avancou, Escreveu
      <3> QED BY <3>1 DEF Acompanha, Ativo
    <2>3. CASE proc[p].pc = "sab_status"
      <3>1. turno'[t].status = "critico"
        BY <1>7, <2>3 DEF Avancou, Escreveu
      <3>2. proc'[p].pc = "sab_emitir" /\ proc'[p].turno = t
        BY <1>7, <2>3 DEF Avancou, Proximo, Finais
      <3>3. p \in Emitindo(t)' /\ EventoDe(p)' = "critico"
        BY <3>2, Emitira
      <3>4. CASE \A q \in Emitindo(t)' : q = p
        BY <3>1, <3>3, <3>4 DEF Acompanha
      <3> QED BY <3>3, <3>4
    <2>4. CASE proc[p].pc \notin {"ini_emitir", "sab_emitir", "fim_emitir",
                                  "fim_status", "vig_finalizar", "sab_status"}
      <3>1. p \notin Emitindo(t) /\ p \notin Emitindo(t)'
        BY <1>7, <2>4, Emitira DEF Avancou, Proximo
      <3>2. turno'[t].status = turno[t].status /\ painel'[t] = painel[t]
        BY <1>7, <2>4 DEF Avancou, Escreveu, Escritas
      <3> QED BY <1>3, <3>1, <3>2
    <2> QED BY <2>1, <2>2, <2>3, <2>4
  <1>8. ~Parou(p)
    BY DEF Parou, TypeOK
  <1> QED BY <1>4, <1>5, <1>6, <1>7, <1>8 DEF Andou

\* As long as nothing fails, what the panel shows and what is on its way to it go apart
\* from a shift in progress only when two requests are about to tell of it.
THEOREM PainelCorrect == Spec => PainelAcompanha
  <1>1. TypeOK /\ Pendente /\ SessaoCoerente /\ [Next]_vars =>
           [falhas' = falhas =>
               \A t \in Turnos :
                  Acompanha(t) => Acompanha(t)' \/ \E p, q \in Emitindo(t)' : p # q]_vars
    <2> SUFFICES ASSUME TypeOK, Pendente, SessaoCoerente, [Next]_vars, falhas' = falhas,
                        NEW t \in Turnos, Acompanha(t)
                 PROVE  Acompanha(t)' \/ \E p, q \in Emitindo(t)' : p # q
      OBVIOUS
    <2>1. CASE Alheio
      <3>1. /\ turno'[t].status \in Ativo => turno'[t].status = turno[t].status
            /\ painel' = painel /\ proc' = proc
        BY <2>1 DEF Alheio, Ativo, DoWorker
      <3>2. Emitindo(t)' = Emitindo(t) /\ \A q \in Emitindo(t) : EventoDe(q)' = EventoDe(q)
        BY <3>1 DEF Emitindo, Sobre, EventoDe
      <3> QED BY <3>1, <3>2, AcompanhaIgual
    <2> QED BY <2>1, PainelPasso, UmPasso
  <1> QED BY <1>1, TypeCorrect, PendenteCorrect, SessaoCorrect, PTL DEF Spec, PainelAcompanha

\* A step leaves no shift unwatched, or it is a failure and leaves one.
LEMMA VigiaPasso ==
    ASSUME TypeOK, Pendente, SessaoCoerente, [Next]_vars
    PROVE  \/ SemVigia' \subseteq SemVigia /\ falhas' \in Nat /\ falhas' >= falhas
           \/ /\ falhas' = falhas + 1
              /\ \E t \in Turnos : SemVigia' \subseteq SemVigia \cup {t}
  <1> DEFINE passos == {"ini_emitir", "ini_checkin"}
  <1>0. falhas \in Nat
    BY DEF TypeOK
  <1>1. ASSUME NEW t \in Turnos, t \in SemVigia'
        PROVE  /\ turno'[t].status \in Iniciado /\ checkins'[t] = {}
               /\ \A q \in Procs : proc'[q].turno = t => proc'[q].pc \notin passos
    BY <1>1 DEF SemVigia, Pedindo
  <1>2. ASSUME NEW t \in Turnos, turno[t].status \in Iniciado, checkins[t] = {},
               \A q \in Procs : proc[q].turno = t => proc[q].pc \notin passos
        PROVE  t \in SemVigia
    BY <1>2 DEF SemVigia, Pedindo
  <1>3. SemVigia' \subseteq Turnos
    BY DEF SemVigia
  <1> HIDE DEF passos
  <1>4. CASE Alheio
    <2>1. \A t \in Turnos : turno'[t].status \in Iniciado => turno[t].status \in Iniciado
      BY <1>4 DEF Alheio, DoWorker, Iniciado, Ativo
    <2> QED BY <1>0, <1>1, <1>2, <1>3, <1>4, <2>1 DEF Alheio
  <1>5. ASSUME NEW p \in Procs, Andou(p)
        PROVE  \/ SemVigia' \subseteq SemVigia /\ falhas' \in Nat /\ falhas' >= falhas
               \/ /\ falhas' = falhas + 1
                  /\ \E t \in Turnos : SemVigia' \subseteq SemVigia \cup {t}
    <2>0. \A q \in Procs \ {p} : proc'[q] = proc[q]
      BY <1>5 DEF Andou, Comecou, Criou, Avancou, Frame, Parou, Outros
    <2>1. CASE Comecou(p)
      <3>1. proc[p].pc \notin passos /\ UNCHANGED <<turno, checkins, falhas>>
        BY <2>1 DEF Comecou, passos
      <3>2. \A t \in Turnos : t \in SemVigia' => t \in SemVigia
        BY <1>1, <1>2, <2>0, <3>1
      <3> QED BY <1>0, <1>3, <3>1, <3>2
    <2>2. CASE Criou(p)
      <3>1. /\ proc[p].pc \notin passos /\ proc'[p].pc \in passos
            /\ \A x \in Turnos : x # proc'[p].turno => turno'[x] = turno[x]
            /\ UNCHANGED <<checkins, falhas>>
        BY <2>2 DEF Criou, passos
      <3>2. \A t \in Turnos : t \in SemVigia' => t \in SemVigia
        BY <1>1, <1>2, <2>0, <3>1
      <3> QED BY <1>0, <1>3, <3>1, <3>2
    <2>3. CASE Avancou(p)
      <3>1. /\ \A x \in Turnos : turno'[x].status \in Iniciado => turno[x].status \in Iniciado
            /\ \A x \in Turnos : checkins'[x] = {} => checkins[x] = {}
            /\ falhas' \in Nat /\ falhas' >= falhas
        BY <2>3 DEF Avancou, Frame
      <3>2. proc[p].pc \in passos =>
               \/ checkins'[proc[p].turno] # {}
               \/ proc'[p].turno = proc[p].turno /\ proc'[p].pc \in passos
        BY <2>3 DEF Avancou, Escreveu, Proximo, Finais, passos
      <3>3. \A t \in Turnos : t \in SemVigia' => t \in SemVigia
        BY <1>1, <1>2, <2>0, <3>1, <3>2
      <3> QED BY <1>3, <3>1, <3>3
    <2>4. CASE Parou(p)
      <3>1. UNCHANGED <<turno, checkins>> /\ falhas' = falhas + 1
        BY <2>4 DEF Parou
      <3>2. CASE proc[p].pc \in passos
        <4>1. proc[p].turno \in Turnos
          BY <3>2 DEF TypeOK, ComTurno, Passo, passos
        <4>2. \A t \in Turnos : t \in SemVigia' /\ t # proc[p].turno => t \in SemVigia
          BY <1>1, <1>2, <2>0, <3>1
        <4> QED BY <1>3, <3>1, <4>1, <4>2
      <3>3. CASE proc[p].pc \notin passos
        <4>1. \A t \in Turnos : t \in SemVigia' => t \in SemVigia
          BY <1>1, <1>2, <2>0, <3>1, <3>3
        <4> QED BY <1>0, <1>3, <3>1, <4>1
      <3> QED BY <3>2, <3>3
    <2> QED BY <1>5, <2>1, <2>2, <2>3, <2>4 DEF Andou
  <1> QED BY <1>4, <1>5, UmPasso

\* Every shift without a first check-in that no request is about to write was left so
\* by a failure of its own.
THEOREM CheckinCorrect == Spec => []AtivoTemCheckin
  <1>1. Init => AtivoTemCheckin
    <2> SUFFICES ASSUME Init PROVE AtivoTemCheckin
      OBVIOUS
    <2>1. SemVigia = {}
      BY DEF Init, SemVigia, Vaga, Iniciado, Ativo
    <2>2. Cardinality(SemVigia) = 0
      BY <2>1, FS_EmptySet
    <2> QED BY <2>2 DEF Init, AtivoTemCheckin
  <1>2. TypeOK /\ Pendente /\ SessaoCoerente /\ AtivoTemCheckin /\ [Next]_vars => AtivoTemCheckin'
    <2> SUFFICES ASSUME TypeOK, Pendente, SessaoCoerente, AtivoTemCheckin, [Next]_vars
                 PROVE  AtivoTemCheckin'
      OBVIOUS
    <2>1. falhas \in Nat
      BY DEF TypeOK
    <2>2. IsFiniteSet(SemVigia) /\ Cardinality(SemVigia) \in Nat
      <3>1. SemVigia \subseteq Turnos
        BY DEF SemVigia
      <3>2. IsFiniteSet(SemVigia)
        BY <3>1, ConjuntosFinitos, FS_Subset
      <3> QED BY <3>2, FS_CardinalityType
    <2>3. CASE SemVigia' \subseteq SemVigia /\ falhas' \in Nat /\ falhas' >= falhas
      <3>1. Cardinality(SemVigia') \in Nat /\ Cardinality(SemVigia') <= Cardinality(SemVigia)
        BY <2>2, <2>3, FS_Subset, FS_CardinalityType
      <3> QED BY <2>1, <2>2, <2>3, <3>1 DEF AtivoTemCheckin
    <2>4. ASSUME falhas' = falhas + 1, NEW t \in Turnos, SemVigia' \subseteq SemVigia \cup {t}
          PROVE  AtivoTemCheckin'
      <3>1. /\ IsFiniteSet(SemVigia \cup {t}) /\ Cardinality(SemVigia \cup {t}) \in Nat
            /\ Cardinality(SemVigia \cup {t}) <= Cardinality(SemVigia) + 1
        <4>1. IsFiniteSet(SemVigia \cup {t})
          BY <2>2, FS_AddElement
        <4>2. Cardinality(SemVigia \cup {t}) \in {Cardinality(SemVigia), Cardinality(SemVigia) + 1}
          BY <2>2, FS_AddElement
        <4> QED BY <2>2, <4>1, <4>2
      <3>2. Cardinality(SemVigia') \in Nat /\ Cardinality(SemVigia') <= Cardinality(SemVigia \cup {t})
        BY <2>4, <3>1, FS_Subset, FS_CardinalityType
      <3> QED BY <2>1, <2>2, <2>4, <3>1, <3>2 DEF AtivoTemCheckin
    <2> QED BY <2>3, <2>4, VigiaPasso
  <1> QED BY <1>1, <1>2, TypeCorrect, PendenteCorrect, SessaoCorrect, PTL DEF Spec
===============================================================================
