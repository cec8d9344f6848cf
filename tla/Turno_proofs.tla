---------------------------- MODULE Turno_proofs ----------------------------
(* Proofs about Turno, for every number of guards, shifts and requests.     *)
EXTENDS Turno, FunctionTheorems, FiniteSetTheorems, TLAPS

(***************************************************************************)
(* Type correctness: one case per action.                                  *)
(***************************************************************************)

\* The alerts of a password and of the geofence test are of known kinds.
LEMMA AlertasTipados ==
    /\ \A s \in TiposSenha : AlertasDaSenha(s) \subseteq TipoAlerta
    /\ \A fora \in BOOLEAN : AlertasDoDesvio(fora) \subseteq TipoAlerta
  BY DEF AlertasDaSenha, AlertasDoDesvio, TipoAlerta, TiposSenha

\* Creating alerts, some of which may fail, keeps the table of alerts typed.
LEMMA CriarAlertasTipado ==
    ASSUME alertas \in [Turnos -> SUBSET TipoAlerta], falhas \in Nat,
           NEW t, NEW tipos \in SUBSET TipoAlerta, CriarAlertas(t, tipos)
    PROVE  alertas' \in [Turnos -> SUBSET TipoAlerta] /\ falhas' \in Nat
  <1>1. PICK criados \in SUBSET tipos :
          /\ alertas' = [alertas EXCEPT ![t] = @ \cup criados]
          /\ falhas' = IF criados = tipos THEN falhas ELSE falhas + 1
    BY Zenon DEF CriarAlertas
  <1>2. falhas' \in Nat
    BY <1>1
  <1>3. t \in Turnos => alertas[t] \cup criados \in SUBSET TipoAlerta
    OBVIOUS
  <1>4. alertas' \in [Turnos -> SUBSET TipoAlerta]
    BY <1>1, <1>3
  <1> QED BY <1>2, <1>4

\* Writing a status or a check-in keeps its table typed.
LEMMA UpdateStatusTipado ==
    ASSUME turno \in [Turnos -> Linha], NEW t \in Turnos, NEW status \in Status,
           NEW fim \in Nat \cup {NULL}, UpdateStatus(t, status, fim)
    PROVE  turno' \in [Turnos -> Linha]
  <1>1. turno[t] \in Linha
    OBVIOUS
  <1>2. [turno[t] EXCEPT !.status = status, !.fimReal = fim] \in Linha
    BY <1>1 DEF Linha
  <1>3. turno' = [turno EXCEPT ![t] = [turno[t] EXCEPT !.status = status, !.fimReal = fim]]
    BY DEF UpdateStatus
  <1> QED BY <1>2, <1>3

LEMMA GravarTipado ==
    ASSUME checkins \in [Turnos -> SUBSET (Evento \X TiposSenha)], NEW t \in Turnos,
           NEW evento \in Evento, NEW senha \in TiposSenha, Gravar(t, evento, senha)
    PROVE  checkins' \in [Turnos -> SUBSET (Evento \X TiposSenha)]
  <1>1. <<evento, senha>> \in Evento \X TiposSenha
    OBVIOUS
  <1>2. checkins[t] \cup {<<evento, senha>>} \in SUBSET (Evento \X TiposSenha)
    BY <1>1
  <1> QED BY <1>2 DEF Gravar

\* A request that starts is typed if what it was given is.
LEMMA ComecaTipado ==
    ASSUME TypeOK, NEW p \in Procs, NEW passo \in Passo,
           NEW t \in Turnos \cup {NULL}, NEW u \in Usuarios \cup {NULL},
           NEW d \in Devices \cup {NULL}, NEW s \in TiposSenha, NEW fora \in BOOLEAN,
           passo \in ComTurno => t \in Turnos,
           passo = "ini_criar" => u \in Usuarios /\ d \in Devices,
           passo = "rea_gravar" => d \in Devices,
           Comeca(p, passo, t, u, d, s, fora)
    PROVE  TypeOK'
  <1>1. proc' \in [Procs -> Pedido]
    BY DEF TypeOK, Comeca, Pedido
  <1>2. proc' = [proc EXCEPT ![p] =
          [pc |-> passo, turno |-> t, usuario |-> u, device |-> d,
           senha |-> s, desvio |-> fora]]
    BY DEF Comeca
  <1>3. UNCHANGED <<turno, dono, checkins, alertas, painel, agora, falhas>>
    BY DEF Comeca
  <1>4. ASSUME NEW q \in Procs
        PROVE  /\ proc'[q].pc \in ComTurno => proc'[q].turno \in Turnos
               /\ proc'[q].pc = "ini_criar" =>
                     proc'[q].usuario \in Usuarios /\ proc'[q].device \in Devices
               /\ proc'[q].pc = "rea_gravar" => proc'[q].device \in Devices
    <2>1. CASE q = p
      BY <1>2, <2>1 DEF TypeOK
    <2>2. CASE q # p
      BY <1>2, <2>2 DEF TypeOK
    <2> QED BY <2>1, <2>2
  <1> QED BY <1>1, <1>3, <1>4 DEF TypeOK

\* Moving a request to another step of the same row keeps the requests typed.
LEMMA SegueTipado ==
    ASSUME TypeOK, NEW p \in Procs, NEW passo \in ComTurno \ {"rea_gravar"},
           proc[p].pc \in ComTurno, Segue(p, passo) \/ Responde(p)
    PROVE  /\ proc' \in [Procs -> Pedido]
           /\ \A q \in Procs :
                 /\ proc'[q].pc \in ComTurno => proc'[q].turno \in Turnos
                 /\ proc'[q].pc = "ini_criar" =>
                       proc'[q].usuario \in Usuarios /\ proc'[q].device \in Devices
                 /\ proc'[q].pc = "rea_gravar" => proc'[q].device \in Devices
  <1>1. CASE Segue(p, passo)
    BY <1>1 DEF TypeOK, Segue, Pedido, ComTurno
  <1>2. CASE Responde(p)
    BY <1>2, ConstantesOK DEF TypeOK, Responde, Livre, Pedido, ComTurno, Passo, TiposSenha
  <1> QED BY <1>1, <1>2

LEMMA TypeInit == Init => TypeOK
  BY ConstantesOK DEF Init, TypeOK, Vaga, Linha, Livre, Pedido, Status, Ativo, Terminal,
     Iniciado, Passo, ComTurno, TiposSenha

\* Starting a shift.
LEMMA TypeIniciar ==
    ASSUME TypeOK, NEW p \in Procs, Iniciar(p)
    PROVE  TypeOK'
  <1>1. ASSUME NEW u \in Usuarios, NEW d \in Devices, NEW s \in Senhas, NEW fora \in Desvios,
               IniciarLer(p, u, d, s, fora)
        PROVE  TypeOK'
    <2>1. s \in TiposSenha /\ fora \in BOOLEAN
      BY ConstantesOK
    <2> QED BY <1>1, <2>1, ComecaTipado DEF IniciarLer, Passo, ComTurno
  <1>2. ASSUME NEW t \in Turnos, NEW duracao \in Duracoes, IniciarCriar(p, t, duracao)
        PROVE  TypeOK'
    <2>1. turno' \in [Turnos -> Linha]
      BY <1>2, ConstantesOK DEF IniciarCriar, Esta, TypeOK, Linha, Status, Ativo
    <2>2. proc' \in [Procs -> Pedido]
      <3>1. [proc[p] EXCEPT !.pc = "ini_emitir", !.turno = t] \in Pedido
        BY ZenonT(60) DEF TypeOK, Pedido, Passo
      <3>2. proc' = [proc EXCEPT ![p] = [proc[p] EXCEPT !.pc = "ini_emitir", !.turno = t]]
        BY <1>2 DEF IniciarCriar
      <3> QED BY <3>1, <3>2 DEF TypeOK
    <2>3. \A q \in Procs :
             /\ proc'[q].pc \in ComTurno => proc'[q].turno \in Turnos
             /\ proc'[q].pc = "ini_criar" =>
                   proc'[q].usuario \in Usuarios /\ proc'[q].device \in Devices
             /\ proc'[q].pc = "rea_gravar" => proc'[q].device \in Devices
      BY <1>2 DEF IniciarCriar, TypeOK, Pedido
    <2> QED BY <1>2, <2>1, <2>2, <2>3 DEF IniciarCriar, TypeOK
  <1>3. CASE IniciarEmitir(p)
    <2>1. painel' \in [Turnos -> Iniciado \cup {"vago"}]
      BY <1>3 DEF IniciarEmitir, Broadcast, TypeOK, Iniciado, Ativo
    <2>2. alertas' \in [Turnos -> SUBSET TipoAlerta] /\ falhas' \in Nat
      BY <1>3, AlertasTipados, CriarAlertasTipado DEF IniciarEmitir, TypeOK, Pedido
    <2> QED BY <1>3, <2>1, <2>2, SegueTipado DEF IniciarEmitir, Esta, TypeOK, ComTurno, Passo
  <1>4. CASE IniciarCheckin(p)
    <2>1. checkins' \in [Turnos -> SUBSET (Evento \X TiposSenha)]
      BY <1>4, GravarTipado DEF IniciarCheckin, Esta, TypeOK, Pedido, Evento, ComTurno, Passo
    <2> QED BY <1>4, <2>1, SegueTipado DEF IniciarCheckin, Esta, TypeOK, ComTurno, Passo
  <1>5. CASE IniciarDesvio(p)
    <2>1. alertas' \in [Turnos -> SUBSET TipoAlerta] /\ falhas' \in Nat
      BY <1>5, AlertasTipados, CriarAlertasTipado DEF IniciarDesvio, TypeOK, Pedido
    <2> QED BY <1>5, <2>1, SegueTipado DEF IniciarDesvio, Esta, TypeOK, ComTurno, Passo
  <1> QED BY <1>1, <1>2, <1>3, <1>4, <1>5 DEF Iniciar

\* Checking in.
LEMMA TypeCheckin ==
    ASSUME TypeOK, NEW p \in Procs, Checkin(p)
    PROVE  TypeOK'
  <1>1. ASSUME NEW t \in Turnos, NEW u \in Usuarios, NEW d \in Devices, NEW s \in Senhas,
               NEW fora \in Desvios, CheckinLer(p, t, u, d, s, fora)
        PROVE  TypeOK'
    <2>1. s \in TiposSenha /\ fora \in BOOLEAN
      BY ConstantesOK
    <2> QED BY <1>1, <2>1, ComecaTipado DEF CheckinLer, Passo, ComTurno
  <1>2. CASE CheckinGravar(p)
    <2>1. checkins' \in [Turnos -> SUBSET (Evento \X TiposSenha)]
      BY <1>2, GravarTipado DEF CheckinGravar, Esta, TypeOK, Pedido, Evento, ComTurno, Passo
    <2> QED BY <1>2, <2>1, SegueTipado DEF CheckinGravar, Esta, TypeOK, ComTurno, Passo
  <1>3. CASE CheckinAlertar(p)
    <2>1. AlertasDaSenha(proc[p].senha) \cup AlertasDoDesvio(proc[p].desvio) \in SUBSET TipoAlerta
      BY AlertasTipados DEF TypeOK, Pedido
    <2>2. alertas' \in [Turnos -> SUBSET TipoAlerta] /\ falhas' \in Nat
      BY <1>3, <2>1, CriarAlertasTipado DEF CheckinAlertar, TypeOK
    <2> QED BY <1>3, <2>2, SegueTipado DEF CheckinAlertar, Esta, TypeOK, ComTurno, Passo
  <1> QED BY <1>1, <1>2, <1>3 DEF Checkin

\* Finishing a shift.
LEMMA TypeFinalizar ==
    ASSUME TypeOK, NEW p \in Procs, Finalizar(p)
    PROVE  TypeOK'
  <1>1. ASSUME NEW t \in Turnos, NEW u \in Usuarios, NEW d \in Devices, NEW s \in Senhas,
               NEW fora \in Desvios, NEW ts, FinalizarLer(p, t, u, d, s, fora, ts)
        PROVE  TypeOK'
    <2>1. s \in TiposSenha /\ fora \in BOOLEAN
      BY ConstantesOK
    <2> QED BY <1>1, <2>1, ComecaTipado DEF FinalizarLer, Passo, ComTurno
  <1>2. CASE FinalizarGravar(p)
    <2>1. checkins' \in [Turnos -> SUBSET (Evento \X TiposSenha)]
      BY <1>2, GravarTipado DEF FinalizarGravar, Esta, TypeOK, Pedido, Evento, ComTurno, Passo
    <2> QED BY <1>2, <2>1, SegueTipado DEF FinalizarGravar, Esta, TypeOK, ComTurno, Passo
  <1>3. CASE FinalizarAlertar(p)
    <2>1. AlertasDaSenha(proc[p].senha) \cup AlertasDoDesvio(proc[p].desvio) \in SUBSET TipoAlerta
      BY AlertasTipados DEF TypeOK, Pedido
    <2>2. alertas' \in [Turnos -> SUBSET TipoAlerta] /\ falhas' \in Nat
      BY <1>3, <2>1, CriarAlertasTipado DEF FinalizarAlertar, TypeOK
    <2> QED BY <1>3, <2>2, SegueTipado DEF FinalizarAlertar, Esta, TypeOK, ComTurno, Passo
  <1>4. CASE FinalizarStatus(p)
    <2>1. turno' \in [Turnos -> Linha]
      BY <1>4, UpdateStatusTipado DEF FinalizarStatus, Esta, TypeOK, Status, Terminal, ComTurno, Passo
    <2> QED BY <1>4, <2>1, SegueTipado DEF FinalizarStatus, Esta, TypeOK, ComTurno, Passo
  <1>5. CASE FinalizarEmitir(p)
    <2>1. painel' \in [Turnos -> Iniciado \cup {"vago"}]
      BY <1>5 DEF FinalizarEmitir, Broadcast, TypeOK, Iniciado
    <2> QED BY <1>5, <2>1, SegueTipado DEF FinalizarEmitir, Esta, TypeOK, ComTurno, Passo
  <1> QED BY <1>1, <1>2, <1>3, <1>4, <1>5 DEF Finalizar

\* Reporting sabotage.
LEMMA TypeSabotagem ==
    ASSUME TypeOK, NEW p \in Procs, Sabotagem(p)
    PROVE  TypeOK'
  <1>1. ASSUME NEW t \in Turnos, NEW u \in Usuarios, NEW d \in Devices, SabotagemLer(p, t, u, d)
        PROVE  TypeOK'
    BY <1>1, ComecaTipado DEF SabotagemLer, Passo, ComTurno, TiposSenha
  <1>2. CASE SabotagemStatus(p)
    <2>1. turno' \in [Turnos -> Linha]
      BY <1>2, UpdateStatusTipado DEF SabotagemStatus, Esta, TypeOK, Status, Ativo, ComTurno, Passo
    <2>2. falhas' \in Nat
      BY <1>2 DEF SabotagemStatus, TypeOK
    <2> QED BY <1>2, <2>1, <2>2, SegueTipado DEF SabotagemStatus, Esta, TypeOK, ComTurno, Passo
  <1>3. CASE SabotagemEmitir(p)
    <2>1. painel' \in [Turnos -> Iniciado \cup {"vago"}]
      BY <1>3 DEF SabotagemEmitir, Broadcast, TypeOK, Iniciado, Ativo
    <2>2. checkins' \in [Turnos -> SUBSET (Evento \X TiposSenha)]
      BY <1>3, GravarTipado DEF SabotagemEmitir, Esta, TypeOK, Evento, TiposSenha, ComTurno, Passo
    <2>3. falhas' \in Nat
      BY <1>3 DEF SabotagemEmitir, TypeOK
    <2> QED BY <1>3, <2>1, <2>2, <2>3, SegueTipado DEF SabotagemEmitir, Esta, TypeOK, ComTurno, Passo
  <1>4. CASE SabotagemAlertar(p)
    <2>1. alertas' \in [Turnos -> SUBSET TipoAlerta] /\ falhas' \in Nat
      BY <1>4, CriarAlertasTipado DEF SabotagemAlertar, TypeOK, TipoAlerta
    <2> QED BY <1>4, <2>1, SegueTipado DEF SabotagemAlertar, Esta, TypeOK, ComTurno, Passo
  <1> QED BY <1>1, <1>2, <1>3, <1>4 DEF Sabotagem

\* The requests that only touch the session or the end of a shift.
LEMMA TypeSessao ==
    ASSUME TypeOK, NEW p \in Procs,
           GetVigiaTurno(p) \/ Revogar(p) \/ Reassociar(p) \/ Abortar(p)
    PROVE  TypeOK'
  <1>1. ASSUME NEW t \in Turnos, NEW u \in Usuarios, GetVigiaTurnoLer(p, t, u)
        PROVE  TypeOK'
    BY <1>1, ComecaTipado DEF GetVigiaTurnoLer, Passo, ComTurno, TiposSenha
  <1>2. CASE GetVigiaTurnoFinalizar(p)
    <2>1. turno' \in [Turnos -> Linha]
      BY <1>2, UpdateStatusTipado
         DEF GetVigiaTurnoFinalizar, Esta, TypeOK, Status, Terminal, ComTurno, Passo
    <2> QED BY <1>2, <2>1, SegueTipado DEF GetVigiaTurnoFinalizar, Esta, TypeOK, ComTurno, Passo
  <1>3. ASSUME NEW t \in Turnos, RevogarLer(p, t)
        PROVE  TypeOK'
    BY <1>3, ComecaTipado DEF RevogarLer, Passo, ComTurno, TiposSenha
  <1>4. ASSUME NEW pin \in Pins, RevogarGravar(p, pin)
        PROVE  TypeOK'
    <2>1. proc[p].turno \in Turnos
      BY <1>4 DEF RevogarGravar, Esta, TypeOK, ComTurno, Passo
    <2>2. agora + ValidadePin \in Nat
      BY ConstantesOK DEF TypeOK
    <2> DEFINE linha == [turno[proc[p].turno] EXCEPT !.token = FALSE, !.device = NULL,
                            !.pin = pin, !.pinValidoAte = agora + ValidadePin]
    <2>3. linha \in Linha
      <3>1. turno[proc[p].turno] \in Linha
        BY <2>1 DEF TypeOK
      <3> QED BY <3>1, <2>2 DEF Linha
    <2>4. turno' = [turno EXCEPT ![proc[p].turno] = linha]
      BY <1>4 DEF RevogarGravar
    <2>5. turno' \in [Turnos -> Linha]
      BY <2>3, <2>4 DEF TypeOK
    <2> QED BY <1>4, <2>5, SegueTipado DEF RevogarGravar, Esta, TypeOK, ComTurno, Passo
  <1>5. ASSUME NEW t \in Turnos, NEW u \in Usuarios, NEW d \in Devices, NEW pin \in Pins,
               ReassociarLer(p, t, u, d, pin)
        PROVE  TypeOK'
    BY <1>5, ComecaTipado DEF ReassociarLer, Passo, ComTurno, TiposSenha
  <1>6. CASE ReassociarGravar(p)
    <2>1. proc[p].turno \in Turnos /\ proc[p].device \in Devices
      BY <1>6 DEF ReassociarGravar, Esta, TypeOK, ComTurno, Passo
    <2> DEFINE linha == [turno[proc[p].turno] EXCEPT !.token = TRUE,
                            !.device = proc[p].device, !.pin = NULL, !.pinValidoAte = NULL]
    <2>2. linha \in Linha
      <3>1. turno[proc[p].turno] \in Linha
        BY <2>1 DEF TypeOK
      <3> QED BY <3>1, <2>1 DEF Linha
    <2>3. turno' = [turno EXCEPT ![proc[p].turno] = linha]
      BY <1>6 DEF ReassociarGravar
    <2>4. turno' \in [Turnos -> Linha]
      BY <2>2, <2>3 DEF TypeOK
    <2>5. proc[p].pc \in ComTurno /\ Responde(p)
      BY <1>6 DEF ReassociarGravar, Esta, ComTurno, Passo
    <2>6. UNCHANGED <<dono, checkins, alertas, painel, agora, falhas>>
      BY <1>6 DEF ReassociarGravar
    <2>7. "rev_gravar" \in ComTurno \ {"rea_gravar"}
      BY DEF ComTurno, Passo
    <2>8. TypeOK
      OBVIOUS
    <2> HIDE DEF linha
    <2> QED BY <2>4, <2>5, <2>6, <2>7, <2>8, SegueTipado DEF TypeOK
  <1>7. CASE Abortar(p)
    <2>1. Livre \in Pedido /\ Livre.pc \notin ComTurno \cup {"ini_criar", "rea_gravar"}
      BY DEF Livre, Pedido, Passo, ComTurno, TiposSenha
    <2>2. proc' = [proc EXCEPT ![p] = Livre]
      BY <1>7 DEF Abortar, Responde
    <2>3. proc' \in [Procs -> Pedido]
      BY <2>1, <2>2 DEF TypeOK
    <2>4. \A q \in Procs : proc'[q] = IF q = p THEN Livre ELSE proc[q]
      BY <2>2 DEF TypeOK
    <2>5. falhas' \in Nat
      BY <1>7 DEF Abortar, TypeOK
    <2>6. ASSUME NEW q \in Procs
          PROVE  /\ proc'[q].pc \in ComTurno => proc'[q].turno \in Turnos
                 /\ proc'[q].pc = "ini_criar" =>
                       proc'[q].usuario \in Usuarios /\ proc'[q].device \in Devices
                 /\ proc'[q].pc = "rea_gravar" => proc'[q].device \in Devices
      <3>1. CASE q = p
        BY <3>1, <2>1, <2>4
      <3>2. CASE q # p
        BY <3>2, <2>4 DEF TypeOK
      <3> QED BY <3>1, <3>2
    <2>7. UNCHANGED <<turno, dono, checkins, alertas, painel, agora>>
      BY <1>7 DEF Abortar
    <2> QED BY <2>3, <2>5, <2>6, <2>7 DEF TypeOK
  <1> QED BY <1>1, <1>2, <1>3, <1>4, <1>5, <1>6, <1>7 DEF GetVigiaTurno, Revogar, Reassociar

\* The rest of the system.
LEMMA TypeAmbiente ==
    ASSUME TypeOK, Ambiente
    PROVE  TypeOK'
  <1>1. ASSUME NEW u \in Usuarios, NEW d \in Devices, RegisterBiometric(u, d)
        PROVE  TypeOK'
    BY <1>1 DEF RegisterBiometric, TypeOK
  <1>2. ASSUME NEW ds, Logout(ds)
        PROVE  TypeOK'
    BY <1>2 DEF Logout, TypeOK
  <1>3. ASSUME NEW t \in Turnos, NEW u \in Usuarios, NEW status \in DoWorker,
               NEW fim \in Duracoes, CriarTurnoDoWorker(t, u, status, fim)
        PROVE  TypeOK'
    <2>1. [Vaga EXCEPT !.status = status, !.usuario = u, !.fimPrevisto = fim] \in Linha
      BY ConstantesOK DEF Vaga, Linha, Status, Terminal, DoWorker
    <2> QED BY <1>3, <2>1 DEF CriarTurnoDoWorker, TypeOK
  <1>4. CASE Tique
    BY <1>4 DEF Tique, TypeOK
  <1> QED BY <1>1, <1>2, <1>3, <1>4 DEF Ambiente

LEMMA TypeStutter == TypeOK /\ UNCHANGED vars => TypeOK'
  BY DEF TypeOK, vars

LEMMA TypeNext == TypeOK /\ [Next]_vars => TypeOK'
  BY TypeIniciar, TypeCheckin, TypeFinalizar, TypeSabotagem, TypeSessao, TypeAmbiente,
     TypeStutter DEF Next

\* Every reachable state is well typed: the status is one the migrations' CHECK
\* admits, and a request that is past its reads works on a row of the table.
THEOREM TypeCorrect == Spec => []TypeOK
  BY TypeInit, TypeNext, PTL DEF Spec
-----------------------------------------------------------------------------
(***************************************************************************)
(* The life of one row.  What a step may do to a row depends on the guards *)
(* a request checked several steps earlier, so it needs Pendente: whatever *)
(* the other requests did meanwhile, the row is still one that was started.*)
(***************************************************************************)

Pendente ==
    \A p \in Procs : proc[p].pc \in ComTurno => turno[proc[p].turno].status \in Iniciado

\* A row starts, records an absence, changes status, loses or gets a session.
Nasce(t) ==
    /\ turno[t].status = "vago"
    /\ \E u \in Usuarios, d \in Devices, fim \in Nat :
          turno'[t] = [status |-> "em_andamento", usuario |-> u, token |-> TRUE,
                       device |-> d, pin |-> NULL, pinValidoAte |-> NULL,
                       fimPrevisto |-> fim, fimReal |-> NULL]

Ausenta(t) ==
    /\ turno[t].status = "vago"
    /\ \E u \in Usuarios, status \in DoWorker, fim \in Nat :
          turno'[t] = [Vaga EXCEPT !.status = status, !.usuario = u, !.fimPrevisto = fim]

Encerra(t) ==
    /\ turno[t].status \in Iniciado
    /\ \E fim \in Nat :
          turno'[t] = [turno[t] EXCEPT !.status = "finalizado", !.fimReal = fim]

Reabre(t) ==
    /\ turno[t].status \in Iniciado
    /\ turno'[t] = [turno[t] EXCEPT !.status = "critico", !.fimReal = NULL]

Solta(t) ==
    /\ turno[t].status \in Iniciado
    /\ \E pin \in Pins, ate \in Nat :
          turno'[t] = [turno[t] EXCEPT !.token = FALSE, !.device = NULL,
                                       !.pin = pin, !.pinValidoAte = ate]

Prende(t) ==
    /\ turno[t].status \in Iniciado
    /\ \E d \in Devices :
          turno'[t] = [turno[t] EXCEPT !.token = TRUE, !.device = d,
                                       !.pin = NULL, !.pinValidoAte = NULL]

Vive(t) ==
    \/ turno'[t] = turno[t]
    \/ Nasce(t) \/ Ausenta(t) \/ Encerra(t) \/ Reabre(t) \/ Solta(t) \/ Prende(t)

\* The steps that write the row of their request.
Escreve(p) ==
    \/ FinalizarStatus(p) \/ SabotagemStatus(p) \/ GetVigiaTurnoFinalizar(p)
    \/ (\E pin \in Pins : RevogarGravar(p, pin)) \/ ReassociarGravar(p)

\* Every other step leaves the table alone, or fills a free row.
LEMMA SoEscreve ==
    ASSUME [Next]_vars
    PROVE  \/ UNCHANGED turno
           \/ \E p \in Procs : Escreve(p)
           \/ \E p \in Procs, t \in Turnos, duracao \in Duracoes : IniciarCriar(p, t, duracao)
           \/ \E t \in Turnos, u \in Usuarios, status \in DoWorker, fim \in Duracoes :
                 CriarTurnoDoWorker(t, u, status, fim)
  <1>1. ASSUME NEW p \in Procs, Iniciar(p)
        PROVE  UNCHANGED turno \/ \E t \in Turnos, duracao \in Duracoes : IniciarCriar(p, t, duracao)
    BY <1>1 DEF Iniciar, IniciarLer, Comeca, IniciarEmitir, IniciarCheckin, IniciarDesvio
  <1>2. ASSUME NEW p \in Procs, Checkin(p)
        PROVE  UNCHANGED turno
    BY <1>2 DEF Checkin, CheckinLer, Comeca, CheckinGravar, CheckinAlertar
  <1>3. ASSUME NEW p \in Procs, Finalizar(p)
        PROVE  UNCHANGED turno \/ Escreve(p)
    BY <1>3 DEF Finalizar, FinalizarLer, Comeca, FinalizarGravar, FinalizarAlertar,
       FinalizarEmitir, Escreve
  <1>4. ASSUME NEW p \in Procs, Sabotagem(p)
        PROVE  UNCHANGED turno \/ Escreve(p)
    BY <1>4 DEF Sabotagem, SabotagemLer, Comeca, SabotagemEmitir, SabotagemAlertar, Escreve
  <1>5. ASSUME NEW p \in Procs, GetVigiaTurno(p) \/ Revogar(p) \/ Reassociar(p) \/ Abortar(p)
        PROVE  UNCHANGED turno \/ Escreve(p)
    BY <1>5 DEF GetVigiaTurno, GetVigiaTurnoLer, Revogar, RevogarLer, Reassociar, ReassociarLer,
       Comeca, Abortar, Escreve
  <1>6. CASE Ambiente
    BY <1>6 DEF Ambiente, RegisterBiometric, Logout, Tique
  <1>7. CASE UNCHANGED vars
    BY <1>7 DEF vars
  <1> QED BY <1>1, <1>2, <1>3, <1>4, <1>5, <1>6, <1>7 DEF Next

\* A step of a request that writes does so on its own, started, row.
LEMMA EscreveSeu ==
    ASSUME TypeOK, Pendente, NEW p \in Procs, Escreve(p)
    PROVE  /\ proc[p].turno \in Turnos
           /\ turno[proc[p].turno].status \in Iniciado
           /\ \A t \in Turnos \ {proc[p].turno} : turno'[t] = turno[t]
           /\ \/ turno'[proc[p].turno] = turno[proc[p].turno]
              \/ Encerra(proc[p].turno) \/ Reabre(proc[p].turno)
              \/ Solta(proc[p].turno) \/ Prende(proc[p].turno)
  <1> DEFINE t == proc[p].turno
  <1>1. proc[p].pc \in ComTurno
    BY DEF Escreve, FinalizarStatus, SabotagemStatus, GetVigiaTurnoFinalizar, RevogarGravar,
       ReassociarGravar, Esta, ComTurno, Passo
  <1>2. t \in Turnos /\ turno[t].status \in Iniciado /\ turno[t] \in Linha
    BY <1>1 DEF TypeOK, Pendente
  <1>3. CASE FinalizarStatus(p) \/ GetVigiaTurnoFinalizar(p)
    <2>1. turno' = [turno EXCEPT ![t] = [turno[t] EXCEPT !.status = "finalizado", !.fimReal = agora]]
      BY <1>3 DEF FinalizarStatus, GetVigiaTurnoFinalizar, UpdateStatus
    <2> HIDE DEF t
    <2>2. /\ \A x \in Turnos \ {t} : turno'[x] = turno[x]
          /\ turno'[t] = [turno[t] EXCEPT !.status = "finalizado", !.fimReal = agora]
      BY <1>2, <2>1 DEF TypeOK
    <2>3. Encerra(t)
      BY <1>2, <2>2 DEF Encerra, TypeOK
    <2> QED BY <1>2, <2>2, <2>3 DEF t
  <1>4. CASE SabotagemStatus(p) /\ ~UNCHANGED turno
    <2>1. turno' = [turno EXCEPT ![t] = [turno[t] EXCEPT !.status = "critico", !.fimReal = NULL]]
      BY <1>4 DEF SabotagemStatus, UpdateStatus
    <2> HIDE DEF t
    <2>2. /\ \A x \in Turnos \ {t} : turno'[x] = turno[x]
          /\ turno'[t] = [turno[t] EXCEPT !.status = "critico", !.fimReal = NULL]
      BY <1>2, <2>1 DEF TypeOK
    <2> QED BY <1>2, <2>2 DEF t, Reabre
  <1>5. ASSUME NEW pin \in Pins, RevogarGravar(p, pin)
        PROVE  /\ \A x \in Turnos \ {t} : turno'[x] = turno[x]
               /\ Solta(t)
    <2>1. turno' = [turno EXCEPT ![t] = [turno[t] EXCEPT !.token = FALSE, !.device = NULL,
                       !.pin = pin, !.pinValidoAte = agora + ValidadePin]]
      BY <1>5 DEF RevogarGravar
    <2> HIDE DEF t
    <2>2. agora + ValidadePin \in Nat
      BY ConstantesOK DEF TypeOK
    <2>3. /\ \A x \in Turnos \ {t} : turno'[x] = turno[x]
          /\ turno'[t] = [turno[t] EXCEPT !.token = FALSE, !.device = NULL,
                       !.pin = pin, !.pinValidoAte = agora + ValidadePin]
      BY <1>2, <2>1 DEF TypeOK
    <2> QED BY <1>2, <2>2, <2>3 DEF Solta
  <1>6. CASE ReassociarGravar(p)
    <2> DEFINE d == proc[p].device
    <2>1. turno' = [turno EXCEPT ![t] = [turno[t] EXCEPT !.token = TRUE, !.device = d,
                       !.pin = NULL, !.pinValidoAte = NULL]]
      BY <1>6 DEF ReassociarGravar
    <2>2. d \in Devices
      BY <1>6 DEF ReassociarGravar, Esta, TypeOK
    <2> HIDE DEF t, d
    <2>3. /\ \A x \in Turnos \ {t} : turno'[x] = turno[x]
          /\ turno'[t] = [turno[t] EXCEPT !.token = TRUE, !.device = d,
                       !.pin = NULL, !.pinValidoAte = NULL]
      BY <1>2, <2>1 DEF TypeOK
    <2> QED BY <1>2, <2>2, <2>3 DEF t, Prende
  <1>7. CASE UNCHANGED turno
    BY <1>2, <1>7
  <1>8. CASE SabotagemStatus(p)
    BY <1>4, <1>7, <1>8
  <1>9. CASE \E pin \in Pins : RevogarGravar(p, pin)
    <2>1. (\A x \in Turnos \ {t} : turno'[x] = turno[x]) /\ Solta(t)
      BY <1>5, <1>9
    <2> QED BY <1>2, <2>1
  <1>10. \/ FinalizarStatus(p) \/ GetVigiaTurnoFinalizar(p)
         \/ SabotagemStatus(p)
         \/ \E pin \in Pins : RevogarGravar(p, pin)
         \/ ReassociarGravar(p)
    BY Zenon DEF Escreve
  <1> HIDE DEF t
  <1> QED BY <1>3, <1>6, <1>8, <1>9, <1>10

\* Every step is one of these on every row.
LEMMA VidaDaLinha ==
    ASSUME TypeOK, Pendente, [Next]_vars
    PROVE  \A t \in Turnos : Vive(t)
  <1>1. CASE UNCHANGED turno
    BY <1>1 DEF Vive
  <1>2. ASSUME NEW p \in Procs, Escreve(p)
        PROVE  \A t \in Turnos : Vive(t)
    <2>1. /\ \A t \in Turnos \ {proc[p].turno} : turno'[t] = turno[t]
          /\ Vive(proc[p].turno)
      BY <1>2, EscreveSeu DEF Vive
    <2>2. \A t \in Turnos \ {proc[p].turno} : Vive(t)
      BY <2>1 DEF Vive
    <2> QED BY <2>1, <2>2
  <1>3. ASSUME NEW p \in Procs, NEW t \in Turnos, NEW duracao \in Duracoes,
               IniciarCriar(p, t, duracao)
        PROVE  \A x \in Turnos : Vive(x)
    <2>1. /\ proc[p].usuario \in Usuarios /\ proc[p].device \in Devices
          /\ agora + duracao \in Nat
      BY <1>3, ConstantesOK DEF IniciarCriar, Esta, TypeOK
    <2>2. Nasce(t)
      BY <1>3, <2>1 DEF IniciarCriar, Nasce, TypeOK
    <2>3. \A x \in Turnos \ {t} : turno'[x] = turno[x]
      BY <1>3 DEF IniciarCriar, TypeOK
    <2> QED BY <2>2, <2>3 DEF Vive
  <1>4. ASSUME NEW t \in Turnos, NEW u \in Usuarios, NEW status \in DoWorker,
               NEW fim \in Duracoes, CriarTurnoDoWorker(t, u, status, fim)
        PROVE  \A x \in Turnos : Vive(x)
    <2>1. fim \in Nat
      BY ConstantesOK
    <2>2. Ausenta(t)
      BY <1>4, <2>1 DEF CriarTurnoDoWorker, Ausenta, TypeOK
    <2>3. \A x \in Turnos \ {t} : turno'[x] = turno[x]
      BY <1>4 DEF CriarTurnoDoWorker, TypeOK
    <2> QED BY <2>2, <2>3 DEF Vive
  <1> QED BY <1>1, <1>2, <1>3, <1>4, SoEscreve

\* A request in progress keeps its row, or it fixes one that is started.
LEMMA LinhaDoPedido ==
    ASSUME TypeOK, Pendente, [Next]_vars, NEW q \in Procs, proc'[q].pc \in ComTurno
    PROVE  \/ proc[q].pc \in ComTurno /\ proc'[q].turno = proc[q].turno
           \/ proc'[q].turno \in Turnos /\ turno[proc'[q].turno].status \in Iniciado
           \/ \E t \in Turnos, duracao \in Duracoes :
                 IniciarCriar(q, t, duracao) /\ proc'[q].turno = t
  <1> DEFINE Fica == proc[q].pc \in ComTurno /\ proc'[q].turno = proc[q].turno
             Fixa == \E t \in Turnos : proc'[q].turno = t /\ turno[t].status \in Iniciado
             Cria == \E t \in Turnos, duracao \in Duracoes :
                        IniciarCriar(q, t, duracao) /\ proc'[q].turno = t
  <1>1. ASSUME NEW p \in Procs, NEW passo \in ComTurno, proc[p].pc \in ComTurno,
               Segue(p, passo) \/ Responde(p)
        PROVE  Fica
    <2>1. Livre.pc \notin ComTurno
      BY DEF Livre, ComTurno
    <2> QED BY <1>1, <2>1 DEF Segue, Responde, TypeOK, Pedido
  <1>2. ASSUME NEW p \in Procs, NEW t \in Turnos, NEW u, NEW d, NEW s, NEW fora,
               NEW passo, turno[t].status \in Iniciado, Comeca(p, passo, t, u, d, s, fora)
        PROVE  Fica \/ Fixa
    <2>1. CASE p = q
      BY <1>2, <2>1 DEF Comeca, TypeOK
    <2>2. CASE p # q
      BY <1>2, <2>2 DEF Comeca, TypeOK
    <2> QED BY <2>1, <2>2
  <1>3. \A t \in Turnos : \A u, d :
           PodeAgir(t, u, d) => turno[t].status \in Iniciado
    BY DEF PodeAgir, Terminal, Iniciado, TypeOK, Linha, Status
  <1>4. \A t \in Turnos : \A u : t \in Ativos(u) => turno[t].status \in Iniciado
    BY DEF Ativos, Iniciado
  <1>5. ASSUME NEW p \in Procs, Iniciar(p)
        PROVE  Fica \/ Cria
    <2>1. ASSUME NEW u \in Usuarios, NEW d \in Devices, NEW s \in Senhas, NEW fora \in Desvios,
                 IniciarLer(p, u, d, s, fora)
          PROVE  Fica
      <3>1. "ini_criar" \notin ComTurno
        BY DEF ComTurno
      <3> QED BY <2>1, <3>1 DEF IniciarLer, Comeca, TypeOK
    <2>2. ASSUME NEW t \in Turnos, NEW duracao \in Duracoes, IniciarCriar(p, t, duracao)
          PROVE  Fica \/ Cria
      <3>1. CASE p = q
        <4>1. proc'[q].turno = t
          BY <2>2, <3>1 DEF IniciarCriar, TypeOK, Pedido
        <4> QED BY <2>2, <3>1, <4>1
      <3>2. CASE p # q
        BY <2>2, <3>2 DEF IniciarCriar, TypeOK
      <3> QED BY <3>1, <3>2
    <2>3. CASE IniciarEmitir(p) \/ IniciarCheckin(p) \/ IniciarDesvio(p)
      BY <1>1, <2>3 DEF IniciarEmitir, IniciarCheckin, IniciarDesvio, Esta, ComTurno, Passo
    <2> QED BY <1>5, <2>1, <2>2, <2>3 DEF Iniciar
  <1>6. ASSUME NEW p \in Procs, Checkin(p)
        PROVE  Fica \/ Fixa
    <2>1. ASSUME NEW t \in Turnos, NEW u \in Usuarios, NEW d \in Devices, NEW s \in Senhas,
                 NEW fora \in Desvios, CheckinLer(p, t, u, d, s, fora)
          PROVE  Fica \/ Fixa
      BY <1>2, <1>3, <2>1 DEF CheckinLer
    <2>2. CASE CheckinGravar(p) \/ CheckinAlertar(p)
      BY <1>1, <2>2 DEF CheckinGravar, CheckinAlertar, Esta, ComTurno, Passo
    <2> QED BY <1>6, <2>1, <2>2 DEF Checkin
  <1>7. ASSUME NEW p \in Procs, Finalizar(p)
        PROVE  Fica \/ Fixa
    <2>1. ASSUME NEW t \in Turnos, NEW u \in Usuarios, NEW d \in Devices, NEW s \in Senhas,
                 NEW fora \in Desvios, NEW ts, FinalizarLer(p, t, u, d, s, fora, ts)
          PROVE  Fica \/ Fixa
      BY <1>2, <1>3, <2>1 DEF FinalizarLer
    <2>2. CASE \/ FinalizarGravar(p) \/ FinalizarAlertar(p)
               \/ FinalizarStatus(p) \/ FinalizarEmitir(p)
      BY <1>1, <2>2 DEF FinalizarGravar, FinalizarAlertar, FinalizarStatus, FinalizarEmitir,
         Esta, ComTurno, Passo
    <2> QED BY <1>7, <2>1, <2>2 DEF Finalizar
  <1>8. ASSUME NEW p \in Procs, Sabotagem(p)
        PROVE  Fica \/ Fixa
    <2>1. ASSUME NEW t \in Turnos, NEW u \in Usuarios, NEW d \in Devices, SabotagemLer(p, t, u, d)
          PROVE  Fica \/ Fixa
      BY <1>2, <1>3, <2>1 DEF SabotagemLer
    <2>2. CASE SabotagemStatus(p) \/ SabotagemEmitir(p) \/ SabotagemAlertar(p)
      BY <1>1, <2>2 DEF SabotagemStatus, SabotagemEmitir, SabotagemAlertar, Esta, ComTurno, Passo
    <2> QED BY <1>8, <2>1, <2>2 DEF Sabotagem
  <1>9. ASSUME NEW p \in Procs, GetVigiaTurno(p) \/ Revogar(p) \/ Reassociar(p)
        PROVE  Fica \/ Fixa
    <2>1. ASSUME NEW t \in Turnos, NEW u \in Usuarios, GetVigiaTurnoLer(p, t, u)
          PROVE  Fica \/ Fixa
      BY <1>2, <1>4, <2>1 DEF GetVigiaTurnoLer
    <2>2. ASSUME NEW t \in Turnos, RevogarLer(p, t)
          PROVE  Fica \/ Fixa
      <3>1. turno[t].status \in Iniciado
        BY <2>2 DEF RevogarLer, Terminal, Iniciado, TypeOK, Linha, Status
      <3> QED BY <1>2, <2>2, <3>1 DEF RevogarLer
    <2>3. ASSUME NEW t \in Turnos, NEW u \in Usuarios, NEW d \in Devices, NEW pin \in Pins,
                 ReassociarLer(p, t, u, d, pin)
          PROVE  Fica \/ Fixa
      BY <1>2, <1>4, <2>3 DEF ReassociarLer
    <2>4. CASE GetVigiaTurnoFinalizar(p) \/ ReassociarGravar(p)
      BY <1>1, <2>4 DEF GetVigiaTurnoFinalizar, ReassociarGravar, Esta, ComTurno, Passo
    <2>5. ASSUME NEW pin \in Pins, RevogarGravar(p, pin)
          PROVE  Fica
      BY <1>1, <2>5 DEF RevogarGravar, Esta, ComTurno, Passo
    <2> QED BY <1>9, <2>1, <2>2, <2>3, <2>4, <2>5 DEF GetVigiaTurno, Revogar, Reassociar
  <1>10. ASSUME NEW p \in Procs, Abortar(p)
         PROVE  Fica
    BY <1>10 DEF Abortar, Responde, Livre, ComTurno, TypeOK
  <1>11. ASSUME Ambiente \/ UNCHANGED vars
         PROVE  Fica
    BY <1>11 DEF Ambiente, RegisterBiometric, Logout, CriarTurnoDoWorker, Tique, vars
  <1> HIDE DEF Fica, Fixa, Cria
  <1>12. Fica \/ Fixa \/ Cria
    <2>1. CASE \E p \in Procs :
                  \/ Iniciar(p) \/ Checkin(p) \/ Finalizar(p) \/ Sabotagem(p)
                  \/ GetVigiaTurno(p) \/ Revogar(p) \/ Reassociar(p) \/ Abortar(p)
      BY <1>5, <1>6, <1>7, <1>8, <1>9, <1>10, <2>1
    <2>2. CASE Ambiente \/ UNCHANGED vars
      BY <1>11, <2>2
    <2> QED BY <2>1, <2>2 DEF Next
  <1> QED BY <1>12 DEF Fica, Fixa, Cria

LEMMA PendenteInit == Init => Pendente
  BY DEF Init, Pendente, Livre, ComTurno

LEMMA PendenteNext ==
    ASSUME TypeOK, Pendente, [Next]_vars
    PROVE  Pendente'
  <1>1. \A t \in Turnos : turno[t].status \in Iniciado => turno'[t].status \in Iniciado
    <2>1. SUFFICES ASSUME NEW t \in Turnos, turno[t].status \in Iniciado
                   PROVE  turno'[t].status \in Iniciado
      OBVIOUS
    <2>2. Vive(t) /\ turno[t] \in Linha /\ turno[t].status # "vago"
      BY <2>1, VidaDaLinha DEF TypeOK, Iniciado, Ativo
    <2> QED BY ZenonT(60), <2>1, <2>2 DEF Vive, Nasce, Ausenta, Encerra, Reabre, Solta, Prende, Linha,
               Iniciado, Ativo
  <1>2. ASSUME NEW q \in Procs, proc'[q].pc \in ComTurno
        PROVE  turno'[proc'[q].turno].status \in Iniciado
    <2>1. CASE proc[q].pc \in ComTurno /\ proc'[q].turno = proc[q].turno
      <3>1. proc[q].turno \in Turnos /\ turno[proc[q].turno].status \in Iniciado
        BY <2>1 DEF TypeOK, Pendente
      <3> QED BY <1>1, <2>1, <3>1
    <2>2. CASE proc'[q].turno \in Turnos /\ turno[proc'[q].turno].status \in Iniciado
      BY <1>1, <2>2
    <2>3. ASSUME NEW t \in Turnos, NEW duracao \in Duracoes,
                 IniciarCriar(q, t, duracao), proc'[q].turno = t
          PROVE  turno'[proc'[q].turno].status \in Iniciado
      BY <2>3 DEF IniciarCriar, TypeOK, Iniciado, Ativo
    <2> QED BY <1>2, <2>1, <2>2, <2>3, LinhaDoPedido
  <1> QED BY <1>2 DEF Pendente

\* A request past its reads always works on a shift that was started.
THEOREM PendenteCorrect == Spec => []Pendente
  <1>1. Init => TypeOK /\ Pendente
    BY TypeInit, PendenteInit
  <1>2. (TypeOK /\ Pendente) /\ [Next]_vars => (TypeOK /\ Pendente)'
    BY TypeNext, PendenteNext
  <1> QED BY <1>1, <1>2, PTL DEF Spec
-----------------------------------------------------------------------------
(***************************************************************************)
(* What follows from the life of a row.                                    *)
(***************************************************************************)

LEMMA SessaoInit == Init => SessaoCoerente
  BY DEF Init, SessaoCoerente, Vaga, Iniciado, Ativo

LEMMA SessaoNext ==
    ASSUME TypeOK, Pendente, SessaoCoerente, [Next]_vars
    PROVE  SessaoCoerente'
  <1>1. SUFFICES ASSUME NEW t \in Turnos
                 PROVE  /\ turno'[t].token <=> turno'[t].device # NULL
                        /\ turno'[t].pin = NULL <=> turno'[t].pinValidoAte = NULL
                        /\ turno'[t].status \in Iniciado =>
                              (turno'[t].token <=> turno'[t].pin = NULL)
                        /\ turno'[t].status \notin Iniciado => turno'[t].pin = NULL
    BY DEF SessaoCoerente
  <1>2. /\ turno[t] \in Linha
        /\ turno[t].token <=> turno[t].device # NULL
        /\ turno[t].pin = NULL <=> turno[t].pinValidoAte = NULL
        /\ turno[t].status \in Iniciado => (turno[t].token <=> turno[t].pin = NULL)
        /\ turno[t].status \notin Iniciado => turno[t].pin = NULL
    BY DEF SessaoCoerente, TypeOK
  <1>3. \A x : x \in Devices \cup Pins \cup Nat => x # NULL
    BY ConstantesOK
  <1>4. Vive(t)
    BY VidaDaLinha
  <1>5. CASE turno'[t] = turno[t]
    BY <1>2, <1>5
  <1>6. CASE Nasce(t)
    BY <1>3, <1>6 DEF Nasce
  <1>7. CASE Ausenta(t)
    BY <1>7 DEF Ausenta, Vaga, DoWorker, Iniciado, Ativo
  <1>8. CASE Encerra(t) \/ Reabre(t)
    BY <1>2, <1>8 DEF Encerra, Reabre, Linha, Iniciado, Ativo
  <1>9. CASE Solta(t)
    BY <1>2, <1>3, <1>9 DEF Solta, Linha
  <1>10. CASE Prende(t)
    BY <1>2, <1>3, <1>10 DEF Prende, Linha
  <1> QED BY <1>4, <1>5, <1>6, <1>7, <1>8, <1>9, <1>10 DEF Vive

\* The columns of a session agree on every row, whatever requests overlap.
THEOREM SessaoCorrect == Spec => []SessaoCoerente
  <1>1. Init => SessaoCoerente
    BY SessaoInit
  <1>2. TypeOK /\ Pendente /\ SessaoCoerente /\ [Next]_vars => SessaoCoerente'
    BY SessaoNext
  <1> QED BY <1>1, <1>2, TypeCorrect, PendenteCorrect, PTL DEF Spec

LEMMA FimRealInit == Init => FimRealSoFinalizado
  BY DEF Init, FimRealSoFinalizado, Vaga

LEMMA FimRealNext ==
    ASSUME TypeOK, Pendente, FimRealSoFinalizado, [Next]_vars
    PROVE  FimRealSoFinalizado'
  <1>1. SUFFICES ASSUME NEW t \in Turnos
                 PROVE  turno'[t].fimReal # NULL <=> turno'[t].status = "finalizado"
    BY DEF FimRealSoFinalizado
  <1>2. /\ turno[t] \in Linha
        /\ turno[t].fimReal # NULL <=> turno[t].status = "finalizado"
        /\ \A n \in Nat : n # NULL
    BY ConstantesOK DEF FimRealSoFinalizado, TypeOK
  <1>3. Vive(t)
    BY VidaDaLinha
  <1>4. CASE turno'[t] = turno[t]
    BY <1>2, <1>4
  <1>5. CASE Nasce(t)
    BY <1>5 DEF Nasce
  <1>6. CASE Ausenta(t)
    BY <1>6 DEF Ausenta, Vaga, DoWorker
  <1>7. CASE Encerra(t) \/ Reabre(t)
    BY <1>2, <1>7 DEF Encerra, Reabre, Linha
  <1>8. CASE Solta(t) \/ Prende(t)
    BY <1>2, <1>8 DEF Solta, Prende, Linha
  <1> QED BY <1>3, <1>4, <1>5, <1>6, <1>7, <1>8 DEF Vive

\* A shift has an end time exactly while it is finished.
THEOREM FimRealCorrect == Spec => []FimRealSoFinalizado
  <1>1. Init => FimRealSoFinalizado
    BY FimRealInit
  <1>2. TypeOK /\ Pendente /\ FimRealSoFinalizado /\ [Next]_vars => FimRealSoFinalizado'
    BY FimRealNext
  <1> QED BY <1>1, <1>2, TypeCorrect, PendenteCorrect, PTL DEF Spec

LEMMA AusenciaNext ==
    ASSUME TypeOK, Pendente, [Next]_vars, NEW t \in Turnos, turno[t].status \in DoWorker
    PROVE  UNCHANGED <<turno[t], checkins[t], alertas[t], painel[t]>>
  <1>1. turno'[t] = turno[t]
    <2>1. turno[t].status \notin Iniciado /\ turno[t].status # "vago" /\ Vive(t)
      BY VidaDaLinha DEF DoWorker, Iniciado, Ativo
    <2> QED BY <2>1 DEF Vive, Nasce, Ausenta, Encerra, Reabre, Solta, Prende
  <1>2. \A p \in Procs : proc[p].pc \in ComTurno => proc[p].turno # t
    BY DEF Pendente, DoWorker, Iniciado, Ativo
  <1>3. ASSUME NEW p \in Procs, proc[p].pc \in ComTurno,
               NEW ev, NEW s, Gravar(proc[p].turno, ev, s)
        PROVE  checkins'[t] = checkins[t]
    BY <1>2, <1>3 DEF Gravar, TypeOK
  <1>4. ASSUME NEW p \in Procs, proc[p].pc \in ComTurno,
               NEW st, Broadcast(proc[p].turno, st)
        PROVE  painel'[t] = painel[t]
    BY <1>2, <1>4 DEF Broadcast, TypeOK
  <1>5. ASSUME NEW p \in Procs, proc[p].pc \in ComTurno,
               NEW ks, CriarAlertas(proc[p].turno, ks)
        PROVE  alertas'[t] = alertas[t]
    BY <1>2, <1>5 DEF CriarAlertas, TypeOK
  <1>6. ASSUME NEW p \in Procs, Iniciar(p)
        PROVE  UNCHANGED <<checkins[t], alertas[t], painel[t]>>
    <2>1. CASE IniciarEmitir(p)
      <3>1. proc[p].pc \in ComTurno
        BY <2>1 DEF IniciarEmitir, Esta, ComTurno, Passo
      <3>2. painel'[t] = painel[t]
        BY <1>4, <2>1, <3>1 DEF IniciarEmitir
      <3>3. alertas'[t] = alertas[t]
        BY <1>5, <2>1, <3>1 DEF IniciarEmitir
      <3> QED BY <2>1, <3>2, <3>3 DEF IniciarEmitir
    <2>2. CASE IniciarCheckin(p)
      <3>1. checkins'[t] = checkins[t]
        BY <1>3, <2>2 DEF IniciarCheckin, Esta, ComTurno, Passo
      <3> QED BY <2>2, <3>1 DEF IniciarCheckin
    <2>3. CASE IniciarDesvio(p)
      <3>1. alertas'[t] = alertas[t]
        BY <1>5, <2>3 DEF IniciarDesvio, Esta, ComTurno, Passo
      <3> QED BY <2>3, <3>1 DEF IniciarDesvio
    <2> QED BY <1>6, <2>1, <2>2, <2>3 DEF Iniciar, IniciarLer, Comeca, IniciarCriar
  <1>7. ASSUME NEW p \in Procs, Checkin(p)
        PROVE  UNCHANGED <<checkins[t], alertas[t], painel[t]>>
    <2>1. CASE CheckinGravar(p)
      <3>1. checkins'[t] = checkins[t]
        BY <1>3, <2>1 DEF CheckinGravar, Esta, ComTurno, Passo
      <3> QED BY <2>1, <3>1 DEF CheckinGravar
    <2>2. CASE CheckinAlertar(p)
      <3>1. alertas'[t] = alertas[t]
        BY <1>5, <2>2 DEF CheckinAlertar, Esta, ComTurno, Passo
      <3> QED BY <2>2, <3>1 DEF CheckinAlertar
    <2> QED BY <1>7, <2>1, <2>2 DEF Checkin, CheckinLer, Comeca
  <1>8. ASSUME NEW p \in Procs, Finalizar(p)
        PROVE  UNCHANGED <<checkins[t], alertas[t], painel[t]>>
    <2>1. CASE FinalizarGravar(p)
      <3>1. checkins'[t] = checkins[t]
        BY <1>3, <2>1 DEF FinalizarGravar, Esta, ComTurno, Passo
      <3> QED BY <2>1, <3>1 DEF FinalizarGravar
    <2>2. CASE FinalizarAlertar(p)
      <3>1. alertas'[t] = alertas[t]
        BY <1>5, <2>2 DEF FinalizarAlertar, Esta, ComTurno, Passo
      <3> QED BY <2>2, <3>1 DEF FinalizarAlertar
    <2>3. CASE FinalizarEmitir(p)
      <3>1. painel'[t] = painel[t]
        BY <1>4, <2>3 DEF FinalizarEmitir, Esta, ComTurno, Passo
      <3> QED BY <2>3, <3>1 DEF FinalizarEmitir
    <2> QED BY <1>8, <2>1, <2>2, <2>3 DEF Finalizar, FinalizarLer, Comeca, FinalizarStatus
  <1>9. ASSUME NEW p \in Procs, Sabotagem(p)
        PROVE  UNCHANGED <<checkins[t], alertas[t], painel[t]>>
    <2>1. CASE SabotagemEmitir(p)
      <3>1. proc[p].pc \in ComTurno
        BY <2>1 DEF SabotagemEmitir, Esta, ComTurno, Passo
      <3>2. painel'[t] = painel[t]
        BY <1>4, <2>1, <3>1 DEF SabotagemEmitir
      <3>3. checkins'[t] = checkins[t]
        BY <1>3, <2>1, <3>1 DEF SabotagemEmitir
      <3> QED BY <2>1, <3>2, <3>3 DEF SabotagemEmitir
    <2>2. CASE SabotagemAlertar(p)
      <3>1. alertas'[t] = alertas[t]
        BY <1>5, <2>2 DEF SabotagemAlertar, Esta, ComTurno, Passo
      <3> QED BY <2>2, <3>1 DEF SabotagemAlertar
    <2> QED BY <1>9, <2>1, <2>2 DEF Sabotagem, SabotagemLer, Comeca, SabotagemStatus
  <1>10. ASSUME NEW p \in Procs, GetVigiaTurno(p) \/ Revogar(p) \/ Reassociar(p) \/ Abortar(p)
         PROVE  UNCHANGED <<checkins[t], alertas[t], painel[t]>>
    BY <1>10 DEF GetVigiaTurno, GetVigiaTurnoLer, GetVigiaTurnoFinalizar, Revogar, RevogarLer,
       RevogarGravar, Reassociar, ReassociarLer, ReassociarGravar, Abortar, Comeca
  <1>11. ASSUME Ambiente \/ UNCHANGED vars
         PROVE  UNCHANGED <<checkins[t], alertas[t], painel[t]>>
    BY <1>11 DEF Ambiente, RegisterBiometric, Logout, CriarTurnoDoWorker, Tique, vars
  <1>12. UNCHANGED <<checkins[t], alertas[t], painel[t]>>
    <2>1. CASE \E p \in Procs :
                  \/ Iniciar(p) \/ Checkin(p) \/ Finalizar(p) \/ Sabotagem(p)
                  \/ GetVigiaTurno(p) \/ Revogar(p) \/ Reassociar(p) \/ Abortar(p)
      BY <1>6, <1>7, <1>8, <1>9, <1>10, <2>1
    <2>2. CASE Ambiente \/ UNCHANGED vars
      BY <1>11, <2>2
    <2> QED BY <2>1, <2>2 DEF Next
  <1> QED BY <1>1, <1>12

\* An absence recorded by a worker is never touched again.
THEOREM AusenciaCorrect == Spec => AusenciaCongelada
  <1>1. TypeOK /\ Pendente /\ [Next]_vars =>
           [\A t \in Turnos :
               turno[t].status \in DoWorker =>
                  UNCHANGED <<turno[t], checkins[t], alertas[t], painel[t]>>]_vars
    BY AusenciaNext
  <1> QED BY <1>1, TypeCorrect, PendenteCorrect, PTL DEF Spec, AusenciaCongelada
-----------------------------------------------------------------------------
(***************************************************************************)
(* The refinement.  Each step is, on the row it touches, one of the ways a *)
(* row lives, and these are the actions of Plantao; a step that leaves the *)
(* rows alone may note something of the started shift its request is about.*)
(***************************************************************************)

\* One row changes at a time, in one of the ways of Vive.
LEMMA UmaLinha ==
    ASSUME TypeOK, Pendente, [Next]_vars
    PROVE  \/ turno' = turno
           \/ \E t \in Turnos :
                 /\ \A x \in Turnos \ {t} : turno'[x] = turno[x]
                 /\ Nasce(t) \/ Ausenta(t) \/ Encerra(t) \/ Reabre(t) \/ Solta(t) \/ Prende(t)
                 /\ UNCHANGED <<checkins, alertas, painel>>
  <1> DEFINE Vivida(t) ==
               Nasce(t) \/ Ausenta(t) \/ Encerra(t) \/ Reabre(t) \/ Solta(t) \/ Prende(t)
             So(t) == \A x \in Turnos \ {t} : turno'[x] = turno[x]
  <1>1. ASSUME NEW p \in Procs, Escreve(p), turno' # turno
        PROVE  /\ proc[p].turno \in Turnos /\ So(proc[p].turno) /\ Vivida(proc[p].turno)
               /\ UNCHANGED <<checkins, alertas, painel>>
    <2>1. UNCHANGED <<checkins, alertas, painel>>
      BY <1>1 DEF Escreve, FinalizarStatus, SabotagemStatus, GetVigiaTurnoFinalizar,
         RevogarGravar, ReassociarGravar
    <2>2. turno'[proc[p].turno] # turno[proc[p].turno]
      <3>1. turno \in [Turnos -> Linha] /\ turno' \in [Turnos -> Linha]
        BY TypeNext DEF TypeOK
      <3>2. \A x \in Turnos \ {proc[p].turno} : turno'[x] = turno[x]
        BY <1>1, EscreveSeu
      <3> QED BY <1>1, <3>1, <3>2
    <2> QED BY <1>1, <2>1, <2>2, EscreveSeu
  <1>2. ASSUME NEW p \in Procs, NEW t \in Turnos, NEW duracao \in Duracoes,
               IniciarCriar(p, t, duracao)
        PROVE  So(t) /\ Vivida(t) /\ UNCHANGED <<checkins, alertas, painel>>
    <2>1. So(t) /\ UNCHANGED <<checkins, alertas, painel>>
      BY <1>2 DEF IniciarCriar, TypeOK
    <2>2. /\ proc[p].usuario \in Usuarios /\ proc[p].device \in Devices
          /\ agora + duracao \in Nat
      BY <1>2, ConstantesOK DEF IniciarCriar, Esta, TypeOK
    <2>3. Nasce(t)
      BY <1>2, <2>2 DEF IniciarCriar, Nasce, TypeOK
    <2> QED BY <2>1, <2>3
  <1>3. ASSUME NEW t \in Turnos, NEW u \in Usuarios, NEW status \in DoWorker,
               NEW fim \in Duracoes, CriarTurnoDoWorker(t, u, status, fim)
        PROVE  So(t) /\ Vivida(t) /\ UNCHANGED <<checkins, alertas, painel>>
    <2>1. So(t) /\ UNCHANGED <<checkins, alertas, painel>>
      BY <1>3 DEF CriarTurnoDoWorker, TypeOK
    <2>2. Ausenta(t)
      BY <1>3, ConstantesOK DEF CriarTurnoDoWorker, Ausenta, TypeOK
    <2> QED BY <2>1, <2>2
  <1> HIDE DEF Vivida, So
  <1>4. turno' = turno \/ \E t \in Turnos : So(t) /\ Vivida(t) /\ UNCHANGED <<checkins, alertas, painel>>
    BY <1>1, <1>2, <1>3, SoEscreve
  <1> QED BY <1>4 DEF Vivida, So

\* What a step notes, it notes of the started shift its request is about.
LEMMA SoMarca ==
    ASSUME TypeOK, Pendente, [Next]_vars
    PROVE  \/ UNCHANGED <<checkins, alertas, painel>>
           \/ \E t \in Turnos :
                 /\ turno[t].status \in Iniciado
                 /\ \A x \in Turnos \ {t} : UNCHANGED <<checkins[x], alertas[x], painel[x]>>
  <1> DEFINE Nada == UNCHANGED <<checkins, alertas, painel>>
             So(t) == \A x \in Turnos \ {t} : UNCHANGED <<checkins[x], alertas[x], painel[x]>>
  <1>1. ASSUME NEW p \in Procs, proc[p].pc \in ComTurno,
               \/ UNCHANGED checkins
               \/ \E ev, s : Gravar(proc[p].turno, ev, s),
               \/ UNCHANGED alertas
               \/ \E ks : CriarAlertas(proc[p].turno, ks),
               \/ UNCHANGED painel
               \/ \E st : Broadcast(proc[p].turno, st)
        PROVE  \E t \in Turnos : turno[t].status \in Iniciado /\ So(t)
    <2>1. proc[p].turno \in Turnos /\ turno[proc[p].turno].status \in Iniciado
      BY <1>1 DEF TypeOK, Pendente
    <2>2. \A x \in Turnos \ {proc[p].turno} : checkins'[x] = checkins[x]
      BY <1>1 DEF Gravar, TypeOK
    <2>3. \A x \in Turnos \ {proc[p].turno} : alertas'[x] = alertas[x]
      BY <1>1 DEF CriarAlertas, TypeOK
    <2>4. \A x \in Turnos \ {proc[p].turno} : painel'[x] = painel[x]
      BY <1>1 DEF Broadcast, TypeOK
    <2> QED BY <2>1, <2>2, <2>3, <2>4
  <1> DEFINE Marca == \E t \in Turnos : turno[t].status \in Iniciado /\ So(t)
  <1> HIDE DEF Marca
  <1>2. ASSUME NEW p \in Procs, Iniciar(p)
        PROVE  Nada \/ Marca
    <2>1. CASE IniciarEmitir(p) \/ IniciarCheckin(p) \/ IniciarDesvio(p)
      BY <1>1, <2>1 DEF IniciarEmitir, IniciarCheckin, IniciarDesvio, Esta, ComTurno, Passo, Marca
    <2> QED BY <1>2, <2>1 DEF Iniciar, IniciarLer, Comeca, IniciarCriar
  <1>3. ASSUME NEW p \in Procs, Checkin(p)
        PROVE  Nada \/ Marca
    <2>1. CASE CheckinGravar(p) \/ CheckinAlertar(p)
      BY <1>1, <2>1 DEF CheckinGravar, CheckinAlertar, Esta, ComTurno, Passo, Marca
    <2> QED BY <1>3, <2>1 DEF Checkin, CheckinLer, Comeca
  <1>4. ASSUME NEW p \in Procs, Finalizar(p)
        PROVE  Nada \/ Marca
    <2>1. CASE FinalizarGravar(p) \/ FinalizarAlertar(p) \/ FinalizarEmitir(p)
      BY <1>1, <2>1 DEF FinalizarGravar, FinalizarAlertar, FinalizarEmitir, Esta, ComTurno,
         Passo, Marca
    <2> QED BY <1>4, <2>1 DEF Finalizar, FinalizarLer, Comeca, FinalizarStatus
  <1>5. ASSUME NEW p \in Procs, Sabotagem(p)
        PROVE  Nada \/ Marca
    <2>1. CASE SabotagemEmitir(p) \/ SabotagemAlertar(p)
      BY <1>1, <2>1 DEF SabotagemEmitir, SabotagemAlertar, Esta, ComTurno, Passo, Marca
    <2> QED BY <1>5, <2>1 DEF Sabotagem, SabotagemLer, Comeca, SabotagemStatus
  <1>6. ASSUME NEW p \in Procs, GetVigiaTurno(p) \/ Revogar(p) \/ Reassociar(p) \/ Abortar(p)
        PROVE  Nada
    BY <1>6 DEF GetVigiaTurno, GetVigiaTurnoLer, GetVigiaTurnoFinalizar, Revogar, RevogarLer,
       RevogarGravar, Reassociar, ReassociarLer, ReassociarGravar, Abortar, Comeca
  <1>7. ASSUME Ambiente \/ UNCHANGED vars
        PROVE  Nada
    BY <1>7 DEF Ambiente, RegisterBiometric, Logout, CriarTurnoDoWorker, Tique, vars
  <1> HIDE DEF Nada
  <1>8. Nada \/ Marca
    <2>1. CASE \E p \in Procs :
                  \/ Iniciar(p) \/ Checkin(p) \/ Finalizar(p) \/ Sabotagem(p)
                  \/ GetVigiaTurno(p) \/ Revogar(p) \/ Reassociar(p) \/ Abortar(p)
      BY <1>2, <1>3, <1>4, <1>5, <1>6, <2>1
    <2>2. CASE Ambiente \/ UNCHANGED vars
      BY <1>7, <2>2
    <2> QED BY <2>1, <2>2 DEF Next
  <1> QED BY <1>8 DEF Nada, Marca

LEMMA VidaInit == Init => Vida!Init
  <1>1. SUFFICES ASSUME Init
                 PROVE  Vida!Init
    OBVIOUS
  <1>2. \A t \in Turnos : /\ turno[t].status = "vago" /\ turno[t].usuario = NULL
                         /\ turno[t].device = NULL /\ turno[t].pin = NULL
    BY <1>1 DEF Init, Vaga
  <1>3. \A t \in Turnos : Fase(t) = "vago" /\ Sessao(t) = NULL
    BY <1>2 DEF Fase, Sessao, Ativo, DoWorker
  <1>4. \A t \in Turnos : checkins[t] = {} /\ alertas[t] = {} /\ painel[t] = "vago"
    BY <1>1 DEF Init
  <1> QED BY <1>2, <1>3, <1>4 DEF Vida!Init

\* The abstract counterparts of the classes of Vive.
LEMMA VidaDaMudanca ==
    ASSUME TypeOK, TypeOK', NEW t \in Turnos,
           \A x \in Turnos \ {t} : turno'[x] = turno[x],
           Nasce(t) \/ Ausenta(t) \/ Encerra(t) \/ Reabre(t) \/ Solta(t) \/ Prende(t),
           UNCHANGED <<checkins, alertas, painel>>
    PROVE  Vida!Next
  <1>1. \A x \in Turnos \ {t} : Fase(x)' = Fase(x) /\ Sessao(x)' = Sessao(x)
    BY DEF Fase, Sessao
  <1>2. /\ turno[t].status = "vago" => Fase(t) = "vago"
        /\ turno[t].status \in Ativo => Fase(t) = "em_curso"
        /\ turno[t].status = "finalizado" => Fase(t) = "encerrado"
        /\ turno'[t].status \in Ativo => Fase(t)' = "em_curso"
        /\ turno'[t].status = "finalizado" => Fase(t)' = "encerrado"
        /\ turno'[t].status \in DoWorker => Fase(t)' = "ausente"
    BY DEF Fase, Ativo, DoWorker
  <1>3. turno[t] \in Linha /\ turno'[t] \in Linha
    BY DEF TypeOK
  <1>4. turno[t].status \in Iniciado => Vida!Comecado(t)
    BY <1>2 DEF Iniciado, Vida!Comecado
  <1>5. CASE Nasce(t)
    <2>1. PICK u \in Usuarios, d \in Devices, fim \in Nat :
             turno'[t] = [status |-> "em_andamento", usuario |-> u, token |-> TRUE,
                          device |-> d, pin |-> NULL, pinValidoAte |-> NULL,
                          fimPrevisto |-> fim, fimReal |-> NULL]
      BY <1>5 DEF Nasce
    <2>2. Fase(t) = "vago" /\ Fase(t)' = "em_curso" /\ turno'[t].usuario = u /\ Sessao(t)' = d
      BY <1>2, <1>5, <2>1 DEF Nasce, Ativo, Sessao
    <2>3. Vida!Comecar(t, u, d)
      BY <1>1, <2>2 DEF Vida!Comecar, Vida!Passa
    <2> QED BY <2>3 DEF Vida!Next
  <1>6. CASE Ausenta(t)
    <2>1. PICK u \in Usuarios, status \in DoWorker, fim \in Nat :
             turno'[t] = [Vaga EXCEPT !.status = status, !.usuario = u, !.fimPrevisto = fim]
      BY <1>6 DEF Ausenta
    <2>2. Fase(t) = "vago" /\ Fase(t)' = "ausente" /\ turno'[t].usuario = u /\ Sessao(t)' = NULL
      BY <1>2, <1>6, <2>1 DEF Ausenta, Vaga, Sessao
    <2>3. Vida!Ausentar(t, u)
      BY <1>1, <2>2 DEF Vida!Ausentar, Vida!Passa
    <2> QED BY <2>3 DEF Vida!Next
  <1>7. CASE Encerra(t)
    <2>1. Fase(t)' = "encerrado" /\ turno'[t].usuario = turno[t].usuario /\ Sessao(t)' = Sessao(t)
      BY <1>2, <1>3, <1>7 DEF Encerra, Linha, Sessao
    <2>2. Vida!Encerrar(t)
      BY <1>1, <1>4, <1>7, <2>1 DEF Encerra, Vida!Encerrar, Vida!Passa
    <2> QED BY <2>2 DEF Vida!Next
  <1>8. CASE Reabre(t)
    <2>1. Fase(t)' = "em_curso" /\ turno'[t].usuario = turno[t].usuario /\ Sessao(t)' = Sessao(t)
      BY <1>2, <1>3, <1>8 DEF Reabre, Linha, Sessao, Ativo
    <2>2. Vida!Reabrir(t)
      BY <1>1, <1>4, <1>8, <2>1 DEF Reabre, Vida!Reabrir, Vida!Passa
    <2> QED BY <2>2 DEF Vida!Next
  <1>9. CASE Solta(t)
    <2>1. turno'[t].status = turno[t].status /\ turno'[t].usuario = turno[t].usuario /\ turno'[t].pin \in Pins
      BY ZenonT(60), <1>3, <1>9 DEF Solta, Linha
    <2>2. Fase(t)' = Fase(t) /\ Sessao(t)' = "revogada"
      BY <2>1, ConstantesOK DEF Fase, Sessao
    <2>3. Vida!MudarSessao(t, "revogada")
      BY <1>1, <1>4, <1>9, <2>1, <2>2 DEF Solta, Vida!MudarSessao
    <2> QED BY <2>3 DEF Vida!Next, Vida!Revogar
  <1>10. CASE Prende(t)
    <2>1. PICK d \in Devices :
             turno'[t] = [turno[t] EXCEPT !.token = TRUE, !.device = d,
                                          !.pin = NULL, !.pinValidoAte = NULL]
      BY <1>10 DEF Prende
    <2>2. /\ turno'[t].status = turno[t].status /\ turno'[t].usuario = turno[t].usuario
          /\ turno'[t].pin = NULL /\ turno'[t].device = d
      BY <1>3, <2>1 DEF Linha
    <2>3. Fase(t)' = Fase(t) /\ Sessao(t)' = d
      BY <2>2 DEF Fase, Sessao
    <2>4. Vida!MudarSessao(t, d)
      BY <1>1, <1>4, <1>10, <2>2, <2>3 DEF Prende, Vida!MudarSessao
    <2> QED BY <2>4 DEF Vida!Next, Vida!Reassociar
  <1> QED BY <1>5, <1>6, <1>7, <1>8, <1>9, <1>10

\* Every step is one of Plantao, or a stutter.
LEMMA VidaNext ==
    ASSUME TypeOK, Pendente, [Next]_vars
    PROVE  [Vida!Next]_(Vida!vars)
  <1>1. TypeOK'
    BY TypeNext
  <1>2. CASE \E t \in Turnos :
                 /\ \A x \in Turnos \ {t} : turno'[x] = turno[x]
                 /\ Nasce(t) \/ Ausenta(t) \/ Encerra(t) \/ Reabre(t) \/ Solta(t) \/ Prende(t)
                 /\ UNCHANGED <<checkins, alertas, painel>>
    BY <1>1, <1>2, VidaDaMudanca
  <1>3. CASE turno' = turno /\ UNCHANGED <<checkins, alertas, painel>>
    BY <1>3 DEF Vida!vars, Fase, Sessao
  <1>4. ASSUME turno' = turno, NEW t \in Turnos, turno[t].status \in Iniciado,
               \A x \in Turnos \ {t} : UNCHANGED <<checkins[x], alertas[x], painel[x]>>
        PROVE  Vida!Next
    <2>1. Vida!Comecado(t)
      <3>1. turno[t].status \in Ativo \/ turno[t].status = "finalizado"
        BY <1>4 DEF Iniciado
      <3>2. Fase(t) \in {"em_curso", "encerrado"}
        BY <3>1 DEF Fase, Ativo, DoWorker
      <3> QED BY <3>2 DEF Vida!Comecado
    <2>2. \A x \in Turnos : Fase(x)' = Fase(x) /\ Sessao(x)' = Sessao(x)
      BY <1>4 DEF Fase, Sessao
    <2>3. Vida!Marcar(t)
      BY <1>4, <2>1, <2>2 DEF Vida!Marcar
    <2> QED BY <2>3 DEF Vida!Next
  <1> QED BY <1>2, <1>3, <1>4, UmaLinha, SoMarca

\* The handlers, with their guards checked statements before their writes, keep
\* the one promise of Plantao, for any number of shifts, guards and requests.
THEOREM PlantaoCorrect == Spec => ImplementaPlantao
  <1>1. TypeOK /\ Pendente /\ [Next]_vars => [Vida!Next]_(Vida!vars)
    BY VidaNext
  <1> QED BY <1>1, VidaInit, TypeCorrect, PendenteCorrect, PTL DEF Spec, ImplementaPlantao, Vida!Spec
-----------------------------------------------------------------------------
(***************************************************************************)
(* How many active shifts a guard can have.  Two kinds of request can add  *)
(* one: an Iniciar that saw no active shift and is about to insert, and a  *)
(* report of sabotage that will write "critico" over a shift that may have *)
(* been finished since.  The invariant counts the shifts that are active   *)
(* or may become so, and the inserts still to come.                        *)
(***************************************************************************)

Sabotando(u) ==
    {p \in Procs : proc[p].pc = "sab_status" /\ turno[proc[p].turno].usuario = u}
Reabriveis(u) == {t \in Turnos : \E p \in Sabotando(u) : proc[p].turno = t}
Podem(u)      == Ativos(u) \cup Reabriveis(u)

Orcamento ==
    \A u \in Usuarios :
        Cardinality(Podem(u)) + Cardinality(Iniciando(u)) <= Cardinality(Procs)

\* A request reaches its insert, or its write of "critico", only from its reads.
LEMMA Chegada ==
    ASSUME TypeOK, [Next]_vars, NEW q \in Procs
    PROVE  /\ proc'[q].pc = "ini_criar" =>
                 \/ proc'[q] = proc[q]
                 \/ \E u \in Usuarios, d \in Devices, s \in Senhas, fora \in Desvios :
                       IniciarLer(q, u, d, s, fora)
           /\ proc'[q].pc = "sab_status" =>
                 \/ proc'[q] = proc[q]
                 \/ \E t \in Turnos, u \in Usuarios, d \in Devices : SabotagemLer(q, t, u, d)
  <1> DEFINE Nada == proc'[q] = proc[q] \/ proc'[q].pc \notin {"ini_criar", "sab_status"}
             Ini  == \E u \in Usuarios, d \in Devices, s \in Senhas, fora \in Desvios :
                        IniciarLer(q, u, d, s, fora) /\ proc'[q].pc = "ini_criar"
             Sab  == \E t \in Turnos, u \in Usuarios, d \in Devices :
                        SabotagemLer(q, t, u, d) /\ proc'[q].pc = "sab_status"
  <1>1. ASSUME NEW p \in Procs, NEW passo, passo \notin {"ini_criar", "sab_status"},
               Segue(p, passo)
        PROVE  Nada
    BY <1>1 DEF Segue, TypeOK, Pedido
  <1>r. ASSUME NEW p \in Procs, Responde(p)
        PROVE  Nada
    BY <1>r DEF Responde, Livre, TypeOK
  <1>2. ASSUME NEW p \in Procs, NEW passo, passo \notin {"ini_criar", "sab_status"},
               NEW t, NEW u, NEW d, NEW s, NEW fora, Comeca(p, passo, t, u, d, s, fora)
        PROVE  Nada
    BY <1>2 DEF Comeca, TypeOK
  <1>3. ASSUME NEW p \in Procs, Iniciar(p)
        PROVE  Nada \/ Ini
    <2>1. ASSUME NEW u \in Usuarios, NEW d \in Devices, NEW s \in Senhas, NEW fora \in Desvios,
                 IniciarLer(p, u, d, s, fora)
          PROVE  Nada \/ Ini
      <3>1. CASE p = q
        <4>1. proc'[q].pc = "ini_criar"
          BY <2>1, <3>1 DEF IniciarLer, Comeca, TypeOK
        <4> QED BY <2>1, <3>1, <4>1
      <3>2. CASE p # q
        BY <2>1, <3>2 DEF IniciarLer, Comeca, TypeOK
      <3> QED BY <3>1, <3>2
    <2>2. ASSUME NEW t \in Turnos, NEW duracao \in Duracoes, IniciarCriar(p, t, duracao)
          PROVE  Nada
      BY <2>2 DEF IniciarCriar, TypeOK, Pedido
    <2>3. CASE IniciarEmitir(p) \/ IniciarCheckin(p) \/ IniciarDesvio(p)
      BY <1>1, <1>r, <2>3 DEF IniciarEmitir, IniciarCheckin, IniciarDesvio
    <2> QED BY <1>3, <2>1, <2>2, <2>3 DEF Iniciar
  <1>4. ASSUME NEW p \in Procs, Checkin(p)
        PROVE  Nada
    BY <1>1, <1>r, <1>2, <1>4 DEF Checkin, CheckinLer, CheckinGravar, CheckinAlertar
  <1>5. ASSUME NEW p \in Procs, Finalizar(p)
        PROVE  Nada
    BY <1>1, <1>r, <1>2, <1>5 DEF Finalizar, FinalizarLer, FinalizarGravar, FinalizarAlertar,
       FinalizarStatus, FinalizarEmitir
  <1>6. ASSUME NEW p \in Procs, Sabotagem(p)
        PROVE  Nada \/ Sab
    <2>1. ASSUME NEW t \in Turnos, NEW u \in Usuarios, NEW d \in Devices, SabotagemLer(p, t, u, d)
          PROVE  Nada \/ Sab
      <3>1. CASE p = q
        <4>1. proc'[q].pc = "sab_status"
          BY <2>1, <3>1 DEF SabotagemLer, Comeca, TypeOK
        <4> QED BY <2>1, <3>1, <4>1
      <3>2. CASE p # q
        BY <2>1, <3>2 DEF SabotagemLer, Comeca, TypeOK
      <3> QED BY <3>1, <3>2
    <2>2. CASE SabotagemStatus(p) \/ SabotagemEmitir(p) \/ SabotagemAlertar(p)
      BY <1>1, <1>r, <2>2 DEF SabotagemStatus, SabotagemEmitir, SabotagemAlertar
    <2> QED BY <1>6, <2>1, <2>2 DEF Sabotagem
  <1>7. ASSUME NEW p \in Procs, GetVigiaTurno(p) \/ Revogar(p) \/ Reassociar(p) \/ Abortar(p)
        PROVE  Nada
    <2>1. CASE GetVigiaTurno(p)
      BY <1>1, <1>r, <1>2, <2>1 DEF GetVigiaTurno, GetVigiaTurnoLer, GetVigiaTurnoFinalizar
    <2>2. CASE Revogar(p)
      BY <1>1, <1>r, <1>2, <2>2 DEF Revogar, RevogarLer, RevogarGravar
    <2>3. CASE Reassociar(p)
      BY <1>1, <1>r, <1>2, <2>3 DEF Reassociar, ReassociarLer, ReassociarGravar
    <2>4. CASE Abortar(p)
      BY <1>r, <2>4 DEF Abortar
    <2> QED BY <1>7, <2>1, <2>2, <2>3, <2>4
  <1>8. ASSUME Ambiente \/ UNCHANGED vars
        PROVE  Nada
    BY <1>8 DEF Ambiente, RegisterBiometric, Logout, CriarTurnoDoWorker, Tique, vars
  <1> HIDE DEF Nada, Ini, Sab
  <1>9. Nada \/ Ini \/ Sab
    <2>1. CASE \E p \in Procs :
                  \/ Iniciar(p) \/ Checkin(p) \/ Finalizar(p) \/ Sabotagem(p)
                  \/ GetVigiaTurno(p) \/ Revogar(p) \/ Reassociar(p) \/ Abortar(p)
      BY <1>3, <1>4, <1>5, <1>6, <1>7, <2>1
    <2>2. CASE Ambiente \/ UNCHANGED vars
      BY <1>8, <2>2
    <2> QED BY <2>1, <2>2 DEF Next
  <1> QED BY <1>9 DEF Nada, Ini, Sab

\* The sets that are counted are finite.
LEMMA Finitos ==
    ASSUME NEW u
    PROVE  /\ IsFiniteSet(Podem(u)) /\ Cardinality(Podem(u)) \in Nat
           /\ IsFiniteSet(Iniciando(u)) /\ Cardinality(Iniciando(u)) \in Nat
           /\ IsFiniteSet(Sabotando(u)) /\ Cardinality(Sabotando(u)) \in Nat
           /\ Cardinality(Procs) \in Nat
  <1>1. /\ Podem(u) \in SUBSET Turnos
        /\ Iniciando(u) \in SUBSET Procs
        /\ Sabotando(u) \in SUBSET Procs
    BY DEF Podem, Ativos, Reabriveis, Iniciando, Sabotando
  <1>2. IsFiniteSet(Podem(u)) /\ IsFiniteSet(Iniciando(u)) /\ IsFiniteSet(Sabotando(u))
    BY <1>1, ConjuntosFinitos, FS_Subset
  <1> QED BY <1>2, ConjuntosFinitos, FS_CardinalityType

\* No more shifts can be reopened than requests are about to.
LEMMA PoucosReabriveis ==
    ASSUME NEW u
    PROVE  /\ IsFiniteSet(Reabriveis(u))
           /\ Cardinality(Reabriveis(u)) \in Nat
           /\ Cardinality(Reabriveis(u)) <= Cardinality(Sabotando(u))
  <1> DEFINE S == {p \in Sabotando(u) : proc[p].turno \in Turnos}
             f == [p \in S |-> proc[p].turno]
  <1>1. f \in Surjection(S, Reabriveis(u))
    BY DEF Reabriveis, Surjection
  <1>2. IsFiniteSet(S) /\ Cardinality(S) <= Cardinality(Sabotando(u)) /\ Cardinality(S) \in Nat
    <2>1. S \in SUBSET Sabotando(u)
      OBVIOUS
    <2> QED BY <2>1, Finitos, FS_Subset, FS_CardinalityType
  <1> HIDE DEF S, f
  <1>3. IsFiniteSet(Reabriveis(u)) /\ Cardinality(Reabriveis(u)) <= Cardinality(S)
    BY <1>1, <1>2, FS_Surjection
  <1>4. Cardinality(Reabriveis(u)) \in Nat
    BY <1>3, FS_CardinalityType
  <1> QED BY <1>2, <1>3, <1>4, Finitos

\* A started shift keeps its guard.
LEMMA UsuarioFixo ==
    ASSUME TypeOK, Pendente, [Next]_vars, NEW t \in Turnos, turno[t].status \in Iniciado
    PROVE  turno'[t].usuario = turno[t].usuario
  <1>1. Vive(t) /\ turno[t].status # "vago" /\ turno[t] \in Linha
    BY VidaDaLinha DEF Iniciado, Ativo, TypeOK
  <1> QED BY <1>1 DEF Vive, Nasce, Ausenta, Encerra, Reabre, Solta, Prende, Linha

\* A shift that may be reopened was reopenable already, or is active.
LEMMA ReabriveisCaem ==
    ASSUME TypeOK, Pendente, [Next]_vars, NEW u \in Usuarios
    PROVE  Reabriveis(u)' \subseteq Podem(u)
  <1>1. SUFFICES ASSUME NEW t \in Turnos, NEW q \in Procs, proc'[q].pc = "sab_status",
                        turno'[proc'[q].turno].usuario = u, proc'[q].turno = t
                 PROVE  t \in Podem(u)
    BY DEF Reabriveis, Sabotando
  <1>2. CASE proc'[q] = proc[q]
    <2>1. turno[t].status \in Iniciado
      BY <1>1, <1>2 DEF Pendente, ComTurno, Passo
    <2>2. turno[t].usuario = u
      BY <1>1, <2>1, UsuarioFixo
    <2> QED BY <1>1, <1>2, <2>2 DEF Podem, Reabriveis, Sabotando
  <1>3. ASSUME NEW x \in Turnos, NEW v \in Usuarios, NEW d \in Devices, SabotagemLer(q, x, v, d)
        PROVE  t \in Podem(u)
    <2>1. x = t /\ turno' = turno
      BY <1>1, <1>3 DEF SabotagemLer, Comeca, TypeOK
    <2>2. turno[t].usuario = u /\ turno[t].status \in Ativo
      BY <1>1, <1>3, <2>1 DEF SabotagemLer, PodeAgir, TypeOK, Linha, Status
    <2> QED BY <2>2 DEF Podem, Ativos
  <1> QED BY <1>1, <1>2, <1>3, Chegada

\* Without an insert, no shift becomes active that was not counted.
LEMMA AtivosCaem ==
    ASSUME TypeOK, Pendente, [Next]_vars, NEW u \in Usuarios, NEW t \in Turnos, t \in Ativos(u)',
           \A p \in Procs, duracao \in Duracoes : ~IniciarCriar(p, t, duracao)
    PROVE  t \in Podem(u)
  <1>1. turno'[t].usuario = u /\ turno'[t].status \in Ativo
    BY DEF Ativos
  <1>2. CASE turno'[t] = turno[t]
    BY <1>1, <1>2 DEF Podem, Ativos
  <1>3. ASSUME NEW p \in Procs, Escreve(p), proc[p].turno = t
        PROVE  t \in Podem(u)
    <2>1. turno[t].status \in Iniciado /\ turno[t] \in Linha /\ Vive(t)
      BY <1>3, EscreveSeu, VidaDaLinha DEF TypeOK
    <2>2. turno[t].usuario = u
      BY <1>1, <2>1, UsuarioFixo
    <2>3. CASE SabotagemStatus(p)
      BY <1>3, <2>2, <2>3 DEF SabotagemStatus, Esta, Podem, Reabriveis, Sabotando
    <2>4. CASE FinalizarStatus(p) \/ GetVigiaTurnoFinalizar(p)
      <3>1. turno'[t].status = "finalizado"
        BY <1>3, <2>4 DEF FinalizarStatus, GetVigiaTurnoFinalizar, UpdateStatus, TypeOK, Linha
      <3> QED BY <1>1, <3>1 DEF Ativo
    <2>5. CASE (\E pin \in Pins : RevogarGravar(p, pin)) \/ ReassociarGravar(p)
      <3>1. turno'[t].status = turno[t].status
        <4>1. CASE ReassociarGravar(p)
          BY <1>3, <2>1, <4>1 DEF ReassociarGravar, TypeOK, Linha
        <4>2. ASSUME NEW pin \in Pins, RevogarGravar(p, pin)
              PROVE  turno'[t].status = turno[t].status
          <5> DEFINE linha == [turno[t] EXCEPT !.token = FALSE, !.device = NULL, !.pin = pin,
                                               !.pinValidoAte = agora + ValidadePin]
          <5>1. turno' = [turno EXCEPT ![t] = linha]
            BY <1>3, <4>2 DEF RevogarGravar
          <5>2. linha.status = turno[t].status
            BY <2>1 DEF Linha
          <5> HIDE DEF linha
          <5> QED BY <5>1, <5>2 DEF TypeOK
        <4> QED BY <2>5, <4>1, <4>2
      <3> QED BY <1>1, <2>2, <3>1 DEF Podem, Ativos
    <2> QED BY <1>3, <2>3, <2>4, <2>5 DEF Escreve
  <1>4. ASSUME NEW p \in Procs, Escreve(p), proc[p].turno # t
        PROVE  turno'[t] = turno[t]
    BY <1>4, EscreveSeu
  <1>5. ASSUME NEW p \in Procs, NEW x \in Turnos, NEW duracao \in Duracoes,
               IniciarCriar(p, x, duracao)
        PROVE  turno'[t] = turno[t]
    BY <1>5 DEF IniciarCriar, TypeOK
  <1>6. ASSUME NEW x \in Turnos, NEW v \in Usuarios, NEW status \in DoWorker, NEW fim \in Duracoes,
               CriarTurnoDoWorker(x, v, status, fim)
        PROVE  turno'[t] = turno[t]
    <2>1. CASE x = t
      <3>1. turno'[t].status = status
        BY <1>6, <2>1 DEF CriarTurnoDoWorker, TypeOK, Vaga
      <3> QED BY <1>1, <3>1 DEF DoWorker, Ativo
    <2>2. CASE x # t
      BY <1>6, <2>2 DEF CriarTurnoDoWorker, TypeOK
    <2> QED BY <2>1, <2>2
  <1> QED BY <1>2, <1>3, <1>4, <1>5, <1>6, SoEscreve

LEMMA OrcamentoInit == Init => Orcamento
  <1>1. SUFFICES ASSUME Init, NEW u \in Usuarios
                 PROVE  Cardinality(Podem(u)) + Cardinality(Iniciando(u)) <= Cardinality(Procs)
    BY DEF Orcamento
  <1>2. Podem(u) = {} /\ Iniciando(u) = {}
    BY <1>1 DEF Init, Podem, Ativos, Reabriveis, Sabotando, Iniciando, Vaga, Livre, Ativo
  <1> QED BY <1>2, FS_EmptySet, Finitos

LEMMA OrcamentoNext ==
    ASSUME TypeOK, Pendente, Orcamento, [Next]_vars
    PROVE  Orcamento'
  <1>1. SUFFICES ASSUME NEW u \in Usuarios
                 PROVE  Cardinality(Podem(u)') + Cardinality(Iniciando(u)') <= Cardinality(Procs)
    BY DEF Orcamento
  <1>2. /\ IsFiniteSet(Podem(u)) /\ Cardinality(Podem(u)) \in Nat
        /\ IsFiniteSet(Iniciando(u)) /\ Cardinality(Iniciando(u)) \in Nat
        /\ Cardinality(Procs) \in Nat
        /\ Cardinality(Podem(u)) + Cardinality(Iniciando(u)) <= Cardinality(Procs)
    BY Finitos DEF Orcamento
  <1>3. IsFiniteSet(Podem(u)') /\ Cardinality(Podem(u)') \in Nat
    <2>1. Podem(u)' \in SUBSET Turnos
      BY DEF Podem, Ativos, Reabriveis
    <2> QED BY <2>1, ConjuntosFinitos, FS_Subset, FS_CardinalityType
  <1>4. IsFiniteSet(Iniciando(u)') /\ Cardinality(Iniciando(u)') \in Nat
    <2>1. Iniciando(u)' \in SUBSET Procs
      BY DEF Iniciando
    <2> QED BY <2>1, ConjuntosFinitos, FS_Subset, FS_CardinalityType
  <1>5. CASE \E p \in Procs, t \in Turnos, duracao \in Duracoes : IniciarCriar(p, t, duracao)
    <2>1. PICK p \in Procs, t \in Turnos, duracao \in Duracoes : IniciarCriar(p, t, duracao)
      BY <1>5
    <2>2. /\ proc[p].pc = "ini_criar" /\ proc'[p].pc = "ini_emitir"
          /\ \A q \in Procs \ {p} : proc'[q] = proc[q]
          /\ turno'[t].usuario = proc[p].usuario
          /\ \A x \in Turnos \ {t} : turno'[x] = turno[x]
      BY <2>1 DEF IniciarCriar, Esta, TypeOK, Pedido
    <2>3. Reabriveis(u)' \subseteq Podem(u)
      BY ReabriveisCaem
    <2>4. Ativos(u)' \subseteq Ativos(u) \cup {t}
      BY <2>2 DEF Ativos
    <2>5. CASE proc[p].usuario = u
      <3>1. p \in Iniciando(u) /\ Iniciando(u)' \in SUBSET (Iniciando(u) \ {p})
        BY <2>2, <2>5 DEF Iniciando
      <3>2. Podem(u)' \in SUBSET (Podem(u) \cup {t})
        BY <2>3, <2>4 DEF Podem
      <3>3. /\ IsFiniteSet(Iniciando(u) \ {p})
            /\ Cardinality(Iniciando(u) \ {p}) = Cardinality(Iniciando(u)) - 1
        BY <1>2, <3>1, FS_RemoveElement
      <3>4. /\ IsFiniteSet(Podem(u) \cup {t})
            /\ Cardinality(Podem(u) \cup {t}) \in Nat
            /\ Cardinality(Podem(u) \cup {t}) <= Cardinality(Podem(u)) + 1
        <4>1. /\ IsFiniteSet(Podem(u) \cup {t})
              /\ Cardinality(Podem(u) \cup {t}) =
                    IF t \in Podem(u) THEN Cardinality(Podem(u)) ELSE Cardinality(Podem(u)) + 1
          BY <1>2, FS_AddElement
        <4> QED BY <1>2, <4>1
      <3>5. Cardinality(Iniciando(u)') <= Cardinality(Iniciando(u)) - 1
        BY <3>1, <3>3, FS_Subset
      <3>6. Cardinality(Podem(u)') <= Cardinality(Podem(u)) + 1
        <4>1. Cardinality(Podem(u)') <= Cardinality(Podem(u) \cup {t})
          BY <3>2, <3>4, FS_Subset
        <4> QED BY <1>2, <1>3, <3>4, <4>1
      <3> QED BY <1>2, <1>3, <1>4, <3>5, <3>6
    <2>6. CASE proc[p].usuario # u
      <3>1. Iniciando(u)' \in SUBSET Iniciando(u)
        BY <2>2 DEF Iniciando
      <3>2. Podem(u)' \in SUBSET Podem(u)
        BY <2>2, <2>3, <2>4, <2>6 DEF Podem, Ativos
      <3>3. /\ Cardinality(Iniciando(u)') <= Cardinality(Iniciando(u))
            /\ Cardinality(Podem(u)') <= Cardinality(Podem(u))
        BY <1>2, <3>1, <3>2, FS_Subset
      <3> QED BY <1>2, <1>3, <1>4, <3>3
    <2> QED BY <2>5, <2>6
  <1>6. CASE \E p \in Procs, d \in Devices, s \in Senhas, fora \in Desvios :
                IniciarLer(p, u, d, s, fora)
    <2>1. PICK p \in Procs, d \in Devices, s \in Senhas, fora \in Desvios :
             IniciarLer(p, u, d, s, fora)
      BY <1>6
    <2>2. /\ Ativos(u) = {} /\ turno' = turno
          /\ proc[p].pc = "livre" /\ proc'[p].pc = "ini_criar"
          /\ \A q \in Procs \ {p} : proc'[q] = proc[q]
      BY <2>1 DEF IniciarLer, Comeca, TypeOK
    <2>3. Podem(u)' \in SUBSET Reabriveis(u)
      BY <2>2 DEF Podem, Ativos, Reabriveis, Sabotando
    <2>4. Iniciando(u)' \in SUBSET (Procs \ Sabotando(u))
      BY <2>2 DEF Iniciando, Sabotando
    <2>5. Cardinality(Podem(u)') <= Cardinality(Sabotando(u))
      <3>1. Cardinality(Podem(u)') <= Cardinality(Reabriveis(u))
        BY <2>3, PoucosReabriveis, FS_Subset
      <3> QED BY <1>3, <3>1, PoucosReabriveis, Finitos
    <2>6. /\ IsFiniteSet(Procs \ Sabotando(u))
          /\ Cardinality(Procs \ Sabotando(u)) = Cardinality(Procs) - Cardinality(Sabotando(u))
      <3>1. Procs \cap Sabotando(u) = Sabotando(u)
        BY DEF Sabotando
      <3> QED BY ZenonT(60), <3>1, ConjuntosFinitos, Finitos, FS_Difference
    <2>7. Cardinality(Iniciando(u)') <= Cardinality(Procs) - Cardinality(Sabotando(u))
      BY <2>4, <2>6, FS_Subset
    <2> QED BY <1>2, <1>3, <1>4, <2>5, <2>7, Finitos
  <1>7. CASE /\ ~ \E p \in Procs, t \in Turnos, duracao \in Duracoes : IniciarCriar(p, t, duracao)
             /\ ~ \E p \in Procs, d \in Devices, s \in Senhas, fora \in Desvios :
                      IniciarLer(p, u, d, s, fora)
    <2>1. Iniciando(u)' \in SUBSET Iniciando(u)
      <3>1. SUFFICES ASSUME NEW q \in Procs, proc'[q].pc = "ini_criar", proc'[q].usuario = u
                     PROVE  proc'[q] = proc[q]
        BY DEF Iniciando
      <3>2. ASSUME NEW v \in Usuarios, NEW d \in Devices, NEW s \in Senhas, NEW fora \in Desvios,
                   IniciarLer(q, v, d, s, fora)
            PROVE  v = u
        BY <3>1, <3>2 DEF IniciarLer, Comeca, TypeOK
      <3> QED BY <1>7, <3>1, <3>2, Chegada
    <2>2. Podem(u)' \in SUBSET Podem(u)
      <3>1. Reabriveis(u)' \subseteq Podem(u)
        BY ReabriveisCaem
      <3>2. \A t \in Turnos : t \in Ativos(u)' => t \in Podem(u)
        BY <1>7, AtivosCaem
      <3>3. Ativos(u)' \subseteq Turnos
        BY DEF Ativos
      <3> QED BY <3>1, <3>2, <3>3 DEF Podem
    <2>3. /\ Cardinality(Iniciando(u)') <= Cardinality(Iniciando(u))
          /\ Cardinality(Podem(u)') <= Cardinality(Podem(u))
      BY <1>2, <2>1, <2>2, FS_Subset
    <2> QED BY <1>2, <1>3, <1>4, <2>3
  <1> QED BY <1>5, <1>6, <1>7

\* The counting invariant bounds the active shifts of each guard, and the inserts.
LEMMA OrcamentoLimita == Orcamento => AtivosLimitados
  <1>1. SUFFICES ASSUME Orcamento, NEW u \in Usuarios
                 PROVE  Cardinality(Ativos(u)) + Cardinality(Iniciando(u)) <= Cardinality(Procs)
    BY DEF AtivosLimitados
  <1>2. Ativos(u) \in SUBSET Podem(u) /\ IsFiniteSet(Podem(u))
    BY Finitos DEF Podem
  <1>3. Cardinality(Ativos(u)) \in Nat /\ Cardinality(Ativos(u)) <= Cardinality(Podem(u))
    BY <1>2, FS_Subset, FS_CardinalityType
  <1> QED BY <1>1, <1>3, Finitos DEF Orcamento

\* However requests interleave, the active shifts of a guard and the inserts of new
\* ones still to come are never more than the requests in execution at once.
THEOREM AtivosCorrect == Spec => []AtivosLimitados
  <1>1. Init => Orcamento
    BY OrcamentoInit
  <1>2. TypeOK /\ Pendente /\ Orcamento /\ [Next]_vars => Orcamento'
    BY OrcamentoNext
  <1>3. Orcamento => AtivosLimitados
    BY OrcamentoLimita
  <1> QED BY <1>1, <1>2, <1>3, TypeCorrect, PendenteCorrect, PTL DEF Spec

=============================================================================
