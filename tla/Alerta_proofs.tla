--------------------------- MODULE Alerta_proofs ---------------------------
(* Proofs about Alerta, for every number of requests, alerts and check-ins, *)
(* every interval, set of thresholds and capacity of the channel.           *)
EXTENDS Alerta, SequenceTheorems, FiniteSetTheorems, TLAPS
-----------------------------------------------------------------------------
(* Facts about sequences.                                                  *)

\* A function on an initial segment of the numbers is a sequence.
LEMMA FuncaoSeq ==
    ASSUME NEW S, NEW n \in Nat, NEW f \in [1 .. n -> S]
    PROVE  f \in Seq(S) /\ Len(f) = n
  OBVIOUS

\* Adding an element at the end.
LEMMA AppendSeq ==
    ASSUME NEW S, NEW s \in Seq(S), NEW e \in S
    PROVE  /\ Append(s, e) \in Seq(S)
           /\ Len(Append(s, e)) = Len(s) + 1
           /\ DOMAIN Append(s, e) = 1 .. Len(s) + 1
           /\ \A i \in 1 .. Len(s) : Append(s, e)[i] = s[i]
           /\ Append(s, e)[Len(s) + 1] = e
  OBVIOUS

LEMMA DominioSeq ==
    ASSUME NEW S, NEW s \in Seq(S)
    PROVE  Len(s) \in Nat /\ DOMAIN s = 1 .. Len(s) /\ \A i \in DOMAIN s : s[i] \in S
  OBVIOUS
-----------------------------------------------------------------------------
(* What the two ways to write the table alertas do to it.                  *)

\* An UPDATE changes status and resolvido_em of some rows, nothing else.
LEMMA Atualiza ==
    ASSUME TypeOK, NEW ids, NEW status \in Pendente \cup Fechado, NEW resolvido \in BOOLEAN,
           UpdateStatus(ids, status, resolvido)
    PROVE  /\ alertas' \in Seq(Alerta)
           /\ DOMAIN alertas' = DOMAIN alertas
           /\ \A a \in DOMAIN alertas :
                 /\ alertas'[a].tipo = alertas[a].tipo
                 /\ a \in ids => alertas'[a].status = status /\ alertas'[a].resolvido = resolvido
                 /\ a \notin ids => alertas'[a] = alertas[a]
  <1>1. /\ Len(alertas) \in Nat /\ DOMAIN alertas = 1 .. Len(alertas)
        /\ \A a \in DOMAIN alertas : alertas[a] \in Alerta
    BY DominioSeq DEF TypeOK
  <1> DEFINE nova(a) == IF a \in ids
                        THEN [alertas[a] EXCEPT !.status = status, !.resolvido = resolvido]
                        ELSE alertas[a]
  <1>2. \A a \in DOMAIN alertas : nova(a) \in Alerta
    BY <1>1 DEF Alerta
  <1>3. alertas' = [a \in DOMAIN alertas |-> nova(a)]
    BY DEF UpdateStatus
  <1>4. alertas' \in [1 .. Len(alertas) -> Alerta]
    BY <1>1, <1>2, <1>3
  <1>5. alertas' \in Seq(Alerta)
    BY <1>1, <1>4, FuncaoSeq
  <1>6. ASSUME NEW a \in DOMAIN alertas
        PROVE  /\ alertas'[a].tipo = alertas[a].tipo
               /\ a \in ids => alertas'[a].status = status /\ alertas'[a].resolvido = resolvido
               /\ a \notin ids => alertas'[a] = alertas[a]
    <2>1. alertas'[a] = nova(a) /\ alertas[a] \in Alerta
      BY <1>1, <1>3
    <2> QED BY <2>1 DEF Alerta
  <1> QED BY <1>3, <1>5, <1>6

\* The channel, what came out of it and what is on its way refer to rows.
EntregaOK ==
    /\ canal \in Seq(DOMAIN alertas \cup {Alheio}) /\ Len(canal) <= CapCanal
    /\ avisados \subseteq DOMAIN alertas
    /\ perdidos \subseteq DOMAIN alertas
    /\ porEnviar \in [Criadores -> DOMAIN alertas \cup {0}]

LEMMA EntregaTipo == TypeOK => EntregaOK
  BY DEF TypeOK, EntregaOK

\* An INSERT adds one open alert, which its creator is to send or not.
LEMMA Cria ==
    ASSUME TypeOK, NEW x \in Criadores, NEW tipo \in TipoAlerta, criarAlerta(x, tipo)
    PROVE  /\ alertas' \in Seq(Alerta)
           /\ DOMAIN alertas' = DOMAIN alertas \cup {Len(alertas) + 1}
           /\ Len(alertas) + 1 \notin DOMAIN alertas
           /\ \A a \in DOMAIN alertas : alertas'[a] = alertas[a]
           /\ alertas'[Len(alertas) + 1].tipo = tipo
           /\ alertas'[Len(alertas) + 1].status = "aberto"
           /\ alertas'[Len(alertas) + 1].resolvido = FALSE
           /\ EntregaOK'
  <1> DEFINE n == Len(alertas)
             novo == n + 1
  <1>1. PICK avisa \in Destinatarios :
          /\ alertas' = Append(alertas, [tipo |-> tipo, status |-> "aberto",
                                         resolvido |-> FALSE, avisa |-> avisa])
          /\ porEnviar' = IF avisa THEN [porEnviar EXCEPT ![x] = novo] ELSE porEnviar
          /\ UNCHANGED <<canal, avisados, perdidos>>
    BY DEF criarAlerta
  <1> DEFINE linha == [tipo |-> tipo, status |-> "aberto", resolvido |-> FALSE, avisa |-> avisa]
  <1>2. linha \in Alerta
    BY ConstantesOK DEF Alerta, Pendente
  <1>3. n \in Nat /\ DOMAIN alertas = 1 .. n
    BY DominioSeq DEF TypeOK
  <1>4. /\ alertas' \in Seq(Alerta)
        /\ DOMAIN alertas' = 1 .. novo
        /\ \A a \in 1 .. n : alertas'[a] = alertas[a]
        /\ alertas'[novo] = linha
    BY <1>1, <1>2, AppendSeq DEF TypeOK
  <1>5. 1 .. novo = (1 .. n) \cup {novo} /\ novo \notin 1 .. n
    BY <1>3
  <1>6. (1 .. n) \cup {Alheio} \subseteq (1 .. novo) \cup {Alheio}
    BY <1>5
  <1>7. canal' \in Seq(DOMAIN alertas' \cup {Alheio}) /\ Len(canal') <= CapCanal
    BY <1>1, <1>3, <1>4, <1>6, SeqMonotonic DEF TypeOK
  <1>8. avisados' \subseteq DOMAIN alertas' /\ perdidos' \subseteq DOMAIN alertas'
    BY <1>1, <1>3, <1>4, <1>5 DEF TypeOK
  <1>9. porEnviar' \in [Criadores -> DOMAIN alertas' \cup {0}]
    BY <1>1, <1>3, <1>4, <1>5 DEF TypeOK
  <1> QED BY <1>3, <1>4, <1>5, <1>7, <1>8, <1>9 DEF EntregaOK
-----------------------------------------------------------------------------
(* Every step seen from the table alertas and the checker.                 *)

\* An alert is sent, or one of another shift; the dispatcher takes one; a restart
\* loses them all.
Envia(x) ==
    /\ porEnviar[x] # 0 /\ porEnviar' = [porEnviar EXCEPT ![x] = 0]
    /\ canal' = IF Len(canal) >= CapCanal THEN canal ELSE Append(canal, porEnviar[x])
    /\ perdidos' = IF Len(canal) >= CapCanal THEN perdidos \cup {porEnviar[x]} ELSE perdidos
    /\ UNCHANGED avisados

Ocupa ==
    /\ Len(canal) < CapCanal /\ canal' = Append(canal, Alheio)
    /\ UNCHANGED <<avisados, perdidos, porEnviar>>

Toma ==
    /\ canal # <<>> /\ canal' = Tail(canal)
    /\ avisados' = (avisados \cup {Head(canal)}) \ {Alheio}
    /\ UNCHANGED <<perdidos, porEnviar>>

Esquece ==
    /\ canal' = <<>> /\ porEnviar' = [x \in Criadores |-> 0]
    /\ perdidos' = perdidos \cup NoCanal \cup EmMaos
    /\ UNCHANGED avisados

\* The rows stay; what is on its way, in the channel, taken or lost still are rows.
Mantem ==
    /\ UNCHANGED alertas
    /\ UNCHANGED entrega \/ (\E x \in Criadores : Envia(x)) \/ Ocupa \/ Toma \/ Esquece
    /\ EntregaOK'

\* Some rows are acknowledged, or closed.
Reescreve ==
    /\ UNCHANGED entrega
    /\ \E ids :
          \/ UpdateStatus(ids, "reconhecido", FALSE)
          \/ \E status \in Fechado : UpdateStatus(ids, status, TRUE)

CheckerSegue ==
    \/ UNCHANGED checker
    \/ checker' # "criar"
    \/ UNCHANGED alertas /\ CountByTurnoETipo("atraso") = 0

\* Whoever creates an alert has sent the one before.
Levanta(x, tipo) == x \in Criadores /\ porEnviar[x] = 0 /\ criarAlerta(x, tipo)

Historia ==
    \/ Mantem /\ CheckerSegue
    \/ Reescreve /\ UNCHANGED checker
    \/ (\E x \in Criadores, tipo \in Motivo : Levanta(x, tipo)) /\ UNCHANGED checker
    \/ Levanta(NULL, "atraso") /\ checker = "criar" /\ checker' = "parado"

LEMMA HistoriaCasos ==
    ASSUME Historia
    PROVE  \/ Mantem \/ Reescreve
           \/ \E x \in Criadores, tipo \in TipoAlerta : Levanta(x, tipo)
  BY DEF Historia, TipoAlerta, Criadores

LEMMA MantemTrivial ==
    ASSUME TypeOK, UNCHANGED <<alertas, entrega>>
    PROVE  Mantem
  <1>1. EntregaOK
    BY EntregaTipo
  <1>2. EntregaOK'
    BY <1>1 DEF EntregaOK, entrega
  <1> QED BY <1>2 DEF Mantem

LEMMA SenhaHistoria ==
    ASSUME TypeOK, NEW p \in Procs, porEnviar[p] = 0, NEW motivo, alertarSenha(p, motivo),
           UNCHANGED checker
    PROVE  Historia
  <1>1. CASE "emergencia" \in motivo
    <2>1. Levanta(p, "emergencia")
      BY <1>1 DEF alertarSenha, Levanta, Criadores
    <2> QED BY <2>1 DEF Historia, Motivo, Levanta
  <1>2. CASE "emergencia" \notin motivo
    BY <1>2, MantemTrivial DEF alertarSenha, Historia, CheckerSegue
  <1> QED BY <1>1, <1>2

LEMMA CloseHistoria ==
    ASSUME NEW status \in Fechado, CloseAlertas(status), UNCHANGED <<entrega, checker>>
    PROVE  Historia
  BY DEF CloseAlertas, Historia, Reescreve

\* What the steps of the channel leave in it.
LEMMA EnviaOK ==
    ASSUME TypeOK, UNCHANGED alertas, NEW x \in Criadores, Envia(x)
    PROVE  EntregaOK'
  <1> DEFINE R == DOMAIN alertas \cup {Alheio}
  <1>1. /\ canal \in Seq(R) /\ Len(canal) <= CapCanal /\ Len(canal) \in Nat
        /\ porEnviar \in [Criadores -> DOMAIN alertas \cup {0}]
    BY DominioSeq DEF TypeOK
  <1>2. porEnviar[x] \in DOMAIN alertas
    BY <1>1 DEF Envia
  <1>3. /\ Append(canal, porEnviar[x]) \in Seq(R)
        /\ Len(Append(canal, porEnviar[x])) = Len(canal) + 1
    BY <1>1, <1>2, AppendSeq
  <1>4. canal' \in Seq(R) /\ Len(canal') <= CapCanal
    BY <1>1, <1>3, ConstantesOK DEF Envia
  <1>5. avisados' \subseteq DOMAIN alertas /\ perdidos' \subseteq DOMAIN alertas
    BY <1>2 DEF TypeOK, Envia
  <1>6. porEnviar' \in [Criadores -> DOMAIN alertas \cup {0}]
    BY <1>1 DEF Envia
  <1> QED BY <1>4, <1>5, <1>6 DEF EntregaOK

LEMMA OcupaOK ==
    ASSUME TypeOK, UNCHANGED alertas, Ocupa
    PROVE  EntregaOK'
  <1> DEFINE R == DOMAIN alertas \cup {Alheio}
  <1>1. canal \in Seq(R) /\ Len(canal) \in Nat /\ Len(canal) < CapCanal /\ Alheio \in R
    BY DominioSeq DEF TypeOK, Ocupa
  <1>2. Append(canal, Alheio) \in Seq(R) /\ Len(Append(canal, Alheio)) = Len(canal) + 1
    <2> HIDE DEF R
    <2> QED BY <1>1, AppendSeq
  <1> QED BY <1>1, <1>2, ConstantesOK DEF Ocupa, EntregaOK, TypeOK

LEMMA TomaOK ==
    ASSUME TypeOK, UNCHANGED alertas, Toma
    PROVE  EntregaOK'
  <1> DEFINE R == DOMAIN alertas \cup {Alheio}
  <1>1. canal \in Seq(R) /\ canal # <<>> /\ Len(canal) <= CapCanal /\ Len(canal) \in Nat
    BY DominioSeq DEF TypeOK, Toma
  <1>2. /\ Head(canal) \in R
        /\ Tail(canal) \in Seq(R) /\ Len(Tail(canal)) = Len(canal) - 1
    <2> HIDE DEF R
    <2> QED BY <1>1, HeadTailProperties
  <1>3. canal' \in Seq(R) /\ Len(canal') <= CapCanal
    BY <1>1, <1>2, ConstantesOK DEF Toma
  <1>4. avisados' \subseteq DOMAIN alertas
    BY <1>2 DEF TypeOK, Toma
  <1> QED BY <1>3, <1>4 DEF EntregaOK, Toma, TypeOK

LEMMA EsqueceOK ==
    ASSUME TypeOK, UNCHANGED alertas, Esquece
    PROVE  EntregaOK'
  <1>1. \A i \in DOMAIN canal : canal[i] \in DOMAIN alertas \cup {Alheio}
    BY DominioSeq DEF TypeOK
  <1>2. NoCanal \subseteq DOMAIN alertas /\ EmMaos \subseteq DOMAIN alertas
    BY <1>1 DEF NoCanal, EmMaos, TypeOK
  <1>3. <<>> \in Seq(DOMAIN alertas \cup {Alheio}) /\ Len(<<>>) <= CapCanal
    BY ConstantesOK
  <1> QED BY <1>2, <1>3 DEF Esquece, EntregaOK, TypeOK

LEMMA PassoHistoria ==
    ASSUME TypeOK, [Next]_vars
    PROVE  Historia
  <1> USE DEF tabelas
  <1>1. CASE UNCHANGED vars
    BY <1>1, MantemTrivial DEF vars, Historia, CheckerSegue
  <1>2. ASSUME NEW p \in Procs, FazerCheckin(p)
        PROVE  Historia
    <2>1. ASSUME NEW ts, NEW motivo, CheckinLer(p, ts, motivo)
          PROVE  Historia
      BY <2>1, MantemTrivial DEF CheckinLer, Comeca, Historia, CheckerSegue
    <2>2. CASE CheckinGravar(p)
      BY <2>2, MantemTrivial DEF CheckinGravar, Historia, CheckerSegue
    <2>3. CASE CheckinResolver(p)
      <3>1. CASE CloseAlertas("resolvido_checkin")
        BY <2>3, <3>1, CloseHistoria DEF CheckinResolver, Fechado
      <3>2. CASE UNCHANGED alertas
        BY <2>3, <3>2, MantemTrivial DEF CheckinResolver, Historia, CheckerSegue
      <3> QED BY <2>3, <3>1, <3>2 DEF CheckinResolver
    <2>4. CASE CheckinSenha(p)
      <3>1. CASE alertarSenha(p, proc[p].motivo)
        BY <2>4, <3>1, SenhaHistoria DEF CheckinSenha, Esta
      <3>2. CASE UNCHANGED <<alertas, entrega>>
        BY <2>4, <3>2, MantemTrivial DEF CheckinSenha, Historia, CheckerSegue
      <3> QED BY <2>4, <3>1, <3>2 DEF CheckinSenha
    <2>5. CASE CheckinContar(p)
      BY <2>5, MantemTrivial DEF CheckinContar, Historia, CheckerSegue
    <2>6. CASE CheckinCriar(p)
      <3>1. Levanta(p, "desvio_rota") /\ UNCHANGED checker
        BY <2>6 DEF CheckinCriar, Levanta, Criadores, Esta
      <3> QED BY <3>1 DEF Historia, Motivo, Levanta
    <2> QED BY <1>2, <2>1, <2>2, <2>3, <2>4, <2>5, <2>6 DEF FazerCheckin
  <1>3. ASSUME NEW p \in Procs, ProcessarLote(p)
        PROVE  Historia
    <2>1. CASE LoteComecar(p)
      BY <2>1, MantemTrivial DEF LoteComecar, Comeca, Historia, CheckerSegue
    <2>2. ASSUME NEW ts, NEW chave, NEW motivo, LoteLer(p, ts, chave, motivo)
          PROVE  Historia
      BY <2>2, MantemTrivial DEF LoteLer, Historia, CheckerSegue
    <2>3. CASE LoteGravar(p)
      BY <2>3, MantemTrivial DEF LoteGravar, Historia, CheckerSegue
    <2>4. CASE LoteSenha(p)
      <3>1. CASE alertarSenha(p, proc[p].motivo)
        BY <2>4, <3>1, SenhaHistoria DEF LoteSenha, Esta
      <3>2. CASE UNCHANGED <<alertas, entrega>>
        BY <2>4, <3>2, MantemTrivial DEF LoteSenha, Historia, CheckerSegue
      <3> QED BY <2>4, <3>1, <3>2 DEF LoteSenha
    <2>5. CASE Reconcile(p)
      BY <2>5, MantemTrivial DEF Reconcile, Historia, CheckerSegue
    <2>6. CASE ReconcileFechar(p)
      BY <2>6, CloseHistoria DEF ReconcileFechar, Fechado
    <2> QED BY <1>3, <2>1, <2>2, <2>3, <2>4, <2>5, <2>6 DEF ProcessarLote
  <1>4. ASSUME NEW p \in Procs, Painel(p)
        PROVE  Historia
    <2>1. ASSUME NEW a, ReconhecerLer(p, a) \/ EncerrarLer(p, a)
          PROVE  Historia
      BY <2>1, MantemTrivial DEF ReconhecerLer, EncerrarLer, Comeca, Historia, CheckerSegue
    <2>2. CASE PainelGravar(p)
      BY <2>2 DEF PainelGravar, Historia, Reescreve, Fechado
    <2> QED BY <1>4, <2>1, <2>2 DEF Painel
  <1>5. ASSUME NEW p \in Procs, Abortar(p)
        PROVE  Historia
    BY <1>5, MantemTrivial DEF Abortar, Historia, CheckerSegue
  <1>6. ASSUME NEW ids, EmLote(ids)
        PROVE  Historia
    BY <1>6 DEF EmLote, Historia, Reescreve, Fechado
  <1>7. CASE CheckOnce \/ CheckerErro
    <2>1. CASE listTurnosAtivos
      BY <2>1, MantemTrivial DEF listTurnosAtivos, Checker, Historia, CheckerSegue
    <2>2. CASE processTurno
      BY <2>2, MantemTrivial DEF processTurno, Checker, Historia, CheckerSegue
    <2>3. CASE CheckerContar
      BY <2>3, MantemTrivial DEF CheckerContar, Checker, Historia, CheckerSegue
    <2>4. CASE CheckerCriar
      <3>1. Levanta(NULL, "atraso") /\ checker = "criar" /\ checker' = "parado"
        BY <2>4 DEF CheckerCriar, Checker, Levanta, Criadores
      <3> QED BY <3>1 DEF Historia
    <2>5. CASE CheckerErro
      BY <2>5, MantemTrivial DEF CheckerErro, Historia, CheckerSegue
    <2> QED BY <1>7, <2>1, <2>2, <2>3, <2>4, <2>5 DEF CheckOnce
  <1>8. CASE AlertDispatcher
    <2>1. Toma /\ UNCHANGED <<alertas, checker>>
      BY <1>8 DEF AlertDispatcher, Toma
    <2> QED BY <2>1, TomaOK DEF Historia, Mantem, CheckerSegue
  <1>9. CASE Reiniciar
    <2>1. Esquece /\ UNCHANGED alertas /\ checker' # "criar"
      BY <1>9 DEF Reiniciar, Esquece
    <2> QED BY <2>1, EsqueceOK DEF Historia, Mantem, CheckerSegue
  <1>12. ASSUME NEW x \in Criadores, Enviar(x)
         PROVE  Historia
    <2>1. Envia(x) /\ UNCHANGED <<alertas, checker>>
      BY <1>12 DEF Enviar, Envia
    <2> QED BY <2>1, EnviaOK DEF Historia, Mantem, CheckerSegue
  <1>13. CASE EnviarAlheio
    <2>1. Ocupa /\ UNCHANGED <<alertas, checker>>
      BY <1>13 DEF EnviarAlheio, Ocupa
    <2> QED BY <2>1, OcupaOK DEF Historia, Mantem, CheckerSegue
  <1>10. CASE \E ts \in Timestamp : OutroCheckin(ts)
    BY <1>10, MantemTrivial DEF OutroCheckin, Historia, CheckerSegue
  <1>11. CASE MudarStatus \/ Tique
    BY <1>11, MantemTrivial DEF MudarStatus, Tique, Historia, CheckerSegue
  <1> QED
    BY <1>1, <1>2, <1>3, <1>4, <1>5, <1>6, <1>7, <1>8, <1>9, <1>10, <1>11, <1>12, <1>13
       DEF Next
-----------------------------------------------------------------------------
(* Type correctness.                                                       *)

\* The part of TypeOK a step's history does not settle.
Resto ==
    /\ ativo \in BOOLEAN
    /\ checkins \in Seq(Checkin)
    /\ checker \in {"parado", "ler", "contar", "criar"}
    /\ proc \in [Procs -> Pedido]
    /\ \A p \in Procs :
          proc[p].pc \in {"reconhecer", "encerrar"} => proc[p].alerta \in DOMAIN alertas
    /\ agora \in 0 .. MaxAgora
    /\ pedidos \in Nat
    /\ falhas \in Nat

\* Rows are never deleted.
LEMMA Cresce ==
    ASSUME TypeOK, Historia
    PROVE  /\ alertas' \in Seq(Alerta)
           /\ DOMAIN alertas \subseteq DOMAIN alertas'
           /\ EntregaOK'
  <1>1. CASE Mantem
    BY <1>1 DEF Mantem, TypeOK
  <1>2. CASE Reescreve
    <2>1. PICK ids :
             \/ UpdateStatus(ids, "reconhecido", FALSE)
             \/ \E status \in Fechado : UpdateStatus(ids, status, TRUE)
      BY <1>2 DEF Reescreve
    <2>2. alertas' \in Seq(Alerta) /\ DOMAIN alertas' = DOMAIN alertas
      <3>1. CASE UpdateStatus(ids, "reconhecido", FALSE)
        BY <3>1, Atualiza DEF Pendente
      <3>2. ASSUME NEW status \in Fechado, UpdateStatus(ids, status, TRUE)
            PROVE  alertas' \in Seq(Alerta) /\ DOMAIN alertas' = DOMAIN alertas
        BY <3>2, Atualiza
      <3> QED BY <2>1, <3>1, <3>2
    <2>3. EntregaOK'
      BY <1>2, <2>2, EntregaTipo DEF Reescreve, entrega, EntregaOK
    <2> QED BY <2>2, <2>3
  <1>3. ASSUME NEW x \in Criadores, NEW tipo \in TipoAlerta, Levanta(x, tipo)
        PROVE  /\ alertas' \in Seq(Alerta)
               /\ DOMAIN alertas \subseteq DOMAIN alertas'
               /\ EntregaOK'
    BY <1>3, Cria DEF Levanta
  <1> QED BY <1>1, <1>2, <1>3, HistoriaCasos

\* How a step may change the requests.
ProcSegue(p) ==
    \/ \E passo \in Passo \ {"reconhecer", "encerrar"} : Segue(p, passo)
    \/ Responde(p)
    \/ \E r \in Pedido :
          /\ r.pc \in {"reconhecer", "encerrar"} => r.alerta \in DOMAIN alertas
          /\ proc' = [proc EXCEPT ![p] = r]

LEMMA LivreTipo == Livre \in Pedido /\ Livre.pc = "livre"
  BY ConstantesOK DEF Livre, Pedido, Passo

LEMMA ProcTipo ==
    ASSUME TypeOK, DOMAIN alertas \subseteq DOMAIN alertas', NEW p \in Procs, ProcSegue(p)
    PROVE  /\ proc' \in [Procs -> Pedido]
           /\ \A q \in Procs :
                 proc'[q].pc \in {"reconhecer", "encerrar"} => proc'[q].alerta \in DOMAIN alertas'
  <1>1. /\ proc \in [Procs -> Pedido]
        /\ \A q \in Procs :
              proc[q].pc \in {"reconhecer", "encerrar"} => proc[q].alerta \in DOMAIN alertas'
    BY DEF TypeOK
  <1>2. CASE \E passo \in Passo \ {"reconhecer", "encerrar"} : Segue(p, passo)
    <2>1. PICK passo \in Passo \ {"reconhecer", "encerrar"} :
             proc' = [proc EXCEPT ![p].pc = passo]
      BY <1>2 DEF Segue
    <2>2. [proc[p] EXCEPT !.pc = passo] \in Pedido /\ [proc[p] EXCEPT !.pc = passo].pc = passo
      BY <1>1 DEF Pedido
    <2> QED BY <1>1, <2>1, <2>2
  <1>3. CASE \E r \in Pedido :
                /\ r.pc \in {"reconhecer", "encerrar"} => r.alerta \in DOMAIN alertas
                /\ proc' = [proc EXCEPT ![p] = r]
    BY <1>1, <1>3
  <1>4. CASE Responde(p)
    BY <1>1, <1>4, LivreTipo DEF Responde
  <1> QED BY <1>2, <1>3, <1>4 DEF ProcSegue

LEMMA InsereTipo ==
    ASSUME TypeOK, NEW ts \in 0 .. MaxAgora + 1, NEW chave \in Chaves \cup {NULL},
           NEW motivo \in SUBSET Motivo, Inserir(ts, chave, motivo)
    PROVE  checkins' \in Seq(Checkin)
  <1>1. [ts |-> ts, chave |-> chave, motivo |-> motivo] \in Checkin
    BY DEF Checkin
  <1> QED BY <1>1, AppendSeq DEF Inserir, TypeOK

LEMMA PassoResto ==
    ASSUME TypeOK, [Next]_vars
    PROVE  Resto'
  <1> USE DEF tabelas, Ok, Falha, Conta
  <1> HIDE DEF TypeOK
  <1>0. DOMAIN alertas \subseteq DOMAIN alertas' /\ alertas' \in Seq(Alerta)
    BY PassoHistoria, Cresce
  <1>1. /\ ativo \in BOOLEAN /\ checkins \in Seq(Checkin)
        /\ checker \in {"parado", "ler", "contar", "criar"}
        /\ agora \in 0 .. MaxAgora /\ pedidos \in Nat /\ falhas \in Nat
        /\ MaxAgora \in Nat /\ proc \in [Procs -> Pedido]
    BY ConstantesOK DEF TypeOK
  <1>2. ASSUME NEW p \in Procs, ProcSegue(p), UNCHANGED <<ativo, checker, agora>>,
               checkins' \in Seq(Checkin), pedidos' \in Nat, falhas' \in Nat
        PROVE  Resto'
    BY <1>0, <1>1, <1>2, ProcTipo DEF Resto
  <1>3. ASSUME UNCHANGED proc,
               ativo' \in BOOLEAN, checkins' \in Seq(Checkin),
               checker' \in {"parado", "ler", "contar", "criar"},
               agora' \in 0 .. MaxAgora, pedidos' \in Nat, falhas' \in Nat
        PROVE  Resto'
    BY <1>0, <1>1, <1>3 DEF Resto, TypeOK
  <1>4. CASE UNCHANGED vars
    BY <1>1, <1>3, <1>4 DEF vars
  <1>5. ASSUME NEW p \in Procs,
               \/ CheckinResolver(p) \/ CheckinSenha(p) \/ CheckinContar(p)
               \/ CheckinCriar(p) \/ LoteSenha(p) \/ Reconcile(p)
               \/ ReconcileFechar(p) \/ PainelGravar(p) \/ Abortar(p)
        PROVE  Resto'
    <2>1. ProcSegue(p)
      <3>1. CASE CheckinSenha(p)
        BY <3>1 DEF CheckinSenha, ProcSegue, Passo
      <3>2. CASE CheckinContar(p)
        BY <3>2 DEF CheckinContar, ProcSegue, Passo
      <3>3. CASE Reconcile(p)
        BY <3>3 DEF Reconcile, ProcSegue, Passo
      <3>4. CASE CheckinResolver(p)
        BY <3>4 DEF CheckinResolver, ProcSegue, Passo
      <3>5. CASE LoteSenha(p)
        BY <3>5 DEF LoteSenha, ProcSegue, Passo
      <3>6. CASE CheckinCriar(p) \/ ReconcileFechar(p) \/ PainelGravar(p) \/ Abortar(p)
        BY <3>6 DEF CheckinCriar, ReconcileFechar, PainelGravar, Abortar, ProcSegue
      <3> QED BY <1>5, <3>1, <3>2, <3>3, <3>4, <3>5, <3>6
    <2>2. UNCHANGED <<ativo, checker, agora, checkins, pedidos>> /\ falhas' \in Nat
      <3>1. CASE CheckinResolver(p) \/ CheckinSenha(p) \/ LoteSenha(p)
        BY <1>1, <3>1 DEF CheckinResolver, CheckinSenha, LoteSenha
      <3>2. CASE CheckinContar(p) \/ CheckinCriar(p) \/ Reconcile(p) \/ ReconcileFechar(p)
        BY <1>1, <3>2 DEF CheckinContar, CheckinCriar, Reconcile, ReconcileFechar
      <3>3. CASE PainelGravar(p)
        BY <1>1, <3>3 DEF PainelGravar
      <3>4. CASE Abortar(p)
        BY <1>1, <3>4 DEF Abortar
      <3> QED BY <1>5, <3>1, <3>2, <3>3, <3>4
    <2> QED BY <1>1, <1>2, <2>1, <2>2
  <1>6. ASSUME NEW p \in Procs, NEW r \in Pedido, proc' = [proc EXCEPT ![p] = r],
               r.pc \in {"reconhecer", "encerrar"} => r.alerta \in DOMAIN alertas
        PROVE  ProcSegue(p)
    BY <1>6 DEF ProcSegue
  <1>7. ASSUME NEW p \in Procs, FazerCheckin(p)
        PROVE  Resto'
    <2>1. ASSUME NEW ts \in Timestamp, NEW motivo \in Motivos, CheckinLer(p, ts, motivo)
          PROVE  Resto'
      <3> DEFINE r == [Livre EXCEPT !.pc = "chk_gravar", !.ts = ts, !.motivo = motivo]
      <3>1. r \in Pedido /\ r.pc = "chk_gravar"
        BY ConstantesOK DEF Livre, Pedido, Passo, Timestamp
      <3>2. /\ proc' = [proc EXCEPT ![p] = r]
            /\ UNCHANGED <<ativo, checkins, checker, agora, falhas>> /\ pedidos' \in Nat
        BY <1>1, <2>1 DEF CheckinLer, Comeca
      <3> QED BY <1>1, <1>2, <1>6, <3>1, <3>2
    <2>2. CASE CheckinGravar(p)
      <3>1. ProcSegue(p)
        BY <2>2 DEF CheckinGravar, ProcSegue, Passo
      <3>2. checkins' \in Seq(Checkin)
        <4>1. /\ proc[p].ts \in 0 .. MaxAgora + 1 /\ NULL \in Chaves \cup {NULL}
              /\ proc[p].motivo \in SUBSET Motivo
          BY <1>1 DEF Pedido
        <4>2. Inserir(proc[p].ts, NULL, proc[p].motivo)
          BY <2>2 DEF CheckinGravar
        <4> QED BY <4>1, <4>2, InsereTipo
      <3> QED BY <1>1, <1>2, <2>2, <3>1, <3>2 DEF CheckinGravar
    <2> QED BY <1>5, <1>7, <2>1, <2>2 DEF FazerCheckin
  <1>8. ASSUME NEW p \in Procs, ProcessarLote(p)
        PROVE  Resto'
    <2>1. CASE LoteComecar(p)
      <3> DEFINE r == [Livre EXCEPT !.pc = "lote_item"]
      <3>1. r \in Pedido /\ r.pc = "lote_item"
        BY ConstantesOK DEF Livre, Pedido, Passo
      <3>2. /\ proc' = [proc EXCEPT ![p] = r]
            /\ UNCHANGED <<ativo, checkins, checker, agora, falhas>> /\ pedidos' \in Nat
        BY <1>1, <2>1 DEF LoteComecar, Comeca
      <3> QED BY <1>1, <1>2, <1>6, <3>1, <3>2
    <2>2. ASSUME NEW ts \in Timestamp, NEW chave \in Chaves \cup {NULL}, NEW motivo \in Motivos,
                 LoteLer(p, ts, chave, motivo)
          PROVE  Resto'
      <3> DEFINE r == [pc |-> "lote_gravar", ts |-> ts, chave |-> chave, motivo |-> motivo,
                       alerta |-> 0]
      <3>1. r \in Pedido /\ r.pc = "lote_gravar"
        BY ConstantesOK DEF Pedido, Passo, Timestamp
      <3>2. /\ proc' = [proc EXCEPT ![p] = r]
            /\ UNCHANGED <<ativo, checkins, checker, agora, falhas>> /\ pedidos' \in Nat
        BY <1>1, <2>2 DEF LoteLer
      <3> QED BY <1>1, <1>2, <1>6, <3>1, <3>2
    <2>3. CASE LoteGravar(p)
      <3>1. ProcSegue(p)
        BY <2>3 DEF LoteGravar, ProcSegue, Passo
      <3>2. checkins' \in Seq(Checkin)
        <4>1. /\ proc[p].ts \in 0 .. MaxAgora + 1 /\ proc[p].chave \in Chaves \cup {NULL}
              /\ proc[p].motivo \in SUBSET Motivo
          BY <1>1 DEF Pedido
        <4>2. UNCHANGED checkins \/ Inserir(proc[p].ts, proc[p].chave, proc[p].motivo)
          BY <2>3 DEF LoteGravar
        <4> QED BY <1>1, <4>1, <4>2, InsereTipo
      <3>3. UNCHANGED <<ativo, checker, agora, pedidos>> /\ falhas' \in Nat
        BY <1>1, <2>3 DEF LoteGravar
      <3> QED BY <1>1, <1>2, <3>1, <3>2, <3>3
    <2> QED BY <1>5, <1>8, <2>1, <2>2, <2>3 DEF ProcessarLote
  <1>9. ASSUME NEW p \in Procs, Painel(p)
        PROVE  Resto'
    <2>1. ASSUME NEW a \in DOMAIN alertas, ReconhecerLer(p, a) \/ EncerrarLer(p, a)
          PROVE  Resto'
      <3>1. a \in Nat
        BY DominioSeq DEF TypeOK
      <3> DEFINE r(passo) == [Livre EXCEPT !.pc = passo, !.alerta = a]
      <3>2. ASSUME NEW passo \in {"reconhecer", "encerrar"}
            PROVE  r(passo) \in Pedido /\ r(passo).alerta = a
        <4>1. passo \in Passo
          BY DEF Passo
        <4>2. Livre \in Pedido
          BY LivreTipo
        <4>3. [Livre EXCEPT !.pc = passo] \in Pedido
          BY <4>1, <4>2 DEF Pedido
        <4>4. \A x \in Pedido : [x EXCEPT !.alerta = a] \in Pedido /\ [x EXCEPT !.alerta = a].alerta = a
          BY <3>1 DEF Pedido
        <4> QED BY <4>3, <4>4
      <3>3. \/ proc' = [proc EXCEPT ![p] = r("reconhecer")]
            \/ proc' = [proc EXCEPT ![p] = r("encerrar")]
        BY <2>1 DEF ReconhecerLer, EncerrarLer, Comeca
      <3>4. UNCHANGED <<ativo, checkins, checker, agora, falhas>> /\ pedidos' \in Nat
        BY <1>1, <2>1 DEF ReconhecerLer, EncerrarLer, Comeca
      <3> QED BY <1>1, <1>2, <1>6, <3>2, <3>3, <3>4
    <2> QED BY <1>5, <1>9, <2>1 DEF Painel
  <1>10. ASSUME NEW ids, EmLote(ids)
         PROVE  Resto'
    BY <1>1, <1>3, <1>10 DEF EmLote
  <1>11. CASE CheckOnce \/ CheckerErro
    BY <1>1, <1>3, <1>11
       DEF CheckOnce, CheckerErro, listTurnosAtivos, processTurno, CheckerContar,
           CheckerCriar, Checker
  <1>12. CASE AlertDispatcher
    BY <1>1, <1>3, <1>12 DEF AlertDispatcher
  <1>13. CASE Reiniciar
    <2>1. proc' \in [Procs -> Pedido] /\ \A q \in Procs : proc'[q].pc = "livre"
      BY <1>13, LivreTipo DEF Reiniciar
    <2>2. /\ UNCHANGED <<ativo, checkins, agora, pedidos>>
          /\ falhas' \in Nat /\ checker' = "parado"
      BY <1>1, <1>13 DEF Reiniciar
    <2> QED BY <1>1, <2>1, <2>2 DEF Resto
  <1>14. ASSUME NEW ts \in Timestamp, OutroCheckin(ts)
         PROVE  Resto'
    <2>1. ts \in 0 .. MaxAgora + 1 /\ NULL \in Chaves \cup {NULL} /\ {} \in SUBSET Motivo
      BY DEF Timestamp
    <2>2. checkins' \in Seq(Checkin)
      BY <1>14, <2>1, InsereTipo DEF OutroCheckin
    <2> QED BY <1>1, <1>3, <1>14, <2>2 DEF OutroCheckin
  <1>15. CASE MudarStatus
    BY <1>1, <1>3, <1>15 DEF MudarStatus
  <1>16. CASE Tique
    BY <1>1, <1>3, <1>16 DEF Tique
  <1>17. CASE EnviarAlheio \/ \E x \in Criadores : Enviar(x)
    BY <1>1, <1>3, <1>17 DEF EnviarAlheio, Enviar
  <1> QED
    BY <1>4, <1>5, <1>7, <1>8, <1>9, <1>10, <1>11, <1>12, <1>13, <1>14, <1>15, <1>16, <1>17
       DEF Next

\* The initial table is empty or holds one row.
LEMMA InitTipo == Init => TypeOK
  <1> SUFFICES ASSUME Init PROVE TypeOK
    OBVIOUS
  <1>1. 0 \in 0 .. MaxAgora + 1 /\ 0 \in 0 .. MaxAgora /\ MaxAgora \in Nat
    BY ConstantesOK
  <1>2. [ts |-> 0, chave |-> NULL, motivo |-> {}] \in Checkin
    BY <1>1 DEF Checkin
  <1>3. checkins \in Seq(Checkin)
    <2>1. <<>> \in Seq(Checkin) /\ \A c \in Checkin : <<c>> \in Seq(Checkin)
      OBVIOUS
    <2> DEFINE c == [ts |-> 0, chave |-> NULL, motivo |-> {}]
    <2>2. checkins \in {<<>>, <<c>>} /\ c \in Checkin
      BY <1>2 DEF Init
    <2> HIDE DEF c
    <2> QED BY <2>1, <2>2
  <1>4. [tipo |-> "atraso_n1", status |-> "aberto", resolvido |-> FALSE, avisa |-> FALSE]
          \in Alerta
    BY DEF Alerta, TipoAlerta, Pendente
  <1>5. alertas \in Seq(Alerta)
    <2>1. <<>> \in Seq(Alerta) /\ \A x \in Alerta : <<x>> \in Seq(Alerta)
      OBVIOUS
    <2> DEFINE x == [tipo |-> "atraso_n1", status |-> "aberto",
                     resolvido |-> FALSE, avisa |-> FALSE]
    <2>2. alertas \in {<<>>, <<x>>} /\ x \in Alerta
      BY <1>4 DEF Init
    <2> HIDE DEF x
    <2> QED BY <2>1, <2>2
  <1>6. /\ canal \in Seq(DOMAIN alertas \cup {Alheio}) /\ Len(canal) <= CapCanal
        /\ porEnviar \in [Criadores -> DOMAIN alertas \cup {0}]
    BY ConstantesOK DEF Init
  <1>7. proc \in [Procs -> Pedido] /\ \A p \in Procs : proc[p].pc = "livre"
    BY LivreTipo DEF Init
  <1> QED BY <1>1, <1>3, <1>5, <1>6, <1>7 DEF Init, TypeOK

\* Every step keeps the types.
LEMMA PassoTipo == TypeOK /\ [Next]_vars => TypeOK'
  <1> SUFFICES ASSUME TypeOK, [Next]_vars PROVE TypeOK'
    OBVIOUS
  <1>1. Historia
    BY PassoHistoria
  <1>2. alertas' \in Seq(Alerta) /\ EntregaOK'
    BY <1>1, Cresce
  <1>3. Resto'
    BY PassoResto
  <1> QED BY <1>2, <1>3 DEF Resto, EntregaOK, TypeOK

\* Types: in particular the channel never holds more than its capacity, and what
\* it holds, what the panel works on and what was lost are rows of the table.
THEOREM TypeCorrect == Spec => []TypeOK
  <1>1. Init => TypeOK
    BY InitTipo
  <1>2. TypeOK /\ [Next]_vars => TypeOK'
    BY PassoTipo
  <1> QED BY <1>1, <1>2, PTL DEF Spec
-----------------------------------------------------------------------------
(* resolvido_em follows the status.                                        *)

\* Whoever writes an alert last, resolvido_em is set exactly on the closed ones.
THEOREM ResolvidoCorrect == Spec => []ResolvidoCoerente
  <1>1. Init => ResolvidoCoerente
    BY DEF Init, ResolvidoCoerente, Fechado
  <1>2. TypeOK /\ ResolvidoCoerente /\ [Next]_vars => ResolvidoCoerente'
    <2> SUFFICES ASSUME TypeOK, ResolvidoCoerente, [Next]_vars
                 PROVE  ResolvidoCoerente'
      OBVIOUS
    <2>1. Historia
      BY PassoHistoria
    <2>2. CASE Mantem
      BY <2>2 DEF Mantem, ResolvidoCoerente
    <2>3. CASE Reescreve
      <3>1. PICK ids :
               \/ UpdateStatus(ids, "reconhecido", FALSE)
               \/ \E status \in Fechado : UpdateStatus(ids, status, TRUE)
        BY <2>3 DEF Reescreve
      <3>2. PICK status \in Pendente \cup Fechado, resolvido \in BOOLEAN :
               (resolvido <=> status \in Fechado) /\ UpdateStatus(ids, status, resolvido)
        BY <3>1 DEF Pendente, Fechado
      <3>3. /\ DOMAIN alertas' = DOMAIN alertas
            /\ \A a \in DOMAIN alertas :
                  /\ a \in ids => alertas'[a].status = status /\ alertas'[a].resolvido = resolvido
                  /\ a \notin ids => alertas'[a] = alertas[a]
        BY <3>2, Atualiza
      <3> QED BY <3>2, <3>3 DEF ResolvidoCoerente
    <2>4. ASSUME NEW x \in Criadores, NEW tipo \in TipoAlerta, Levanta(x, tipo)
          PROVE  ResolvidoCoerente'
      <3>1. /\ DOMAIN alertas' = DOMAIN alertas \cup {Len(alertas) + 1}
            /\ \A a \in DOMAIN alertas : alertas'[a] = alertas[a]
            /\ alertas'[Len(alertas) + 1].status = "aberto"
            /\ alertas'[Len(alertas) + 1].resolvido = FALSE
        BY <2>4, Cria DEF Levanta
      <3> QED BY <3>1 DEF ResolvidoCoerente, Fechado
    <2> QED BY <2>1, <2>2, <2>3, <2>4, HistoriaCasos
  <1> QED BY <1>1, <1>2, TypeCorrect, PTL DEF Spec
-----------------------------------------------------------------------------
(* The dedup of the timeout checker.                                       *)

\* No alert of delay is open or acknowledged.
SemAtraso ==
    \A a \in DOMAIN alertas : alertas[a].tipo = "atraso" => alertas[a].status \notin Pendente

\* Between the SELECT of the dedup and the INSERT nobody else adds or reopens an
\* alert of delay: what the checker counted is still true when it writes.  An
\* alert that was closed may be acknowledged in between, but it is never open.
Dedup ==
    /\ UmAtrasoAberto
    /\ checker = "criar" =>
          \A a \in DOMAIN alertas : alertas[a].tipo = "atraso" => alertas[a].status # "aberto"

LEMMA ContaZero ==
    ASSUME TypeOK, CountByTurnoETipo("atraso") = 0
    PROVE  SemAtraso
  <1> DEFINE S == {a \in DOMAIN alertas :
                      alertas[a].tipo = "atraso" /\ alertas[a].status \in Pendente}
  <1>1. Len(alertas) \in Nat /\ DOMAIN alertas = 1 .. Len(alertas)
    BY DominioSeq DEF TypeOK
  <1>2. IsFiniteSet(1 .. Len(alertas))
    BY <1>1, FS_Interval
  <1>3. S \subseteq 1 .. Len(alertas)
    BY <1>1
  <1>4. IsFiniteSet(S)
    BY <1>2, <1>3, FS_Subset
  <1>5. Cardinality(S) = 0
    BY DEF CountByTurnoETipo
  <1>6. S = {}
    BY <1>4, <1>5, FS_EmptySet
  <1> QED BY <1>6 DEF SemAtraso

LEMMA DedupCorrect == Spec => []Dedup
  <1>1. Init => Dedup
    BY DEF Init, Dedup, UmAtrasoAberto
  <1>2. TypeOK /\ Dedup /\ [Next]_vars => Dedup'
    <2> SUFFICES ASSUME TypeOK, Dedup, [Next]_vars
                 PROVE  Dedup'
      OBVIOUS
    <2>1. Historia
      BY PassoHistoria
    <2>2. CASE Mantem /\ CheckerSegue
      <3>1. alertas' = alertas
        BY <2>2 DEF Mantem
      <3>2. CASE checker' = checker \/ checker' # "criar"
        BY <3>1, <3>2 DEF Dedup, UmAtrasoAberto
      <3>3. CASE CountByTurnoETipo("atraso") = 0
        BY <3>1, <3>3, ContaZero DEF Dedup, UmAtrasoAberto, SemAtraso, Pendente
      <3> QED BY <2>2, <3>2, <3>3 DEF CheckerSegue
    <2>3. CASE Reescreve /\ UNCHANGED checker
      <3>1. PICK ids :
               \/ UpdateStatus(ids, "reconhecido", FALSE)
               \/ \E status \in Fechado : UpdateStatus(ids, status, TRUE)
        BY <2>3 DEF Reescreve
      <3>2. PICK status \in Pendente \cup Fechado, resolvido \in BOOLEAN :
               status # "aberto" /\ UpdateStatus(ids, status, resolvido)
        BY <3>1 DEF Pendente, Fechado
      <3>3. /\ DOMAIN alertas' = DOMAIN alertas
            /\ \A a \in DOMAIN alertas :
                  /\ alertas'[a].tipo = alertas[a].tipo
                  /\ a \in ids => alertas'[a].status = status /\ alertas'[a].resolvido = resolvido
                  /\ a \notin ids => alertas'[a] = alertas[a]
        BY <3>2, Atualiza
      <3>4. \A a \in DOMAIN alertas :
               alertas'[a].status = "aberto" => alertas[a].status = "aberto"
        BY <3>2, <3>3
      <3> QED BY <2>3, <3>3, <3>4 DEF Dedup, UmAtrasoAberto
    <2>4. ASSUME NEW x \in Criadores, NEW tipo \in Motivo, Levanta(x, tipo), UNCHANGED checker
          PROVE  Dedup'
      <3>1. /\ DOMAIN alertas' = DOMAIN alertas \cup {Len(alertas) + 1}
            /\ \A a \in DOMAIN alertas : alertas'[a] = alertas[a]
            /\ alertas'[Len(alertas) + 1].tipo # "atraso"
        BY <2>4, Cria DEF Levanta, TipoAlerta, Motivo
      <3> QED BY <2>4, <3>1 DEF Dedup, UmAtrasoAberto
    <2>5. CASE Levanta(NULL, "atraso") /\ checker = "criar" /\ checker' = "parado"
      <3>1. /\ DOMAIN alertas' = DOMAIN alertas \cup {Len(alertas) + 1}
            /\ \A a \in DOMAIN alertas : alertas'[a] = alertas[a]
        BY <2>5, Cria DEF Levanta, TipoAlerta
      <3> QED BY <2>5, <3>1 DEF Dedup, UmAtrasoAberto
    <2> QED BY <2>1, <2>2, <2>3, <2>4, <2>5 DEF Historia
  <1> QED BY <1>1, <1>2, TypeCorrect, PTL DEF Spec

\* At most one alert of delay is open.
THEOREM UmAtrasoCorrect == Spec => []UmAtrasoAberto
  <1>1. Dedup => UmAtrasoAberto
    BY DEF Dedup
  <1> QED BY <1>1, DedupCorrect, PTL
-----------------------------------------------------------------------------
(* No signal is lost: the check-ins that carry one are counted against the *)
(* alerts and the requests that are about to raise one.                    *)

Sinais      == {i \in DOMAIN checkins : "emergencia" \in checkins[i].motivo}
Emergencias == {a \in DOMAIN alertas : alertas[a].tipo = "emergencia"}
Sinalizando == {"chk_resolver", "chk_senha", "lote_senha"}
Devendo     == {p \in Procs : "emergencia" \in proc[p].motivo /\ proc[p].pc \in Sinalizando}

Saldo == Cardinality(Sinais) <= Cardinality(Emergencias) + Cardinality(Devendo)

Finitos ==
    /\ IsFiniteSet(Sinais) /\ Cardinality(Sinais) \in Nat
    /\ IsFiniteSet(Emergencias) /\ Cardinality(Emergencias) \in Nat
    /\ IsFiniteSet(Devendo) /\ Cardinality(Devendo) \in Nat

LEMMA SaldoFinito == TypeOK => Finitos
  <1> SUFFICES ASSUME TypeOK PROVE Finitos
    OBVIOUS
  <1>1. /\ Len(checkins) \in Nat /\ DOMAIN checkins = 1 .. Len(checkins)
        /\ Len(alertas) \in Nat /\ DOMAIN alertas = 1 .. Len(alertas)
    BY DominioSeq DEF TypeOK
  <1>2. IsFiniteSet(1 .. Len(checkins)) /\ IsFiniteSet(1 .. Len(alertas))
    BY <1>1, FS_Interval
  <1>3. Sinais \subseteq 1 .. Len(checkins) /\ Emergencias \subseteq 1 .. Len(alertas)
    BY <1>1 DEF Sinais, Emergencias
  <1>4. Devendo \subseteq Procs
    BY DEF Devendo
  <1>5. IsFiniteSet(Sinais) /\ IsFiniteSet(Emergencias) /\ IsFiniteSet(Devendo)
    BY <1>2, <1>3, <1>4, ProcsFinitos, FS_Subset
  <1> QED BY <1>5, FS_CardinalityType DEF Finitos

LEMMA SaldoFinitoDepois == TypeOK' => Finitos'
  BY SaldoFinito, PTL

\* A signal comes with the request that owes its alert, and an alert settles one.
LEMMA SaldoFica ==
    ASSUME TypeOK, TypeOK', Saldo, Emergencias \subseteq Emergencias',
           \/ Sinais' \subseteq Sinais /\ Devendo \subseteq Devendo'
           \/ /\ \E x : Sinais' \subseteq Sinais \cup {x}
              /\ \E p : p \notin Devendo /\ Devendo \cup {p} \subseteq Devendo'
           \/ /\ Sinais' \subseteq Sinais
              /\ \E x : x \notin Emergencias /\ Emergencias \cup {x} \subseteq Emergencias'
              /\ \E p : Devendo \subseteq Devendo' \cup {p}
    PROVE  Saldo'
  <1>1. /\ IsFiniteSet(Sinais) /\ Cardinality(Sinais) \in Nat
        /\ IsFiniteSet(Emergencias) /\ Cardinality(Emergencias) \in Nat
        /\ IsFiniteSet(Devendo) /\ Cardinality(Devendo) \in Nat
        /\ Cardinality(Sinais) <= Cardinality(Emergencias) + Cardinality(Devendo)
    BY SaldoFinito DEF Saldo, Finitos
  <1>2. /\ IsFiniteSet(Sinais') /\ Cardinality(Sinais') \in Nat
        /\ IsFiniteSet(Emergencias') /\ Cardinality(Emergencias') \in Nat
        /\ IsFiniteSet(Devendo') /\ Cardinality(Devendo') \in Nat
    BY SaldoFinitoDepois DEF Finitos
  <1>3. Cardinality(Emergencias) <= Cardinality(Emergencias')
    BY <1>2, FS_Subset
  <1>4. CASE Sinais' \subseteq Sinais /\ Devendo \subseteq Devendo'
    <2>1. /\ Cardinality(Sinais') <= Cardinality(Sinais)
          /\ Cardinality(Devendo) <= Cardinality(Devendo')
      BY <1>1, <1>2, <1>4, FS_Subset
    <2> QED BY <1>1, <1>2, <1>3, <2>1 DEF Saldo
  <1>5. ASSUME NEW x, Sinais' \subseteq Sinais \cup {x},
               NEW p, p \notin Devendo, Devendo \cup {p} \subseteq Devendo'
        PROVE  Saldo'
    <2>1. /\ IsFiniteSet(Sinais \cup {x})
          /\ Cardinality(Sinais \cup {x}) =
                IF x \in Sinais THEN Cardinality(Sinais) ELSE Cardinality(Sinais) + 1
      BY <1>1, FS_AddElement
    <2>2. Cardinality(Sinais') <= Cardinality(Sinais) + 1
      <3>1. Cardinality(Sinais') <= Cardinality(Sinais \cup {x})
        BY <1>5, <2>1, FS_Subset
      <3> QED BY <1>1, <1>2, <2>1, <3>1
    <2>3. Cardinality(Devendo \cup {p}) = Cardinality(Devendo) + 1
      BY <1>1, <1>5, FS_AddElement
    <2>4. Cardinality(Devendo \cup {p}) <= Cardinality(Devendo')
      BY <1>2, <1>5, FS_Subset
    <2> QED BY <1>1, <1>2, <1>3, <2>2, <2>3, <2>4 DEF Saldo
  <1>6. ASSUME Sinais' \subseteq Sinais,
               NEW x, x \notin Emergencias, Emergencias \cup {x} \subseteq Emergencias',
               NEW p, Devendo \subseteq Devendo' \cup {p}
        PROVE  Saldo'
    <2>1. Cardinality(Sinais') <= Cardinality(Sinais)
      BY <1>1, <1>6, FS_Subset
    <2>2. Cardinality(Emergencias \cup {x}) = Cardinality(Emergencias) + 1
      BY <1>1, <1>6, FS_AddElement
    <2>3. Cardinality(Emergencias \cup {x}) <= Cardinality(Emergencias')
      BY <1>2, <1>6, FS_Subset
    <2>4. /\ IsFiniteSet(Devendo' \cup {p})
          /\ Cardinality(Devendo' \cup {p}) =
                IF p \in Devendo' THEN Cardinality(Devendo') ELSE Cardinality(Devendo') + 1
      BY <1>2, FS_AddElement
    <2>5. Cardinality(Devendo) <= Cardinality(Devendo') + 1
      <3>1. Cardinality(Devendo) <= Cardinality(Devendo' \cup {p})
        BY <1>6, <2>4, FS_Subset
      <3> QED BY <1>1, <1>2, <2>4, <3>1
    <2> QED BY <1>1, <1>2, <2>1, <2>2, <2>3, <2>5 DEF Saldo
  <1> QED BY <1>4, <1>5, <1>6

\* Alerts are never deleted and keep their type.
LEMMA EmergenciasFicam ==
    ASSUME TypeOK, Historia
    PROVE  Emergencias \subseteq Emergencias'
  <1>1. CASE Mantem
    BY <1>1 DEF Mantem, Emergencias
  <1>2. CASE Reescreve
    <2>1. PICK ids :
             \/ UpdateStatus(ids, "reconhecido", FALSE)
             \/ \E status \in Fechado : UpdateStatus(ids, status, TRUE)
      BY <1>2 DEF Reescreve
    <2>2. PICK status \in Pendente \cup Fechado, resolvido \in BOOLEAN :
             UpdateStatus(ids, status, resolvido)
      BY <2>1 DEF Pendente
    <2>3. /\ DOMAIN alertas' = DOMAIN alertas
          /\ \A a \in DOMAIN alertas : alertas'[a].tipo = alertas[a].tipo
      BY <2>2, Atualiza
    <2> QED BY <2>3 DEF Emergencias
  <1>3. ASSUME NEW x \in Criadores, NEW tipo \in TipoAlerta, Levanta(x, tipo)
        PROVE  Emergencias \subseteq Emergencias'
    BY <1>3, Cria DEF Emergencias, Levanta
  <1> QED BY <1>1, <1>2, <1>3, HistoriaCasos

\* An INSERT of a check-in adds a signal only if it carries one.
LEMMA SinaisCrescem ==
    ASSUME TypeOK, NEW ts, NEW chave, NEW motivo, Inserir(ts, chave, motivo),
           [ts |-> ts, chave |-> chave, motivo |-> motivo] \in Checkin
    PROVE  /\ Sinais' \subseteq Sinais \cup {Len(checkins) + 1}
           /\ "emergencia" \notin motivo => Sinais' \subseteq Sinais
  <1> DEFINE c == [ts |-> ts, chave |-> chave, motivo |-> motivo]
             n == Len(checkins)
  <1>1. n \in Nat /\ DOMAIN checkins = 1 .. n
    BY DominioSeq DEF TypeOK
  <1>2. checkins' = Append(checkins, c) /\ c \in Checkin /\ c.motivo = motivo
    BY DEF Inserir
  <1> HIDE DEF c
  <1>3. /\ DOMAIN checkins' = 1 .. n + 1
        /\ \A i \in 1 .. n : checkins'[i] = checkins[i]
        /\ checkins'[n + 1] = c
    BY <1>2, AppendSeq DEF TypeOK
  <1>4. 1 .. n + 1 = (1 .. n) \cup {n + 1}
    BY <1>1
  <1> HIDE DEF n
  <1>5. \A i \in Sinais' : i \in Sinais \/ (i = n + 1 /\ "emergencia" \in motivo)
    BY <1>1, <1>2, <1>3, <1>4 DEF Sinais
  <1> QED BY <1>5 DEF n

\* The other requests keep what they owe.
LEMMA DevendoFica ==
    ASSUME NEW p \in Procs, \A q \in Procs \ {p} : proc'[q] = proc[q]
    PROVE  /\ Devendo \subseteq Devendo' \cup {p}
           /\ p \notin Devendo => Devendo \subseteq Devendo'
  BY DEF Devendo

LEMMA Prossegue ==
    ASSUME TypeOK, NEW p \in Procs
    PROVE  /\ \A passo : Segue(p, passo) =>
                 /\ proc'[p].pc = passo /\ proc'[p].motivo = proc[p].motivo
                 /\ \A q \in Procs \ {p} : proc'[q] = proc[q]
           /\ Responde(p) => \A q \in Procs \ {p} : proc'[q] = proc[q]
           /\ \A r : Comeca(p, r) => p \notin Devendo /\ \A q \in Procs \ {p} : proc'[q] = proc[q]
  <1>1. proc \in [Procs -> Pedido] /\ proc[p] \in Pedido
    BY DEF TypeOK
  <1>2. ASSUME NEW passo, Segue(p, passo)
        PROVE  /\ proc'[p].pc = passo /\ proc'[p].motivo = proc[p].motivo
               /\ \A q \in Procs \ {p} : proc'[q] = proc[q]
    BY <1>1, <1>2 DEF Segue, Pedido
  <1>3. Responde(p) => \A q \in Procs \ {p} : proc'[q] = proc[q]
    BY <1>1 DEF Responde
  <1>4. ASSUME NEW r, Comeca(p, r)
        PROVE  p \notin Devendo /\ \A q \in Procs \ {p} : proc'[q] = proc[q]
    BY <1>1, <1>4 DEF Comeca, Esta, Devendo, Sinalizando
  <1> QED BY <1>2, <1>3, <1>4

\* The password's alert: raised, if there is a signal.
LEMMA SenhaPaga ==
    ASSUME TypeOK, NEW p \in Procs, NEW motivo, alertarSenha(p, motivo)
    PROVE  "emergencia" \in motivo =>
              \E x : x \notin Emergencias /\ Emergencias \cup {x} \subseteq Emergencias'
  <1>1. CASE "emergencia" \in motivo
    <2>1. criarAlerta(p, "emergencia") /\ "emergencia" \in TipoAlerta /\ p \in Criadores
      BY <1>1 DEF alertarSenha, TipoAlerta, Motivo, Criadores
    <2>2. /\ DOMAIN alertas' = DOMAIN alertas \cup {Len(alertas) + 1}
          /\ Len(alertas) + 1 \notin DOMAIN alertas
          /\ \A a \in DOMAIN alertas : alertas'[a] = alertas[a]
          /\ alertas'[Len(alertas) + 1].tipo = "emergencia"
      BY <2>1, Cria
    <2> DEFINE x == Len(alertas) + 1
    <2>3. x \notin Emergencias /\ Emergencias \cup {x} \subseteq Emergencias'
      BY <2>2 DEF Emergencias
    <2> QED BY <2>3
  <1> QED BY <1>1

LEMMA SaldoPasso ==
    ASSUME TypeOK, TypeOK', Saldo, falhas' = 0, [Next]_vars
    PROVE  Saldo'
  <1> USE DEF tabelas
  <1>1. Emergencias \subseteq Emergencias' /\ falhas \in Nat
    BY PassoHistoria, EmergenciasFicam DEF TypeOK
  <1>2. ~Falha
    BY <1>1 DEF Falha
  <1>3. ASSUME checkins' = checkins, Devendo \subseteq Devendo'
        PROVE  Saldo'
    <2>1. Sinais' \subseteq Sinais
      BY <1>3 DEF Sinais
    <2> QED BY <1>1, <1>3, <2>1, SaldoFica
  <1>4. ASSUME NEW p \in Procs, checkins' = checkins, p \notin Devendo,
               \A q \in Procs \ {p} : proc'[q] = proc[q]
        PROVE  Saldo'
    BY <1>3, <1>4, DevendoFica
  <1>5. ASSUME NEW p \in Procs, checkins' = checkins,
               alertarSenha(p, proc[p].motivo), \A q \in Procs \ {p} : proc'[q] = proc[q]
        PROVE  Saldo'
    <2>1. CASE "emergencia" \in proc[p].motivo
      <3>1. \E x : x \notin Emergencias /\ Emergencias \cup {x} \subseteq Emergencias'
        BY <1>5, <2>1, SenhaPaga
      <3>2. Sinais' \subseteq Sinais
        BY <1>5 DEF Sinais
      <3>3. Devendo \subseteq Devendo' \cup {p}
        BY <1>5, DevendoFica
      <3> QED BY <1>1, <3>1, <3>2, <3>3, SaldoFica
    <2>2. CASE "emergencia" \notin proc[p].motivo
      BY <1>4, <1>5, <2>2 DEF Devendo
    <2> QED BY <2>1, <2>2
  <1>6. ASSUME NEW p \in Procs, NEW passo \in Sinalizando, NEW ts, NEW chave,
               proc[p].pc \notin Sinalizando, Segue(p, passo),
               [ts |-> ts, chave |-> chave, motivo |-> proc[p].motivo] \in Checkin,
               Inserir(ts, chave, proc[p].motivo)
        PROVE  Saldo'
    <2>1. /\ proc'[p].pc = passo /\ proc'[p].motivo = proc[p].motivo
          /\ \A q \in Procs \ {p} : proc'[q] = proc[q]
      BY <1>6, Prossegue
    <2>2. p \notin Devendo /\ Devendo \subseteq Devendo'
      BY <1>6, <2>1, DevendoFica DEF Devendo
    <2>3. /\ Sinais' \subseteq Sinais \cup {Len(checkins) + 1}
          /\ "emergencia" \notin proc[p].motivo => Sinais' \subseteq Sinais
      BY <1>6, SinaisCrescem
    <2>4. CASE "emergencia" \in proc[p].motivo
      <3>1. p \in Devendo'
        BY <1>6, <2>1, <2>4 DEF Devendo
      <3>2. p \notin Devendo /\ Devendo \cup {p} \subseteq Devendo'
        BY <2>2, <3>1
      <3>3. \E x : Sinais' \subseteq Sinais \cup {x}
        BY <2>3
      <3> QED BY <1>1, <3>2, <3>3, SaldoFica
    <2>5. CASE "emergencia" \notin proc[p].motivo
      BY <1>1, <2>2, <2>3, <2>5, SaldoFica
    <2> QED BY <2>4, <2>5
  <1>7. CASE UNCHANGED vars
    <2>1. checkins' = checkins /\ Devendo' = Devendo
      BY <1>7 DEF vars, Devendo
    <2> QED BY <1>3, <2>1
  <1>8. ASSUME NEW p \in Procs, FazerCheckin(p)
        PROVE  Saldo'
    <2>1. ASSUME NEW ts, NEW motivo, CheckinLer(p, ts, motivo)
          PROVE  Saldo'
      <3>1. p \notin Devendo /\ (\A q \in Procs \ {p} : proc'[q] = proc[q]) /\ checkins' = checkins
        BY <2>1, Prossegue DEF CheckinLer, Comeca
      <3> QED BY <1>4, <3>1
    <2>2. CASE CheckinGravar(p)
      <3>1. [ts |-> proc[p].ts, chave |-> NULL, motivo |-> proc[p].motivo] \in Checkin
        BY DEF TypeOK, Pedido, Checkin
      <3> QED BY <1>6, <2>2, <3>1 DEF CheckinGravar, Esta, Sinalizando
    <2>3. CASE CheckinResolver(p)
      <3>1. /\ proc[p].pc = "chk_resolver" /\ proc'[p].pc = "chk_senha"
            /\ proc'[p].motivo = proc[p].motivo /\ checkins' = checkins
            /\ \A q \in Procs \ {p} : proc'[q] = proc[q]
        BY <2>3, Prossegue DEF CheckinResolver, Esta
      <3>2. Devendo \subseteq Devendo'
        BY <3>1 DEF Devendo, Sinalizando
      <3> QED BY <1>3, <3>1, <3>2
    <2>4. CASE CheckinSenha(p)
      BY <1>2, <1>5, <2>4, Prossegue DEF CheckinSenha
    <2>5. CASE CheckinContar(p) \/ CheckinCriar(p)
      <3>1. p \notin Devendo /\ checkins' = checkins
        BY <2>5 DEF CheckinContar, CheckinCriar, Esta, Devendo, Sinalizando
      <3>2. \A q \in Procs \ {p} : proc'[q] = proc[q]
        BY <2>5, Prossegue DEF CheckinContar, CheckinCriar
      <3> QED BY <1>4, <3>1, <3>2
    <2> QED BY <1>8, <2>1, <2>2, <2>3, <2>4, <2>5 DEF FazerCheckin
  <1>9. ASSUME NEW p \in Procs, ProcessarLote(p)
        PROVE  Saldo'
    <2>1. CASE LoteComecar(p)
      <3>1. p \notin Devendo /\ (\A q \in Procs \ {p} : proc'[q] = proc[q]) /\ checkins' = checkins
        BY <2>1, Prossegue DEF LoteComecar, Comeca
      <3> QED BY <1>4, <3>1
    <2>2. ASSUME NEW ts, NEW chave, NEW motivo, LoteLer(p, ts, chave, motivo)
          PROVE  Saldo'
      <3>1. p \notin Devendo /\ checkins' = checkins
        BY <2>2 DEF LoteLer, Esta, Devendo, Sinalizando
      <3>2. \A q \in Procs \ {p} : proc'[q] = proc[q]
        BY <2>2 DEF LoteLer, TypeOK
      <3> QED BY <1>4, <3>1, <3>2
    <2>3. CASE LoteGravar(p)
      <3>1. /\ proc[p].pc = "lote_gravar"
            /\ [ts |-> proc[p].ts, chave |-> proc[p].chave, motivo |-> proc[p].motivo] \in Checkin
        BY <2>3 DEF LoteGravar, Esta, TypeOK, Pedido, Checkin
      <3>2. CASE Inserir(proc[p].ts, proc[p].chave, proc[p].motivo) /\ Segue(p, "lote_senha")
        BY <1>6, <3>1, <3>2 DEF Sinalizando
      <3>3. CASE UNCHANGED checkins /\ Segue(p, "lote_senha")
        BY <1>4, <3>1, <3>3, Prossegue DEF Devendo, Sinalizando
      <3> QED BY <1>2, <2>3, <3>2, <3>3 DEF LoteGravar
    <2>4. CASE LoteSenha(p)
      BY <1>2, <1>5, <2>4, Prossegue DEF LoteSenha
    <2>5. CASE Reconcile(p) \/ ReconcileFechar(p)
      <3>1. p \notin Devendo /\ checkins' = checkins
        BY <2>5 DEF Reconcile, ReconcileFechar, Esta, Devendo, Sinalizando
      <3>2. \A q \in Procs \ {p} : proc'[q] = proc[q]
        BY <2>5, Prossegue DEF Reconcile, ReconcileFechar
      <3> QED BY <1>4, <3>1, <3>2
    <2> QED BY <1>9, <2>1, <2>2, <2>3, <2>4, <2>5 DEF ProcessarLote
  <1>10. ASSUME NEW p \in Procs, Painel(p)
         PROVE  Saldo'
    <2>1. ASSUME NEW a, ReconhecerLer(p, a) \/ EncerrarLer(p, a)
          PROVE  Saldo'
      <3>1. p \notin Devendo /\ (\A q \in Procs \ {p} : proc'[q] = proc[q]) /\ checkins' = checkins
        BY <2>1, Prossegue DEF ReconhecerLer, EncerrarLer, Comeca
      <3> QED BY <1>4, <3>1
    <2>2. CASE PainelGravar(p)
      <3>1. p \notin Devendo /\ checkins' = checkins
        BY <2>2 DEF PainelGravar, Esta, Devendo, Sinalizando
      <3>2. \A q \in Procs \ {p} : proc'[q] = proc[q]
        BY <2>2, Prossegue DEF PainelGravar
      <3> QED BY <1>4, <3>1, <3>2
    <2> QED BY <1>10, <2>1, <2>2 DEF Painel
  <1>11. ASSUME NEW p \in Procs PROVE ~Abortar(p)
    BY <1>2 DEF Abortar
  <1>12. ASSUME checkins' = checkins, proc' = proc
         PROVE  Saldo'
    BY <1>3, <1>12 DEF Devendo
  <1>13. ASSUME NEW ids, EmLote(ids)
         PROVE  Saldo'
    BY <1>12, <1>13 DEF EmLote
  <1>14. CASE CheckOnce
    BY <1>12, <1>14
       DEF CheckOnce, listTurnosAtivos, processTurno, CheckerContar, CheckerCriar
  <1>15. CASE (\E x \in Criadores : Enviar(x)) \/ EnviarAlheio \/ AlertDispatcher
              \/ MudarStatus \/ Tique
    BY <1>12, <1>15 DEF Enviar, EnviarAlheio, AlertDispatcher, MudarStatus, Tique
  <1>16. ~CheckerErro /\ ~Reiniciar
    BY <1>2 DEF CheckerErro, Reiniciar
  <1>17. ASSUME NEW ts \in Timestamp, OutroCheckin(ts)
         PROVE  Saldo'
    <2>1. [ts |-> ts, chave |-> NULL, motivo |-> {}] \in Checkin
      BY DEF Timestamp, Checkin
    <2>2. Inserir(ts, NULL, {}) /\ proc' = proc
      BY <1>17 DEF OutroCheckin
    <2>3. Sinais' \subseteq Sinais
      BY SMTT(60), <2>1, <2>2, SinaisCrescem
    <2>4. Devendo \subseteq Devendo'
      BY <2>2 DEF Devendo
    <2> QED BY <1>1, <2>3, <2>4, SaldoFica
  <1> QED
    BY <1>7, <1>8, <1>9, <1>10, <1>11, <1>13, <1>14, <1>15, <1>16, <1>17 DEF Next

\* Failures are counted and never forgotten.
LEMMA FalhasCrescem ==
    ASSUME TypeOK, [Next]_vars, falhas' = 0
    PROVE  falhas = 0
  <1>1. falhas \in Nat /\ (Falha => falhas' # 0)
    BY DEF TypeOK, Falha
  <1>2. falhas' = falhas
    BY ZenonT(60), <1>1 DEF Next, vars, FazerCheckin, CheckinLer, Comeca, CheckinGravar, CheckinResolver,
                CheckinSenha, CheckinContar, CheckinCriar, ProcessarLote, LoteComecar, LoteLer,
                LoteGravar, LoteSenha, Reconcile, ReconcileFechar, Painel, ReconhecerLer,
                EncerrarLer, PainelGravar, Abortar, EmLote, CheckOnce, listTurnosAtivos,
                processTurno, CheckerContar, CheckerCriar, CheckerErro, Enviar, EnviarAlheio, AlertDispatcher,
                OutroCheckin, Reiniciar, MudarStatus, Tique, Ok
  <1> QED BY <1>2

\* As long as nothing fails, no duress password is lost: the check-ins that carry one are
\* never more than the alerts raised for it and the requests about to raise one.
THEOREM SinalCorrect == Spec => []SinalNaoSePerde
  <1>1. SinalNaoSePerde <=> (falhas = 0 => Saldo)
    BY DEF SinalNaoSePerde, Saldo, Sinais, Emergencias, Devendo, Sinalizando
  <1> DEFINE Inv == falhas = 0 => Saldo
  <1>2. Init => Inv
    <2> SUFFICES ASSUME Init PROVE Saldo
      OBVIOUS
    <2>1. Sinais = {}
      BY DEF Init, Sinais
    <2>2. Finitos
      BY InitTipo, SaldoFinito
    <2> QED BY <2>1, <2>2, FS_EmptySet DEF Saldo, Finitos
  <1>3. TypeOK /\ TypeOK' /\ Inv /\ [Next]_vars => Inv'
    BY FalhasCrescem, SaldoPasso
  <1> HIDE DEF Inv
  <1>4. Spec => []Inv
    BY <1>2, <1>3, TypeCorrect, PTL DEF Spec
  <1>5. Inv => SinalNaoSePerde
    BY <1>1 DEF Inv
  <1> QED BY <1>4, <1>5, PTL
-----------------------------------------------------------------------------
(* The life of an alert.                                                   *)

\* No alert is sent twice: those on their way have one creator each.
Distintos ==
    \A x, y \in Criadores : porEnviar[x] # 0 /\ porEnviar[x] = porEnviar[y] => x = y

LEMMA DistintosCorrect == Spec => []Distintos
  <1>1. Init => Distintos
    BY DEF Init, Distintos
  <1>2. TypeOK /\ Distintos /\ [Next]_vars => Distintos'
    <2> SUFFICES ASSUME TypeOK, Distintos, [Next]_vars PROVE Distintos'
      OBVIOUS
    <2>1. /\ porEnviar \in [Criadores -> DOMAIN alertas \cup {0}]
          /\ Len(alertas) + 1 \notin DOMAIN alertas /\ Len(alertas) + 1 # 0
      BY DominioSeq DEF TypeOK
    <2>2. CASE porEnviar' = porEnviar
      BY <2>2 DEF Distintos
    <2>3. ASSUME NEW x \in Criadores, Envia(x) PROVE Distintos'
      BY <2>1, <2>3 DEF Envia, Distintos
    <2>4. CASE Esquece
      BY <2>4 DEF Esquece, Distintos
    <2>5. ASSUME NEW x \in Criadores, NEW tipo, Levanta(x, tipo) PROVE Distintos'
      <3>1. porEnviar' = [porEnviar EXCEPT ![x] = Len(alertas) + 1] \/ porEnviar' = porEnviar
        BY <2>5 DEF Levanta, criarAlerta
      <3>2. \A y \in Criadores : porEnviar[y] # Len(alertas) + 1
        BY <2>1
      <3> QED BY <2>1, <3>1, <3>2 DEF Distintos
    <2> QED
      BY <2>2, <2>3, <2>4, <2>5, PassoHistoria, HistoriaCasos
         DEF Mantem, Reescreve, Ocupa, Toma, entrega
  <1> QED BY <1>1, <1>2, TypeCorrect, PTL DEF Spec

\* The table as Ocorrencias sees it.
Vista == [a \in DOMAIN alertas |-> [tipo |-> alertas[a].tipo, status |-> Situacao(a)]]

LEMMA VistaSeq ==
    ASSUME TypeOK
    PROVE  /\ Vista \in Seq([tipo : TipoAlerta, status : {"aberto", "reconhecido", "fechado"}])
           /\ Len(Vista) = Len(alertas)
  <1>1. Len(alertas) \in Nat /\ DOMAIN alertas = 1 .. Len(alertas)
    BY DominioSeq DEF TypeOK
  <1>2. ASSUME NEW a \in DOMAIN alertas
        PROVE  [tipo |-> alertas[a].tipo, status |-> Situacao(a)]
                  \in [tipo : TipoAlerta, status : {"aberto", "reconhecido", "fechado"}]
    <2>1. alertas[a] \in Alerta
      BY DominioSeq DEF TypeOK
    <2> QED BY <2>1 DEF Alerta, Situacao, Pendente
  <1> DEFINE T == [tipo : TipoAlerta, status : {"aberto", "reconhecido", "fechado"}]
  <1>3. Vista \in [1 .. Len(alertas) -> T]
    BY <1>1, <1>2 DEF Vista
  <1> HIDE DEF T
  <1>4. Vista \in Seq(T) /\ Len(Vista) = Len(alertas)
    BY <1>1, <1>3, FuncaoSeq
  <1> QED BY <1>4 DEF T

LEMMA VidaInit == Init => Vida!Init
  <1> SUFFICES ASSUME Init PROVE Vida!Init
    OBVIOUS
  <1>1. TypeOK
    BY InitTipo
  <1>2. /\ canal = <<>> /\ avisados = {} /\ perdidos = {}
        /\ \A a \in DOMAIN alertas : alertas[a].tipo = "atraso_n1"
    BY DEF Init
  <1> DEFINE T == [tipo : TipoAlerta \ {"atraso"}, status : {"aberto", "reconhecido", "fechado"}]
  <1>3. Vista \in Seq(T)
    <2>1. Vista \in Seq([tipo : TipoAlerta, status : {"aberto", "reconhecido", "fechado"}])
      BY <1>1, VistaSeq
    <2>2. \A a \in DOMAIN alertas : Vista[a].tipo = "atraso_n1" /\ DOMAIN Vista = DOMAIN alertas
      BY <1>2 DEF Vista
    <2>3. /\ Len(Vista) \in Nat /\ DOMAIN Vista = 1 .. Len(Vista)
          /\ \A a \in DOMAIN Vista :
                Vista[a] \in [tipo : TipoAlerta, status : {"aberto", "reconhecido", "fechado"}]
      BY <2>1, DominioSeq
    <2>4. \A a \in DOMAIN Vista : Vista[a] \in T
      BY <2>2, <2>3 DEF Vista
    <2>5. Vista \in [1 .. Len(Vista) -> T]
      BY <2>3, <2>4 DEF Vista
    <2> HIDE DEF T
    <2> QED BY <2>3, <2>5, FuncaoSeq
  <1>4. EmMaos = {}
    BY DEF Init, EmMaos
  <1> QED BY <1>2, <1>3, <1>4 DEF Vida!Init, Vista

\* An UPDATE treats some alerts.
LEMMA VidaTratar ==
    ASSUME TypeOK, Reescreve
    PROVE  Vida!Next
  <1>1. PICK ids :
           \/ UpdateStatus(ids, "reconhecido", FALSE)
           \/ \E status \in Fechado : UpdateStatus(ids, status, TRUE)
    BY DEF Reescreve
  <1>2. PICK status \in Pendente \cup Fechado, resolvido \in BOOLEAN :
           status # "aberto" /\ UpdateStatus(ids, status, resolvido)
    BY <1>1 DEF Pendente, Fechado
  <1>3. /\ DOMAIN alertas' = DOMAIN alertas
        /\ \A a \in DOMAIN alertas :
              /\ alertas'[a].tipo = alertas[a].tipo
              /\ a \in ids => alertas'[a].status = status /\ alertas'[a].resolvido = resolvido
              /\ a \notin ids => alertas'[a] = alertas[a]
    BY ZenonT(60), <1>2, Atualiza
  <1> DEFINE X == ids \cap DOMAIN alertas
             s == IF status \in Fechado THEN "fechado" ELSE "reconhecido"
  <1>4. s \in {"reconhecido", "fechado"} /\ X \in SUBSET DOMAIN Vista
    BY DEF Vista
  <1>5. ASSUME NEW a \in DOMAIN alertas
        PROVE  Vista'[a] = IF a \in X THEN [Vista[a] EXCEPT !.status = s] ELSE Vista[a]
    <2>1. Situacao(a)' = IF a \in X THEN s ELSE Situacao(a)
      BY <1>2, <1>3 DEF Situacao, Pendente
    <2>2. Vista'[a] = [tipo |-> alertas[a].tipo, status |-> Situacao(a)']
      BY <1>3 DEF Vista
    <2>3. Vista[a] = [tipo |-> alertas[a].tipo, status |-> Situacao(a)]
      BY DEF Vista
    <2> QED BY <2>1, <2>2, <2>3
  <1>6. Vista' = [a \in DOMAIN Vista |->
                    IF a \in X THEN [Vista[a] EXCEPT !.status = s] ELSE Vista[a]]
    BY <1>3, <1>5 DEF Vista
  <1>7. Vida!Tratar(X, s)
    <2>1. EmMaos' = EmMaos /\ UNCHANGED <<canal, avisados, perdidos>>
      BY DEF Reescreve, entrega, EmMaos
    <2> QED BY <1>6, <2>1 DEF Vida!Tratar, Vista
  <1> QED BY <1>4, <1>7 DEF Vida!Next, Vista

\* The dispatcher takes the oldest alert of the channel.
LEMMA VidaAvisar ==
    ASSUME UNCHANGED alertas, Toma
    PROVE  Vida!Next
  <1>1. EmMaos' = EmMaos
    BY DEF Toma, EmMaos
  <1>2. Vista' = Vista
    BY DEF Vista, Situacao
  <1>3. Vida!Avisar
    BY <1>1, <1>2 DEF Vida!Avisar, Toma, Vista
  <1> QED BY <1>3 DEF Vida!Next

\* An alert of another shift enters the channel.
LEMMA VidaOcupar ==
    ASSUME TypeOK, UNCHANGED alertas, Ocupa
    PROVE  Vida!Next
  <1>1. EmMaos' = EmMaos
    BY DEF Ocupa, EmMaos
  <1>2. Vista' = Vista
    BY DEF Vista, Situacao
  <1>3. Len(canal) \in Nat /\ ~(Len(canal) >= CapCanal)
    BY DominioSeq, ConstantesOK DEF Ocupa, TypeOK
  <1>4. Vida!Ocupar
    BY <1>1, <1>2, <1>3 DEF Vida!Ocupar, Vida!Cheia, Ocupa, Vista
  <1> QED BY <1>4 DEF Vida!Next

\* A creator sends its alert, which then is on its way no longer.
LEMMA VidaEnfileirar ==
    ASSUME TypeOK, Distintos, UNCHANGED alertas, NEW x \in Criadores, Envia(x)
    PROVE  Vida!Next
  <1> DEFINE a == porEnviar[x]
  <1>1. porEnviar \in [Criadores -> DOMAIN alertas \cup {0}] /\ a # 0
    BY DEF TypeOK, Envia
  <1>2. porEnviar' = [porEnviar EXCEPT ![x] = 0]
    BY DEF Envia
  <1>3. EmMaos' = EmMaos \ {a}
    <2>1. \A y \in Criadores : porEnviar'[y] = IF y = x THEN 0 ELSE porEnviar[y]
      BY <1>1, <1>2
    <2>2. \A y \in Criadores : porEnviar[y] = a => y = x
      BY <1>1 DEF Distintos
    <2>3. EmMaos' = {porEnviar'[y] : y \in Criadores} \ {0}
      BY DEF EmMaos
    <2> QED BY <2>1, <2>2, <2>3 DEF EmMaos
  <1>4. a \in EmMaos
    BY <1>1 DEF EmMaos
  <1>5. Vista' = Vista
    BY DEF Vista, Situacao
  <1>6. Vida!Enfileirar(a)
    BY <1>3, <1>4, <1>5 DEF Vida!Enfileirar, Vida!Cheia, Envia, Vista
  <1> QED BY <1>4, <1>6 DEF Vida!Next

\* A restart loses the channel, and what is on its way there.
LEMMA VidaParar ==
    ASSUME UNCHANGED alertas, Esquece
    PROVE  Vida!Next
  <1>1. EmMaos' = {}
    BY DEF Esquece, EmMaos
  <1>2. Vista' = Vista
    BY DEF Vista, Situacao
  <1>3. perdidos' = perdidos \cup EmMaos \cup ({canal[i] : i \in DOMAIN canal} \ {Alheio})
    BY DEF Esquece, NoCanal
  <1>4. Vida!Parar
    BY <1>1, <1>2, <1>3 DEF Vida!Parar, Esquece, Vista
  <1> QED BY <1>4 DEF Vida!Next

\* An INSERT raises an alert.
LEMMA VidaLevantar ==
    ASSUME TypeOK, NEW x \in Criadores, NEW tipo \in TipoAlerta, Levanta(x, tipo),
           tipo = "atraso" =>
              \A a \in DOMAIN alertas : alertas[a].tipo = "atraso" => alertas[a].status # "aberto"
    PROVE  Vida!Next
  <1> DEFINE n    == Len(alertas)
             nova == [tipo |-> tipo, status |-> "aberto"]
             T    == [tipo : TipoAlerta, status : {"aberto", "reconhecido", "fechado"}]
  <1>1. n \in Nat /\ DOMAIN alertas = 1 .. n /\ DOMAIN Vista = 1 .. n
    BY DominioSeq DEF TypeOK, Vista
  <1>2. /\ DOMAIN alertas' = DOMAIN alertas \cup {n + 1}
        /\ \A a \in DOMAIN alertas : alertas'[a] = alertas[a]
        /\ alertas'[n + 1].tipo = tipo /\ alertas'[n + 1].status = "aberto"
    BY Cria DEF Levanta
  <1>3. Vista \in Seq(T) /\ Len(Vista) = n /\ nova \in T
    BY VistaSeq
  <1>4. Vista' = Append(Vista, nova)
    <2>1. /\ Append(Vista, nova) \in Seq(T)
          /\ DOMAIN Append(Vista, nova) = 1 .. n + 1
          /\ \A a \in 1 .. n : Append(Vista, nova)[a] = Vista[a]
          /\ Append(Vista, nova)[n + 1] = nova
      <3> HIDE DEF T, nova
      <3> QED BY <1>3, AppendSeq
    <2>2. DOMAIN alertas' = 1 .. n + 1
      BY <1>1, <1>2
    <2>3. Vista' = [a \in 1 .. n + 1 |-> [tipo |-> alertas'[a].tipo, status |-> Situacao(a)']]
      BY <2>2 DEF Vista
    <2>4. ASSUME NEW a \in 1 .. n PROVE Vista'[a] = Vista[a]
      <3>1. a \in 1 .. n + 1 /\ a \in DOMAIN alertas
        BY <1>1
      <3> QED BY <1>2, <2>3, <3>1 DEF Vista, Situacao
    <2>5. Vista'[n + 1] = nova
      BY <1>1, <1>2, <2>3 DEF Situacao, Fechado
    <2>6. 1 .. n + 1 = (1 .. n) \cup {n + 1}
      BY <1>1
    <2>7. \A a \in 1 .. n + 1 : Vista'[a] = Append(Vista, nova)[a]
      BY <2>1, <2>4, <2>5, <2>6
    <2>8. Append(Vista, nova) = [a \in 1 .. n + 1 |-> Append(Vista, nova)[a]]
      <3>1. \A q \in Seq(T) : q = [a \in DOMAIN q |-> q[a]]
        OBVIOUS
      <3> HIDE DEF T, nova
      <3> QED BY <2>1, <3>1
    <2> QED BY <2>3, <2>7, <2>8
  <1>5. tipo = "atraso" => ~Vida!AtrasoAberto
    BY DEF Vida!AtrasoAberto, Situacao, Fechado
  <1>6. /\ EmMaos' \in {EmMaos, EmMaos \cup {n + 1}}
        /\ UNCHANGED <<canal, avisados, perdidos>>
    <2>1. /\ porEnviar \in [Criadores -> DOMAIN alertas \cup {0}] /\ porEnviar[x] = 0
          /\ porEnviar' = [porEnviar EXCEPT ![x] = n + 1] \/ porEnviar' = porEnviar
          /\ UNCHANGED <<canal, avisados, perdidos>>
      BY DEF TypeOK, Levanta, criarAlerta
    <2>2. EmMaos' = {porEnviar'[y] : y \in Criadores} \ {0}
      BY DEF EmMaos
    <2>3. CASE porEnviar' = porEnviar
      BY <2>1, <2>2, <2>3 DEF EmMaos
    <2>4. CASE porEnviar' = [porEnviar EXCEPT ![x] = n + 1]
      <3>1. \A y \in Criadores : porEnviar'[y] = IF y = x THEN n + 1 ELSE porEnviar[y]
        BY <2>1, <2>4
      <3>2. n + 1 # 0
        BY <1>1
      <3>3. EmMaos' = EmMaos \cup {n + 1}
        BY <2>1, <2>2, <3>1, <3>2 DEF EmMaos
      <3> QED BY <2>1, <3>3
    <2> QED BY <2>1, <2>3, <2>4
  <1>7. Vida!Levantar(tipo)
    BY <1>3, <1>4, <1>5, <1>6 DEF Vida!Levantar, Vista
  <1> QED BY <1>7 DEF Vida!Next

LEMMA VidaNext ==
    ASSUME TypeOK, Distintos, Dedup, [Next]_vars
    PROVE  [Vida!Next]_(Vida!vars)
  <1>1. Historia
    BY PassoHistoria
  <1>2. CASE UNCHANGED <<alertas, entrega>>
    BY <1>2 DEF Vida!vars, Situacao, EmMaos, entrega
  <1>3. CASE UNCHANGED alertas /\ (Ocupa \/ Toma \/ Esquece)
    BY <1>3, VidaOcupar, VidaAvisar, VidaParar
  <1>4. CASE UNCHANGED alertas /\ \E x \in Criadores : Envia(x)
    BY <1>4, VidaEnfileirar
  <1>5. CASE Reescreve
    BY <1>5, VidaTratar
  <1>6. ASSUME NEW x \in Criadores, NEW tipo \in Motivo, Levanta(x, tipo) PROVE Vida!Next
    BY <1>6, VidaLevantar DEF TipoAlerta, Motivo
  <1>7. CASE Levanta(NULL, "atraso") /\ checker = "criar"
    BY <1>7, VidaLevantar DEF TipoAlerta, Dedup, Criadores
  <1> QED BY <1>1, <1>2, <1>3, <1>4, <1>5, <1>6, <1>7 DEF Historia, Mantem

\* What all actors do to the alerts, the channel and the record of who was told, one
\* statement at a time and guarded by what they read before, is the life of an alert
\* that Ocorrencias states, for any number of requests and any capacity: creators may
\* overtake each other between their INSERT and their send, but each sends its own.
THEOREM OcorrenciasCorrect == Spec => ImplementaOcorrencias
  <1>1. TypeOK /\ Distintos /\ Dedup /\ [Next]_vars => [Vida!Next]_(Vida!vars)
    BY VidaNext
  <1> QED BY <1>1, VidaInit, TypeCorrect, DistintosCorrect, DedupCorrect, PTL
          DEF Spec, ImplementaOcorrencias, Vida!Spec
=============================================================================
