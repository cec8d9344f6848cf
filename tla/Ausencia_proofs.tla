-------------------------- MODULE Ausencia_proofs --------------------------
(* Proofs about Ausencia, for all sets of schedules and substitutions, all *)
(* lengths of days and tolerances, and any number of failures and edits.   *)
EXTENDS Ausencia, SequenceTheorems, FiniteSetTheorems, TLAPS
-----------------------------------------------------------------------------
(* Facts about sequences and hours.                                        *)

\* Adding an element at the end.
LEMMA AppendSeq ==
    ASSUME NEW S, NEW s \in Seq(S), NEW e \in S
    PROVE  /\ Append(s, e) \in Seq(S)
           /\ Len(s) \in Nat
           /\ DOMAIN s = 1 .. Len(s)
           /\ DOMAIN Append(s, e) = 1 .. Len(s) + 1
           /\ \A i \in 1 .. Len(s) : Append(s, e)[i] = s[i]
           /\ Append(s, e)[Len(s) + 1] = e
  OBVIOUS

\* Replacing an element.
LEMMA TrocaSeq ==
    ASSUME NEW S, NEW s \in Seq(S), NEW i \in DOMAIN s, NEW e \in S
    PROVE  /\ [s EXCEPT ![i] = e] \in Seq(S)
           /\ DOMAIN [s EXCEPT ![i] = e] = DOMAIN s
           /\ [s EXCEPT ![i] = e][i] = e
           /\ \A j \in DOMAIN s : j # i => [s EXCEPT ![i] = e][j] = s[j]
  OBVIOUS

LEMMA ElementoSeq == ASSUME NEW S, NEW s \in Seq(S), NEW i \in DOMAIN s PROVE s[i] \in S
  OBVIOUS

\* The day of an hour, in both zones.
LEMMA DiaInteiro == ASSUME NEW t \in Int PROVE Dia(t) \in Int /\ Data(t) \in Int
  BY ConstantesOK DEF Dia, Data

\* The hours at which a commitment begins and ends.
LEMMA HorasInteiras ==
    ASSUME NEW e \in Compromissos, NEW d \in Int
    PROVE  Inicio(e, d) \in Int /\ Fim(e, d) \in Int
  <1>1. Horas \in Nat \ {0}
    BY ConstantesOK
  <1>2. e.inicio \in Int /\ e.fim \in Int
    BY CompromissosOK, <1>1
  <1>3. d * Horas \in Int
    BY <1>1
  <1>4. QED
    BY <1>1, <1>2, <1>3 DEF Inicio, Fim

LEMMA FimInteiro ==
    ASSUME NEW e \in Compromissos, NEW t \in Int
    PROVE  FimPrevisto(e, t) \in Int
  <1>1. Horas \in Nat \ {0} /\ e.fim \in Int
    BY ConstantesOK, CompromissosOK
  <1>2. Horas \div 2 \in Int
    BY <1>1
  <1>3. Dia(t) * Horas \in Int
    BY <1>1, DiaInteiro
  <1>4. QED
    BY <1>1, <1>2, <1>3 DEF FimPrevisto

\* A row inserted for a commitment of date d.
LEMMA InserirTipo ==
    ASSUME turnos \in Seq(Turno), NEW e \in Compromissos, NEW d \in Int,
           NEW status \in {"atrasado", "nao_realizado"},
           Inserir(e, status, Inicio(e, d), Fim(e, d))
    PROVE  turnos' \in Seq(Turno)
  <1>1. Inicio(e, d) \in Int /\ Fim(e, d) \in Int
    BY HorasInteiras
  <1>2. [por |-> e, status |-> status, inicio |-> Inicio(e, d), fim |-> Fim(e, d)] \in Turno
    BY <1>1 DEF Turno, Ausente
  <1>3. QED
    BY <1>2, AppendSeq DEF Inserir
-----------------------------------------------------------------------------
(* Types.                                                                  *)

ContaTipo == edicoes \in Nat /\ falhas \in Nat

LEMMA FalhaTipo == ASSUME falhas \in Nat, Ok \/ Falha PROVE falhas' \in Nat
  BY DEF Ok, Falha

CheckerTipo ==
    /\ checker \in [passo : {"parado", "substituicoes", "lista", "linha"}, quando : Nat,
                    faltam : SUBSET Compromissos, atual : Compromissos \cup {NULL}]
    /\ checker.passo = "linha" => checker.atual \in Compromissos

NrTipo == nr \in [passo : {"parado", "escalas", "substituicoes"}, quando : Nat,
                  dias : 0 .. DiasAtras, faltam : SUBSET Compromissos]

LEMMA ParadoTipo ==
    /\ checker' = Parado => CheckerTipo'
    /\ nr' = NrParado => NrTipo'
  BY ConstantesOK DEF Parado, NrParado, CheckerTipo, NrTipo

LEMMA RestamTipo ==
    ASSUME CheckerTipo, NEW faltam \in SUBSET Compromissos, Restam(faltam)
    PROVE  CheckerTipo'
  <1>1. CASE faltam = {}
    BY <1>1, ParadoTipo DEF Restam
  <1>2. CASE faltam # {}
    BY <1>2 DEF Restam, CheckerTipo
  <1>3. QED
    BY <1>1, <1>2

LEMMA NrEscalasTipo ==
    ASSUME TypeOK, NEW quando \in Nat, NEW dias \in 0 .. DiasAtras, NrEscalas(quando, dias)
    PROVE  NrTipo' /\ falhas' \in Nat
  <1>1. ConcluidasSemTurno(FALSE, Dia(quando) - dias, Hora(quando)) \in SUBSET Compromissos
    BY DEF ConcluidasSemTurno, TypeOK
  <1>2. NrTipo'
    <2>1. ASSUME NEW passo \in {"escalas", "substituicoes"}, NEW faltam \in SUBSET Compromissos,
                 nr' = [passo |-> passo, quando |-> quando, dias |-> dias, faltam |-> faltam]
          PROVE  NrTipo'
      BY <2>1 DEF NrTipo
    <2>2. {} \in SUBSET Compromissos
      OBVIOUS
    <2>3. QED
      BY <1>1, <2>1, <2>2 DEF NrEscalas
  <1>3. falhas' \in Nat
    BY FalhaTipo DEF NrEscalas, TypeOK
  <1>4. QED
    BY <1>2, <1>3

LEMMA TipoInicial == Init => TypeOK
  <1>1. <<>> \in Seq(Turno) /\ <<>> \in Seq(Alerta)
    OBVIOUS
  <1>2. QED
    BY <1>1, ConstantesOK DEF Init, TypeOK, Parado, NrParado

LEMMA TipoPasso == TypeOK /\ [Next]_vars => TypeOK'
  <1> SUFFICES ASSUME TypeOK, [Next]_vars PROVE TypeOK'
    OBVIOUS
  <1> USE DEF CheckerTipo, NrTipo
  <1>0. TypeOK => CheckerTipo /\ NrTipo
    BY DEF TypeOK
  <1>1. ASSUME NEW e \in Compromissos, Iniciar(e) PROVE TypeOK'
    <2>1. agora \in Int /\ FimPrevisto(e, agora) \in Int
      BY FimInteiro DEF TypeOK
    <2>2. [por |-> e, status |-> "em_andamento", inicio |-> agora,
           fim |-> FimPrevisto(e, agora)] \in Turno
      BY <2>1 DEF Turno, Ativo
    <2>3. turnos' \in Seq(Turno)
      BY <1>1, <2>2, AppendSeq DEF Iniciar, Inserir, TypeOK
    <2>4. QED
      BY <1>1, <2>3 DEF Iniciar, TypeOK
  <1>2. ASSUME NEW novos \in SUBSET Compromissos, Editar(novos) PROVE TypeOK'
    BY <1>2 DEF Editar, TypeOK
  <1>3. ASSUME NEW e \in Compromissos, Criar(e) \/ Delete(e) PROVE TypeOK'
    BY <1>2, <1>3 DEF Criar, Delete, TypeOK
  <1>4. ASSUME NEW e \in Compromissos, NEW f \in Compromissos, Update(e, f) PROVE TypeOK'
    BY <1>2, <1>4 DEF Update, TypeOK
  <1>5. ASSUME NEW e \in Compromissos, NEW dias \in SUBSET Compromissos, ReplaceLote(e, dias)
        PROVE  TypeOK'
    BY <1>2, <1>5 DEF ReplaceLote, TypeOK
  <1>6. ASSUME NEW i \in DOMAIN turnos, Finalizar(i) PROVE TypeOK'
    <2>1. [turnos[i] EXCEPT !.status = "finalizado"] \in Turno
      <3>1. turnos[i] \in Turno
        BY ElementoSeq DEF TypeOK
      <3>2. QED
        BY <3>1 DEF Turno
    <2>2. turnos' \in Seq(Turno)
      BY <1>6, <2>1, TrocaSeq DEF Finalizar, TypeOK
    <2>3. QED
      BY <1>6, <2>2 DEF Finalizar, TypeOK
  <1>7. ASSUME NEW a \in DOMAIN alertas, FecharAlerta(a) PROVE TypeOK'
    <2>1. [alertas[a] EXCEPT !.aberto = FALSE] \in Alerta
      <3>1. alertas[a] \in Alerta
        BY ElementoSeq DEF TypeOK
      <3>2. QED
        BY <3>1 DEF Alerta
    <2>2. alertas' \in Seq(Alerta)
      BY <1>7, <2>1, TrocaSeq DEF FecharAlerta, TypeOK
    <2>3. QED
      BY <1>7, <2>2 DEF FecharAlerta, TypeOK
  <1>8. ASSUME NoShowEscalas PROVE TypeOK'
    BY <1>8, ConstantesOK DEF NoShowEscalas, SemTurno, TypeOK
  <1>9. ASSUME NoShowSubstituicoes PROVE TypeOK'
    <2>1. checker.faltam \cup SemTurno(TRUE, checker.quando) \in SUBSET Compromissos
      BY DEF SemTurno, TypeOK
    <2>2. CheckerTipo'
      BY <1>0, <1>9, <2>1, RestamTipo, ParadoTipo DEF NoShowSubstituicoes
    <2>3. falhas' \in Nat
      BY <1>9, FalhaTipo DEF NoShowSubstituicoes, TypeOK
    <2>4. QED
      BY <1>9, <2>2, <2>3 DEF NoShowSubstituicoes, TypeOK
  <1>10. ASSUME NEW e \in Compromissos, NoShowAlerta(e) PROVE TypeOK'
    <2>1. checker.faltam \ {e} \in SUBSET Compromissos
      BY DEF TypeOK
    <2>2. CheckerTipo'
      <3>1. CASE Restam(checker.faltam \ {e})
        BY <1>0, <2>1, <3>1, RestamTipo
      <3>2. CASE checker' = [checker EXCEPT !.passo = "linha", !.atual = e]
        BY <1>0, <3>2
      <3>3. QED
        BY <1>10, <3>1, <3>2 DEF NoShowAlerta
    <2>3. alertas' \in Seq(Alerta)
      <3>1. Data(agora) \in Int
        BY DiaInteiro DEF TypeOK
      <3>2. [usuario |-> e.usuario, data |-> Data(agora), aberto |-> TRUE] \in Alerta
        BY <3>1 DEF Alerta
      <3>3. \/ UNCHANGED alertas
            \/ alertas' = Append(alertas, [usuario |-> e.usuario, data |-> Data(agora),
                                           aberto |-> TRUE])
        BY <1>10 DEF NoShowAlerta
      <3>4. alertas \in Seq(Alerta)
        BY DEF TypeOK
      <3>5. QED
        BY <3>2, <3>3, <3>4, AppendSeq
    <2>4. falhas' \in Nat
      BY <1>10, FalhaTipo DEF NoShowAlerta, TypeOK
    <2>5. QED
      BY <1>10, <2>2, <2>3, <2>4 DEF NoShowAlerta, TypeOK
  <1>11. ASSUME NoShowLinha PROVE TypeOK'
    <2>1. checker.atual \in Compromissos /\ checker.faltam \ {checker.atual} \in SUBSET Compromissos
      BY <1>11 DEF NoShowLinha, TypeOK
    <2>2. Dia(checker.quando) \in Int
      BY DiaInteiro DEF TypeOK
    <2>3. turnos' \in Seq(Turno)
      BY <1>11, <2>1, <2>2, InserirTipo DEF NoShowLinha, TypeOK
    <2>4. CheckerTipo'
      BY <1>0, <1>11, <2>1, RestamTipo DEF NoShowLinha
    <2>5. falhas' \in Nat
      BY <1>11, FalhaTipo DEF NoShowLinha, TypeOK
    <2>6. QED
      BY <1>11, <2>3, <2>4, <2>5 DEF NoShowLinha, TypeOK
  <1>12. ASSUME NrComecar PROVE TypeOK'
    <2>1. 1 \in 0 .. DiasAtras
      BY ConstantesOK
    <2>2. NrTipo' /\ falhas' \in Nat
      BY <1>12, <2>1, NrEscalasTipo DEF NrComecar, TypeOK
    <2>3. QED
      BY <1>12, <2>2 DEF NrComecar, TypeOK
  <1>13. ASSUME NrSubstituicoes PROVE TypeOK'
    <2>1. ConcluidasSemTurno(TRUE, NrDia, Hora(nr.quando)) \in SUBSET Compromissos
      BY DEF ConcluidasSemTurno, TypeOK
    <2>2. NrTipo'
      BY <1>0, <1>13, <2>1 DEF NrSubstituicoes
    <2>3. falhas' \in Nat
      BY <1>13, FalhaTipo DEF NrSubstituicoes, TypeOK
    <2>4. QED
      BY <1>13, <2>2, <2>3 DEF NrSubstituicoes, TypeOK
  <1>14. ASSUME NEW e \in Compromissos, NrLinha(e) PROVE TypeOK'
    <2>1. NrDia \in Int
      <3>1. Dia(nr.quando) \in Int /\ nr.dias \in Int
        BY DiaInteiro, ConstantesOK DEF TypeOK
      <3>2. QED
        BY <3>1 DEF NrDia
    <2>2. turnos' \in Seq(Turno)
      BY <1>14, <2>1, InserirTipo DEF NrLinha, TypeOK
    <2>3. NrTipo'
      BY <1>0, <1>14 DEF NrLinha
    <2>4. falhas' \in Nat
      BY <1>14, FalhaTipo DEF NrLinha, TypeOK
    <2>5. QED
      BY <1>14, <2>2, <2>3, <2>4 DEF NrLinha, TypeOK
  <1>15. ASSUME NrProximo PROVE TypeOK'
    <2>1. NrTipo' /\ falhas' \in Nat
      <3>1. CASE nr.dias < DiasAtras
        <4>1. nr.dias + 1 \in 0 .. DiasAtras /\ nr.quando \in Nat
          BY <3>1, ConstantesOK DEF TypeOK
        <4>2. QED
          BY <1>15, <3>1, <4>1, NrEscalasTipo DEF NrProximo
      <3>2. CASE ~(nr.dias < DiasAtras)
        BY <1>15, <3>2, ParadoTipo, FalhaTipo DEF NrProximo, TypeOK
      <3>3. QED
        BY <3>1, <3>2
    <2>2. QED
      BY <1>15, <2>1 DEF NrProximo, TypeOK
  <1>16. ASSUME Reiniciar PROVE TypeOK'
    <2>1. CheckerTipo' /\ NrTipo' /\ falhas' \in Nat
      BY <1>16, ParadoTipo, FalhaTipo DEF Reiniciar, TypeOK
    <2>2. QED
      BY <1>16, <2>1 DEF Reiniciar, TypeOK
  <1>17. ASSUME Tique PROVE TypeOK'
    BY <1>17 DEF Tique, TypeOK
  <1>18. CASE UNCHANGED vars
    BY <1>18 DEF vars, TypeOK
  <1>19. QED
    BY <1>1, <1>3, <1>4, <1>5, <1>6, <1>7, <1>8, <1>9, <1>10, <1>11, <1>12, <1>13, <1>14,
       <1>15, <1>16, <1>17, <1>18 DEF Next, checkNoShow, NaoRealizado

\* The tables and both workers keep their types, however schedules are edited
\* under them, statements fail and the server restarts.
THEOREM TypeCorrect == Spec => []TypeOK
  BY TipoInicial, TipoPasso, PTL DEF Spec
-----------------------------------------------------------------------------
(* Every shift recorded as atrasado had an alert.                          *)

Atrasados(ts, u) ==
    {i \in DOMAIN ts : ts[i].status = "atrasado" /\ ts[i].por.usuario = u}

Avisos(as, u) == {a \in DOMAIN as : as[a].usuario = u}

\* The checker has raised the alert and not inserted the shift yet.
Devendo(c, u) == IF c.passo = "linha" /\ c.atual.usuario = u THEN 1 ELSE 0

\* Stronger than AtrasadoTemAlerta: the alert of the shift that the checker is
\* about to insert is not one of those that earlier shifts had.
Sobra(ts, as, c, u) ==
    Cardinality(Atrasados(ts, u)) + Devendo(c, u) <= Cardinality(Avisos(as, u))

Cobertos == \A e \in Compromissos : Sobra(turnos, alertas, checker, e.usuario)

LEMMA Indices ==
    ASSUME NEW S, NEW s \in Seq(S), NEW T \in SUBSET DOMAIN s
    PROVE  IsFiniteSet(T) /\ Cardinality(T) \in Nat
  <1>1. DOMAIN s = 1 .. Len(s) /\ Len(s) \in Int /\ 1 \in Int
    BY LenProperties
  <1>2. IsFiniteSet(DOMAIN s)
    BY <1>1, FS_Interval
  <1>3. IsFiniteSet(T)
    BY <1>2, FS_Subset
  <1>4. QED
    BY <1>3, FS_CardinalityType

LEMMA Finitos ==
    ASSUME NEW ts \in Seq(Turno), NEW as \in Seq(Alerta), NEW u
    PROVE  /\ IsFiniteSet(Atrasados(ts, u)) /\ Cardinality(Atrasados(ts, u)) \in Nat
           /\ IsFiniteSet(Avisos(as, u)) /\ Cardinality(Avisos(as, u)) \in Nat
  <1>1. Atrasados(ts, u) \in SUBSET DOMAIN ts /\ Avisos(as, u) \in SUBSET DOMAIN as
    BY DEF Atrasados, Avisos
  <1>2. QED
    BY <1>1, Indices

\* A row at the end of the table of shifts.
LEMMA LinhaNova ==
    ASSUME NEW ts \in Seq(Turno), NEW r \in Turno, NEW u
    PROVE  /\ r.status = "atrasado" /\ r.por.usuario = u =>
                Cardinality(Atrasados(Append(ts, r), u)) = Cardinality(Atrasados(ts, u)) + 1
           /\ r.status # "atrasado" \/ r.por.usuario # u =>
                Atrasados(Append(ts, r), u) = Atrasados(ts, u)
  <1> DEFINE n == Len(ts) + 1
  <1>1. /\ DOMAIN ts = 1 .. Len(ts) /\ Len(ts) \in Nat
        /\ DOMAIN Append(ts, r) = 1 .. n
        /\ \A i \in 1 .. Len(ts) : Append(ts, r)[i] = ts[i]
        /\ Append(ts, r)[n] = r
    BY AppendSeq
  <1>2. 1 .. n = 1 .. Len(ts) \cup {n} /\ n \notin 1 .. Len(ts)
    BY <1>1
  <1>3. CASE r.status = "atrasado" /\ r.por.usuario = u
    <2>1. Atrasados(Append(ts, r), u) = Atrasados(ts, u) \cup {n}
      BY <1>1, <1>2, <1>3 DEF Atrasados
    <2>2. n \notin Atrasados(ts, u)
      BY <1>1, <1>2 DEF Atrasados
    <2>3. IsFiniteSet(Atrasados(ts, u))
      <3>1. <<>> \in Seq(Alerta)
        OBVIOUS
      <3>2. QED
        BY <3>1, Finitos
    <2>4. Cardinality(Atrasados(ts, u) \cup {n}) = Cardinality(Atrasados(ts, u)) + 1
      BY <2>2, <2>3, FS_AddElement
    <2>5. QED
      BY <1>3, <2>1, <2>4
  <1>4. CASE r.status # "atrasado" \/ r.por.usuario # u
    BY <1>1, <1>2, <1>4 DEF Atrasados
  <1>5. QED
    BY <1>3, <1>4

\* An alert at the end of the table of alerts.
LEMMA AlertaNovo ==
    ASSUME NEW as \in Seq(Alerta), NEW r \in Alerta, NEW u
    PROVE  /\ r.usuario = u =>
                Cardinality(Avisos(Append(as, r), u)) = Cardinality(Avisos(as, u)) + 1
           /\ r.usuario # u => Avisos(Append(as, r), u) = Avisos(as, u)
  <1> DEFINE n == Len(as) + 1
  <1>1. /\ DOMAIN as = 1 .. Len(as) /\ Len(as) \in Nat
        /\ DOMAIN Append(as, r) = 1 .. n
        /\ \A i \in 1 .. Len(as) : Append(as, r)[i] = as[i]
        /\ Append(as, r)[n] = r
    BY AppendSeq
  <1>2. 1 .. n = 1 .. Len(as) \cup {n} /\ n \notin 1 .. Len(as)
    BY <1>1
  <1>3. CASE r.usuario = u
    <2>1. Avisos(Append(as, r), u) = Avisos(as, u) \cup {n}
      BY <1>1, <1>2, <1>3 DEF Avisos
    <2>2. n \notin Avisos(as, u)
      BY <1>1, <1>2 DEF Avisos
    <2>3. IsFiniteSet(Avisos(as, u))
      <3>1. <<>> \in Seq(Turno)
        OBVIOUS
      <3>2. QED
        BY <3>1, Finitos
    <2>4. Cardinality(Avisos(as, u) \cup {n}) = Cardinality(Avisos(as, u)) + 1
      BY <2>2, <2>3, FS_AddElement
    <2>5. QED
      BY <1>3, <2>1, <2>4
  <1>4. CASE r.usuario # u
    BY <1>1, <1>2, <1>4 DEF Avisos
  <1>5. QED
    BY <1>3, <1>4

\* Steps that change no count and leave the checker alone, or end what it owes.
LEMMA Igual ==
    ASSUME TypeOK, Cobertos,
           \A e \in Compromissos : /\ Atrasados(turnos', e.usuario) = Atrasados(turnos, e.usuario)
                                   /\ Avisos(alertas', e.usuario) = Avisos(alertas, e.usuario),
           checker' = checker \/ checker'.passo # "linha"
    PROVE  Cobertos'
  <1> SUFFICES ASSUME NEW e \in Compromissos
               PROVE  Sobra(turnos', alertas', checker', e.usuario)
    BY DEF Cobertos
  <1>1. Sobra(turnos, alertas, checker, e.usuario)
    BY DEF Cobertos
  <1>2. Devendo(checker', e.usuario) <= Devendo(checker, e.usuario)
        /\ Devendo(checker, e.usuario) \in Nat /\ Devendo(checker', e.usuario) \in Nat
    BY DEF Devendo
  <1>3. Cardinality(Atrasados(turnos, e.usuario)) \in Nat
        /\ Cardinality(Avisos(alertas, e.usuario)) \in Nat
    <2>1. turnos \in Seq(Turno) /\ alertas \in Seq(Alerta)
      BY DEF TypeOK
    <2>2. QED
      BY <2>1, Finitos
  <1>4. QED
    BY <1>1, <1>2, <1>3 DEF Sobra

\* The rows of a guard's own start and of the not-done worker are not atrasado.
LEMMA OutraLinha ==
    ASSUME TypeOK, Cobertos, NEW r \in Turno, r.status # "atrasado",
           turnos' = Append(turnos, r), UNCHANGED <<alertas, checker>>
    PROVE  Cobertos'
  <1>1. \A e \in Compromissos : Atrasados(turnos', e.usuario) = Atrasados(turnos, e.usuario)
    BY LinhaNova DEF TypeOK
  <1>2. QED
    BY <1>1, Igual

LEMMA RestamLivra ==
    ASSUME NEW faltam, Restam(faltam), TypeOK PROVE checker'.passo # "linha"
  BY DEF Restam, Parado, TypeOK

LEMMA CobertosInicial == Init => Cobertos
  <1> SUFFICES ASSUME Init, NEW e \in Compromissos
               PROVE  Sobra(turnos, alertas, checker, e.usuario)
    BY DEF Cobertos
  <1>1. Atrasados(turnos, e.usuario) = {} /\ Avisos(alertas, e.usuario) = {}
    BY DEF Init, Atrasados, Avisos
  <1>2. Devendo(checker, e.usuario) = 0
    BY DEF Init, Parado, Devendo
  <1>3. Cardinality({}) = 0
    BY FS_EmptySet
  <1>4. QED
    BY <1>1, <1>2, <1>3 DEF Sobra

LEMMA CobertosPasso == TypeOK /\ Cobertos /\ [Next]_vars => Cobertos'
  <1> SUFFICES ASSUME TypeOK, Cobertos, [Next]_vars PROVE Cobertos'
    OBVIOUS
  <1>0. turnos \in Seq(Turno) /\ alertas \in Seq(Alerta)
    BY DEF TypeOK
  <1>1. ASSUME NEW e \in Compromissos, Iniciar(e) PROVE Cobertos'
    <2>1. PICK fim \in Int : turnos' = Append(turnos, [por |-> e, status |-> "em_andamento",
                                                       inicio |-> agora, fim |-> fim])
      <3>1. agora \in Int
        BY DEF TypeOK
      <3>2. FimPrevisto(e, agora) \in Int
        BY <3>1, FimInteiro
      <3>3. QED
        BY <1>1, <3>2 DEF Iniciar, Inserir
    <2>2. [por |-> e, status |-> "em_andamento", inicio |-> agora, fim |-> fim] \in Turno
      BY <2>1 DEF Turno, Ativo, TypeOK
    <2>3. UNCHANGED <<alertas, checker>>
      BY <1>1 DEF Iniciar
    <2>4. QED
      BY <2>1, <2>2, <2>3, OutraLinha
  <1>2. ASSUME UNCHANGED <<turnos, alertas>>, checker' = checker \/ checker'.passo # "linha"
        PROVE  Cobertos'
    BY <1>2, Igual
  <1>3. ASSUME NEW novos, Editar(novos) PROVE Cobertos'
    BY <1>2, <1>3 DEF Editar
  <1>4. ASSUME NEW i \in DOMAIN turnos, Finalizar(i) PROVE Cobertos'
    <2>1. turnos[i] \in Turno
      BY <1>0, ElementoSeq
    <2>2. turnos[i].status # "atrasado"
      BY <1>4 DEF Finalizar, Ativo
    <2> DEFINE r == [turnos[i] EXCEPT !.status = "finalizado"]
    <2>3. r \in Turno /\ r.status = "finalizado"
      BY <2>1 DEF Turno
    <2>4. turnos' = [turnos EXCEPT ![i] = r]
      BY <1>4 DEF Finalizar
    <2>5. /\ DOMAIN turnos' = DOMAIN turnos /\ turnos'[i].status = "finalizado"
          /\ \A j \in DOMAIN turnos : j # i => turnos'[j] = turnos[j]
      BY <1>0, <2>3, <2>4, TrocaSeq
    <2>6. \A e \in Compromissos : Atrasados(turnos', e.usuario) = Atrasados(turnos, e.usuario)
      BY <2>2, <2>5 DEF Atrasados
    <2>7. QED
      BY <1>4, <2>6, Igual DEF Finalizar
  <1>5. ASSUME NEW a \in DOMAIN alertas, FecharAlerta(a) PROVE Cobertos'
    <2>1. alertas[a] \in Alerta
      BY <1>0, ElementoSeq
    <2> DEFINE r == [alertas[a] EXCEPT !.aberto = FALSE]
    <2>2. r \in Alerta /\ r.usuario = alertas[a].usuario
      BY <2>1 DEF Alerta
    <2>3. alertas' = [alertas EXCEPT ![a] = r]
      BY <1>5 DEF FecharAlerta
    <2>4. /\ DOMAIN alertas' = DOMAIN alertas /\ alertas'[a].usuario = alertas[a].usuario
          /\ \A j \in DOMAIN alertas : j # a => alertas'[j] = alertas[j]
      BY <1>0, <2>2, <2>3, TrocaSeq
    <2>5. \A e \in Compromissos : Avisos(alertas', e.usuario) = Avisos(alertas, e.usuario)
      BY <2>4 DEF Avisos
    <2>6. QED
      BY <1>5, <2>5, Igual DEF FecharAlerta
  <1>6. ASSUME NoShowEscalas PROVE Cobertos'
    <2>1. checker'.passo # "linha"
      BY <1>6 DEF NoShowEscalas
    <2>2. QED
      BY <1>2, <1>6, <2>1 DEF NoShowEscalas
  <1>7. ASSUME NoShowSubstituicoes PROVE Cobertos'
    <2>1. checker'.passo # "linha"
      BY <1>7, RestamLivra DEF NoShowSubstituicoes, Parado
    <2>2. QED
      BY <1>2, <1>7, <2>1 DEF NoShowSubstituicoes
  <1>8. ASSUME NEW e \in Compromissos, NoShowAlerta(e) PROVE Cobertos'
    <2>1. CASE Restam(checker.faltam \ {e}) /\ UNCHANGED alertas
      BY <1>2, <1>8, <2>1, RestamLivra DEF NoShowAlerta
    <2>2. ASSUME alertas' = Append(alertas, [usuario |-> e.usuario, data |-> Data(agora),
                                             aberto |-> TRUE]),
                 checker' = [checker EXCEPT !.passo = "linha", !.atual = e],
                 NEW f \in Compromissos
          PROVE  Sobra(turnos', alertas', checker', f.usuario)
      <3> DEFINE r == [usuario |-> e.usuario, data |-> Data(agora), aberto |-> TRUE]
      <3>1. Data(agora) \in Int
        BY DiaInteiro DEF TypeOK
      <3>2. r \in Alerta /\ r.usuario = e.usuario
        BY <3>1 DEF Alerta
      <3>3. turnos' = turnos /\ checker.passo # "linha"
        BY <1>8 DEF NoShowAlerta, Proximo
      <3>4. Devendo(checker, f.usuario) = 0
        BY <3>3 DEF Devendo
      <3>5. Devendo(checker', f.usuario) = IF e.usuario = f.usuario THEN 1 ELSE 0
        BY <2>2 DEF Devendo, TypeOK
      <3>6. Cardinality(Atrasados(turnos, f.usuario)) \in Nat
            /\ Cardinality(Avisos(alertas, f.usuario)) \in Nat
        BY <1>0, Finitos
      <3>7. Cardinality(Atrasados(turnos, f.usuario)) <= Cardinality(Avisos(alertas, f.usuario))
        BY <3>4, <3>6 DEF Cobertos, Sobra
      <3>8. alertas' = Append(alertas, r)
        BY <2>2
      <3>9. CASE e.usuario = f.usuario
        <4>1. Cardinality(Avisos(alertas', f.usuario)) = Cardinality(Avisos(alertas, f.usuario)) + 1
          BY <1>0, <3>2, <3>8, <3>9, AlertaNovo
        <4>2. QED
          BY <3>3, <3>5, <3>6, <3>7, <3>9, <4>1 DEF Sobra
      <3>10. CASE e.usuario # f.usuario
        <4>1. Avisos(alertas', f.usuario) = Avisos(alertas, f.usuario)
          BY <1>0, <3>2, <3>8, <3>10, AlertaNovo
        <4>2. QED
          BY <3>3, <3>5, <3>6, <3>7, <3>10, <4>1 DEF Sobra
      <3>11. QED
        BY <3>9, <3>10
    <2>3. QED
      BY <1>8, <2>1, <2>2 DEF NoShowAlerta, Cobertos
  <1>9. ASSUME NoShowLinha PROVE Cobertos'
    <2> DEFINE c == checker.atual
               d == Dia(checker.quando)
               r == [por |-> c, status |-> "atrasado", inicio |-> Inicio(c, d), fim |-> Fim(c, d)]
    <2>1. checker.passo = "linha" /\ c \in Compromissos
      BY <1>9 DEF NoShowLinha, TypeOK
    <2>2. checker'.passo # "linha"
      BY <1>9, RestamLivra DEF NoShowLinha
    <2>3. CASE UNCHANGED turnos
      BY <1>2, <1>9, <2>2, <2>3 DEF NoShowLinha
    <2>4. ASSUME turnos' = Append(turnos, r), NEW f \in Compromissos
          PROVE  Sobra(turnos', alertas', checker', f.usuario)
      <3>1. d \in Int
        BY DiaInteiro DEF TypeOK
      <3>2. Inicio(c, d) \in Int /\ Fim(c, d) \in Int
        BY <2>1, <3>1, HorasInteiras
      <3>3. r \in Turno /\ r.status = "atrasado" /\ r.por.usuario = c.usuario
        BY <2>1, <3>2 DEF Turno, Ausente
      <3>4. alertas' = alertas
        BY <1>9 DEF NoShowLinha
      <3>5. Devendo(checker', f.usuario) = 0
        BY <2>2 DEF Devendo
      <3>6. Devendo(checker, f.usuario) = IF c.usuario = f.usuario THEN 1 ELSE 0
        BY <2>1 DEF Devendo
      <3>7. Cardinality(Atrasados(turnos, f.usuario)) \in Nat
            /\ Cardinality(Avisos(alertas, f.usuario)) \in Nat
        BY <1>0, Finitos
      <3>8. Sobra(turnos, alertas, checker, f.usuario)
        BY DEF Cobertos
      <3>9. CASE c.usuario = f.usuario
        <4>1. Cardinality(Atrasados(turnos', f.usuario)) = Cardinality(Atrasados(turnos, f.usuario)) + 1
          BY <1>0, <2>4, <3>3, <3>9, LinhaNova
        <4>2. QED
          BY <3>4, <3>5, <3>6, <3>7, <3>8, <3>9, <4>1 DEF Sobra
      <3>10. CASE c.usuario # f.usuario
        <4>1. Atrasados(turnos', f.usuario) = Atrasados(turnos, f.usuario)
          BY <1>0, <2>4, <3>3, <3>10, LinhaNova
        <4>2. QED
          BY <3>4, <3>5, <3>6, <3>7, <3>8, <3>10, <4>1 DEF Sobra
      <3>11. QED
        BY <3>9, <3>10
    <2>5. QED
      BY <1>9, <2>3, <2>4 DEF NoShowLinha, Inserir, Cobertos
  <1>10. ASSUME NEW e \in Compromissos, NrLinha(e) PROVE Cobertos'
    <2> DEFINE r == [por |-> e, status |-> "nao_realizado",
                     inicio |-> Inicio(e, NrDia), fim |-> Fim(e, NrDia)]
    <2>1. NrDia \in Int
      <3>1. Dia(nr.quando) \in Int /\ nr.dias \in Int
        BY DiaInteiro, ConstantesOK DEF TypeOK
      <3>2. QED
        BY <3>1 DEF NrDia
    <2>2. r \in Turno
      BY <2>1, HorasInteiras DEF Turno, Ausente
    <2>3. CASE turnos' = Append(turnos, r)
      BY <1>10, <2>2, <2>3, OutraLinha DEF NrLinha
    <2>4. CASE UNCHANGED turnos
      BY <1>2, <1>10, <2>4 DEF NrLinha
    <2>5. QED
      BY <1>10, <2>3, <2>4 DEF NrLinha, Inserir
  <1>11. ASSUME NrComecar \/ NrSubstituicoes \/ NrProximo \/ Tique PROVE Cobertos'
    BY <1>2, <1>11 DEF NrComecar, NrSubstituicoes, NrProximo, Tique
  <1>12. ASSUME Reiniciar PROVE Cobertos'
    BY <1>2, <1>12 DEF Reiniciar, Parado
  <1>13. CASE UNCHANGED vars
    BY <1>2, <1>13 DEF vars
  <1>14. QED
    BY <1>1, <1>3, <1>4, <1>5, <1>6, <1>7, <1>8, <1>9, <1>10, <1>11, <1>12, <1>13
       DEF Next, checkNoShow, NaoRealizado, Criar, Delete, Update, ReplaceLote

LEMMA CobertosBasta == TypeOK /\ Cobertos => AtrasadoTemAlerta
  <1> SUFFICES ASSUME TypeOK, Cobertos, NEW e \in Compromissos
               PROVE  Cardinality(Atrasados(turnos, e.usuario))
                        <= Cardinality(Avisos(alertas, e.usuario))
    BY DEF AtrasadoTemAlerta, Atrasados, Avisos
  <1>1. Sobra(turnos, alertas, checker, e.usuario)
    BY DEF Cobertos
  <1>2. Cardinality(Atrasados(turnos, e.usuario)) \in Nat
        /\ Cardinality(Avisos(alertas, e.usuario)) \in Nat
    BY Finitos DEF TypeOK
  <1>3. Devendo(checker, e.usuario) \in Nat
    BY DEF Devendo
  <1>4. QED
    BY <1>1, <1>2, <1>3 DEF Sobra

\* No shift is recorded as atrasado without an alert of its own having been raised
\* for that guard: the alert comes before the row, and a cycle that fails or is cut
\* short between the two loses the row and never the alert.
THEOREM AtrasadoCorrect == Spec => []AtrasadoTemAlerta
  BY TipoInicial, TipoPasso, CobertosInicial, CobertosPasso, CobertosBasta, PTL DEF Spec
-----------------------------------------------------------------------------
(* Days and hours.                                                         *)

\* Multiples of a day are a day apart.
LEMMA Vezes ==
    ASSUME NEW H \in Nat \ {0}, NEW a \in Int, NEW b \in Int, a < b
    PROVE  a * H + H <= b * H
  OBVIOUS

LEMMA Divisao ==
    ASSUME NEW H \in Nat \ {0}, NEW t \in Int
    PROVE  t \div H \in Int /\ t % H \in 0 .. H - 1 /\ t = (t \div H) * H + (t % H)
  OBVIOUS

LEMMA DivisaoUnica ==
    ASSUME NEW H \in Nat \ {0}, NEW q \in Int, NEW r \in 0 .. H - 1
    PROVE  (q * H + r) \div H = q
  OBVIOUS

\* An hour is the beginning of its day and the hour the clock shows.
LEMMA DiaEHora ==
    ASSUME NEW t \in Int
    PROVE  /\ Dia(t) \in Int /\ Data(t) \in Int /\ Hora(t) \in 0 .. Horas - 1
           /\ t = Dia(t) * Horas + Hora(t)
  <1>1. Horas \in Nat \ {0} /\ t + Fuso \in Int
    BY ConstantesOK
  <1>2. QED
    BY <1>1, Divisao DEF Dia, Data, Hora

LEMMA DiaDe ==
    ASSUME NEW d \in Int, NEW h \in 0 .. Horas - 1
    PROVE  Dia(d * Horas + h) = d
  BY ConstantesOK, DivisaoUnica DEF Dia

LEMMA DataDe ==
    ASSUME NEW d \in Int, NEW h \in Nat, h + Fuso < Horas
    PROVE  Data(d * Horas + h) = d
  <1>1. Horas \in Nat \ {0} /\ Fuso \in Nat /\ h + Fuso \in 0 .. Horas - 1
    BY ConstantesOK
  <1>2. d * Horas \in Int
    BY <1>1
  <1>3. (d * Horas + h) + Fuso = d * Horas + (h + Fuso)
    BY <1>1, <1>2
  <1>4. QED
    BY <1>1, <1>3, DivisaoUnica DEF Data

\* Later is not on an earlier day.
LEMMA DiaCresce ==
    ASSUME NEW s \in Int, NEW t \in Int, s <= t
    PROVE  Dia(s) <= Dia(t)
  <1>1. Horas \in Nat \ {0}
    BY ConstantesOK
  <1>2. Dia(s) \in Int /\ Hora(s) \in 0 .. Horas - 1 /\ s = Dia(s) * Horas + Hora(s)
    BY DiaEHora
  <1>3. Dia(t) \in Int /\ Hora(t) \in 0 .. Horas - 1 /\ t = Dia(t) * Horas + Hora(t)
    BY DiaEHora
  <1>4. ASSUME Dia(t) < Dia(s) PROVE FALSE
    <2>1. Dia(t) * Horas + Horas <= Dia(s) * Horas
      BY <1>1, <1>2, <1>3, <1>4, Vezes
    <2>2. Dia(t) * Horas \in Int /\ Dia(s) * Horas \in Int
      BY <1>1, <1>2, <1>3
    <2>3. QED
      BY <1>1, <1>2, <1>3, <2>1, <2>2
  <1>5. QED
    BY <1>2, <1>3, <1>4

\* Between an hour and the next one the day changes only at midnight.
LEMMA MesmoDia ==
    ASSUME NEW s \in Int, Hora(s + 1) >= 1
    PROVE  Dia(s + 1) = Dia(s)
  <1>1. Horas \in Nat \ {0} /\ s + 1 \in Int
    BY ConstantesOK
  <1>2. Dia(s + 1) \in Int /\ Hora(s + 1) \in 0 .. Horas - 1
        /\ s + 1 = Dia(s + 1) * Horas + Hora(s + 1)
    BY <1>1, DiaEHora
  <1>3. Hora(s + 1) - 1 \in 0 .. Horas - 1
    BY <1>1, <1>2
  <1>4. Dia(s + 1) * Horas \in Int
    BY <1>1, <1>2
  <1>5. s = Dia(s + 1) * Horas + (Hora(s + 1) - 1)
    BY <1>1, <1>2, <1>4
  <1>6. QED
    BY <1>2, <1>3, <1>5, DiaDe

\* A commitment of date d begins on that date; and on that date of the database
\* too, if its hours are far enough from midnight.
LEMMA DiaDoInicio ==
    ASSUME NEW e \in Compromissos, NEW d \in Int
    PROVE  /\ Inicio(e, d) \in Int
           /\ Legivel(e.inicio) => Dia(Inicio(e, d)) = d
           /\ MesmaData(e) => Data(Inicio(e, d)) = d /\ Legivel(e.inicio)
  <1>1. /\ Horas \in Nat \ {0} /\ Fuso \in Nat /\ e.inicio \in 0 .. Horas /\ e.tol \in Nat
        /\ Legivel(e.inicio) => e.inicio \in 0 .. Horas - 1
    BY ConstantesOK, CompromissosOK DEF Legivel
  <1>2. MesmaData(e) => e.inicio + Fuso < Horas /\ Legivel(e.inicio)
    BY <1>1 DEF MesmaData, Legivel
  <1>3. e.inicio \in Nat
    BY <1>1
  <1>4. Inicio(e, d) \in Int
    BY HorasInteiras
  <1>5. Legivel(e.inicio) => Dia(Inicio(e, d)) = d
    BY <1>1, DiaDe DEF Inicio
  <1>6. MesmaData(e) => Data(Inicio(e, d)) = d
    BY <1>2, <1>3, DataDe DEF Inicio
  <1>7. QED
    BY <1>2, <1>4, <1>5, <1>6

\* A guard who begins within the tolerance of such a commitment, taken on the face
\* of the clock, begins on the same date in both zones.
LEMMA InicioNoDia ==
    ASSUME NEW e \in Compromissos, NEW t \in Int, MesmaData(e), VerificarToleranciaEscala(e, t)
    PROVE  Data(t) = Dia(t)
  <1> DEFINE h == Hora(t)
             i == e.inicio
  <1>1. /\ Horas \in Nat \ {0} /\ Fuso \in Nat
        /\ i \in Nat /\ e.tol \in Nat /\ e.tol <= i /\ i + e.tol + Fuso < Horas
    BY ConstantesOK, CompromissosOK DEF MesmaData
  <1>2. h \in Nat /\ h < Horas /\ Dia(t) \in Int /\ t = Dia(t) * Horas + h
    BY <1>1, DiaEHora
  <1>3. Distancia(h, i) <= e.tol
    <2>1. i \in 0 .. Horas - 1
      BY <1>1
    <2>2. Minutos(i) = i
      BY <1>1, <2>1 DEF Minutos
    <2>3. QED
      BY <2>2 DEF VerificarToleranciaEscala
  <1> HIDE DEF h, i
  <1>4. h <= i + e.tol
    BY <1>1, <1>2, <1>3 DEF Distancia
  <1>5. h + Fuso < Horas
    BY <1>1, <1>2, <1>4
  <1>6. Data(Dia(t) * Horas + h) = Dia(t)
    BY <1>2, <1>5, DataDe
  <1>7. QED
    BY <1>2, <1>6
-----------------------------------------------------------------------------
(* One row for each absence, and none for who came.                        *)

\* A cycle of either worker began in this hour or in the one before, and has no row
\* left to insert once it is over; the not-done worker only takes commitments that
\* begin earlier in the day than it runs.
Relogios ==
    /\ checker.passo # "parado" => checker.quando <= agora /\ agora <= checker.quando + 1
    /\ nr.passo # "parado" => /\ nr.quando <= agora /\ agora <= nr.quando + 1
                              /\ nr.dias >= 1
    /\ checker.passo = "parado" => checker.faltam = {}
    /\ nr.passo = "parado" => nr.faltam = {}
    /\ checker.passo = "linha" => checker.atual \in checker.faltam
    /\ \A e \in nr.faltam : e.inicio < Hora(nr.quando)

\* A row of the not-done worker is of a past day, past even for the cycle of the
\* timeout checker that is running; and a guard starts on one date.
LinhaDatada(r) ==
    /\ r.status = "nao_realizado" =>
          /\ Dia(r.inicio) < Dia(agora)
          /\ checker.passo # "parado" => Dia(r.inicio) < Dia(checker.quando)
    /\ r.status \notin Ausente /\ MesmaData(r.por) => Data(r.inicio) = Dia(r.inicio)

Datadas == \A i \in DOMAIN turnos : LinhaDatada(turnos[i])

\* The row a worker is about to insert for e is not there yet, although the query
\* that found it missing is some steps old.
FaltaAtraso(e) ==
    \A i \in DOMAIN turnos : ~(turnos[i].status = "atrasado" /\ turnos[i].por = e)

RegistraFalta(r, e) ==
    r.status \in Ausente /\ r.por = e /\ MesmaData(e) /\ r.inicio = Inicio(e, NrDia)

RegistraVinda(r, e) ==
    r.status \notin Ausente /\ MesmoPosto(r.por, e) /\ MesmaData(r.por) /\ Dia(r.inicio) = NrDia

FaltaRegistro(e) ==
    \A i \in DOMAIN turnos : ~RegistraFalta(turnos[i], e) /\ ~RegistraVinda(turnos[i], e)

Pendentes ==
    /\ \A e \in checker.faltam : FaltaAtraso(e)
    /\ \A e \in nr.faltam : FaltaRegistro(e)

\* The checker never writes a second row for a commitment, on whatever day.
UmAtraso ==
    \A i, j \in DOMAIN turnos :
        /\ turnos[i].status = "atrasado" /\ turnos[j].status = "atrasado"
        /\ turnos[i].por = turnos[j].por
        => i = j

Unicas == UmAtraso /\ UmRegistroPorFalta /\ QuemVeioNaoFaltou

Tabela == Datadas /\ Pendentes /\ Unicas

Inv == TypeOK /\ Relogios /\ Tabela

\* The types of what the invariant speaks of.
LEMMA Tipos ==
    TypeOK =>
        /\ turnos \in Seq(Turno) /\ agora \in Nat
        /\ checker.quando \in Nat /\ checker.faltam \in SUBSET Compromissos
        /\ nr.quando \in Nat /\ nr.dias \in 0 .. DiasAtras /\ nr.dias \in Int
        /\ nr.faltam \in SUBSET Compromissos /\ NrDia \in Int
        /\ \A i \in DOMAIN turnos : /\ turnos[i].por \in Compromissos
                                    /\ turnos[i].inicio \in Int
                                    /\ turnos[i].status \in Ativo \cup Ausente \cup {"finalizado"}
  <1> HAVE TypeOK
  <1>1. turnos \in Seq(Turno) /\ agora \in Nat
        /\ checker.quando \in Nat /\ checker.faltam \in SUBSET Compromissos
        /\ nr.quando \in Nat /\ nr.dias \in 0 .. DiasAtras
        /\ nr.faltam \in SUBSET Compromissos
    BY DEF TypeOK
  <1>2. nr.dias \in Int
    BY <1>1, ConstantesOK
  <1>3. NrDia \in Int
    <2>1. Dia(nr.quando) \in Int
      <3>1. nr.quando \in Int
        BY <1>1
      <3>2. QED
        BY <3>1, DiaInteiro
    <2>2. QED
      BY <1>2, <2>1 DEF NrDia
  <1>4. \A i \in DOMAIN turnos : turnos[i] \in Turno
    BY <1>1, ElementoSeq
  <1>5. QED
    BY <1>1, <1>2, <1>3, <1>4 DEF Turno

\* The not-done worker looks at days that are past, for the other worker as well:
\* it takes no commitment that begins later in the day, so if one cycle began before
\* midnight and the other after it, this one has nothing to insert.
LEMMA DiaPassado ==
    ASSUME TypeOK, Relogios, nr.faltam # {}
    PROVE  /\ NrDia < Dia(agora)
           /\ checker.passo # "parado" => NrDia < Dia(checker.quando)
  <1>1. /\ agora \in Nat /\ checker.quando \in Nat /\ nr.quando \in Nat /\ nr.dias \in Int
        /\ nr.faltam \in SUBSET Compromissos
    BY Tipos
  <1>2. nr.quando <= agora /\ agora <= nr.quando + 1 /\ nr.dias >= 1
    BY DEF Relogios
  <1>3. Dia(agora) \in Int /\ Dia(checker.quando) \in Int /\ Dia(nr.quando) \in Int
    BY <1>1, DiaEHora
  <1>4. NrDia < Dia(nr.quando)
    BY <1>1, <1>2, <1>3 DEF NrDia
  <1>5. NrDia < Dia(agora)
    <2>1. Dia(nr.quando) <= Dia(agora)
      BY <1>1, <1>2, DiaCresce
    <2>2. QED
      BY <1>1, <1>3, <1>4, <2>1 DEF NrDia
  <1>6. ASSUME checker.passo # "parado" PROVE NrDia < Dia(checker.quando)
    <2>1. checker.quando <= agora /\ agora <= checker.quando + 1
      BY <1>6 DEF Relogios
    <2>2. CASE nr.quando <= checker.quando
      <3>1. Dia(nr.quando) <= Dia(checker.quando)
        BY <1>1, <2>2, DiaCresce
      <3>2. QED
        BY <1>1, <1>3, <1>4, <3>1 DEF NrDia
    <2>3. CASE ~(nr.quando <= checker.quando)
      <3>1. nr.quando = checker.quando + 1
        BY <1>1, <1>2, <2>1, <2>3
      <3>2. PICK e \in nr.faltam : TRUE
        OBVIOUS
      <3>3. e.inicio < Hora(nr.quando) /\ e.inicio \in Nat
        BY <1>1, <3>2, ConstantesOK, CompromissosOK DEF Relogios
      <3>4. Hora(nr.quando) \in Int
        BY <1>1, DiaEHora
      <3>5. Hora(checker.quando + 1) >= 1
        BY <3>1, <3>3, <3>4
      <3>6. Dia(nr.quando) = Dia(checker.quando)
        BY <1>1, <3>1, <3>5, MesmoDia
      <3>7. QED
        BY <1>4, <3>6
    <2>4. QED
      BY <2>2, <2>3
  <1>7. QED
    BY <1>5, <1>6

\* What the two queries for a day return has no row of that day.
LEMMA ConcluidasLivres ==
    ASSUME TypeOK, Datadas, NEW sub, NEW d \in Int, NEW h, NEW e \in ConcluidasSemTurno(sub, d, h),
           NEW i \in DOMAIN turnos
    PROVE  /\ e \in Compromissos /\ e.inicio < h
           /\ ~(/\ turnos[i].status \in Ausente /\ turnos[i].por = e /\ MesmaData(e)
                /\ turnos[i].inicio = Inicio(e, d))
           /\ ~(/\ turnos[i].status \notin Ausente /\ MesmoPosto(turnos[i].por, e)
                /\ MesmaData(turnos[i].por) /\ Dia(turnos[i].inicio) = d)
  <1>1. e \in Compromissos /\ e.inicio < h
    BY DEF ConcluidasSemTurno, TypeOK
  <1>2. ~(MesmoPosto(turnos[i].por, e) /\ Data(turnos[i].inicio) = d)
    BY DEF ConcluidasSemTurno
  <1>3. MesmaData(e) => Data(Inicio(e, d)) = d
    BY <1>1, DiaDoInicio
  <1>4. turnos[i].por = e => MesmoPosto(turnos[i].por, e)
    BY DEF MesmoPosto
  <1>5. LinhaDatada(turnos[i])
    BY DEF Datadas
  <1>6. QED
    BY <1>1, <1>2, <1>3, <1>4, <1>5 DEF LinhaDatada
-----------------------------------------------------------------------------
(* Steps that leave the table of shifts alone.                             *)

\* A cycle ends, goes on, or starts now with commitments nobody started; the
\* not-done worker keeps its day, or takes one whose commitments have no row.
CheckerAnda ==
    /\ checker'.passo # "parado" =>
          checker'.quando = agora \/ (checker.passo # "parado" /\ checker'.quando = checker.quando)
    /\ \A e \in checker'.faltam : e \in checker.faltam \/ SemTurnoAtivo(e)

NrAnda ==
    \A e \in nr'.faltam :
        \/ e \in nr.faltam /\ NrDia' = NrDia
        \/ \E sub, h : e \in ConcluidasSemTurno(sub, NrDia', h)

LEMMA SoTrabalho ==
    ASSUME TypeOK, TypeOK', Tabela, UNCHANGED turnos, agora <= agora', CheckerAnda, NrAnda
    PROVE  Tabela'
  <1>1. turnos' = turnos /\ agora \in Nat /\ agora' \in Nat /\ NrDia' \in Int
        /\ \A i \in DOMAIN turnos : turnos[i].por \in Compromissos /\ turnos[i].inicio \in Int
    <2>1. (NrDia \in Int)' /\ (agora \in Nat)'
      BY Tipos, PTL
    <2>2. QED
      BY <2>1, Tipos
  <1>2. Datadas'
    <2> SUFFICES ASSUME NEW i \in DOMAIN turnos PROVE LinhaDatada(turnos[i])'
      BY <1>1 DEF Datadas
    <2>1. LinhaDatada(turnos[i])
      BY DEF Tabela, Datadas
    <2>2. Dia(agora) <= Dia(agora') /\ Dia(agora) \in Int /\ Dia(agora') \in Int
          /\ Dia(turnos[i].inicio) \in Int
      BY <1>1, DiaCresce, DiaInteiro
    <2>3. CASE turnos[i].status = "nao_realizado"
      <3>1. Dia(turnos[i].inicio) < Dia(agora)
        BY <2>1, <2>3 DEF LinhaDatada
      <3>2. Dia(turnos[i].inicio) < Dia(agora')
        BY <2>2, <3>1
      <3>3. checker'.passo # "parado" => Dia(turnos[i].inicio) < Dia(checker'.quando)
        BY <2>1, <2>3, <3>1 DEF CheckerAnda, LinhaDatada
      <3>4. QED
        BY <1>1, <2>3, <3>2, <3>3 DEF LinhaDatada, Ausente, Dia
    <2>4. CASE turnos[i].status # "nao_realizado"
      BY <1>1, <2>1, <2>4 DEF LinhaDatada, Data, Dia
    <2>5. QED
      BY <2>3, <2>4
  <1>3. Pendentes'
    <2>1. ASSUME NEW e \in checker'.faltam PROVE FaltaAtraso(e)'
      <3>1. CASE e \in checker.faltam
        BY <1>1, <3>1 DEF Tabela, Pendentes, FaltaAtraso
      <3>2. CASE SemTurnoAtivo(e)
        BY <1>1, <3>2 DEF SemTurnoAtivo, MesmoPosto, FaltaAtraso
      <3>3. QED
        BY <3>1, <3>2 DEF CheckerAnda
    <2>2. ASSUME NEW e \in nr'.faltam PROVE FaltaRegistro(e)'
      <3>1. CASE e \in nr.faltam /\ NrDia' = NrDia
        <4>1. FaltaRegistro(e)
          BY <3>1 DEF Tabela, Pendentes
        <4>2. QED
          BY <1>1, <3>1, <4>1 DEF FaltaRegistro, RegistraFalta, RegistraVinda, Dia
      <3>2. ASSUME NEW sub, NEW h, e \in ConcluidasSemTurno(sub, NrDia', h)
            PROVE  FaltaRegistro(e)'
        <4>1. \A i \in DOMAIN turnos :
                 /\ ~(/\ turnos[i].status \in Ausente /\ turnos[i].por = e /\ MesmaData(e)
                      /\ turnos[i].inicio = Inicio(e, NrDia'))
                 /\ ~(/\ turnos[i].status \notin Ausente /\ MesmoPosto(turnos[i].por, e)
                      /\ MesmaData(turnos[i].por) /\ Dia(turnos[i].inicio) = NrDia')
          BY <1>1, <3>2, ConcluidasLivres DEF Tabela
        <4>2. QED
          BY <1>1, <4>1 DEF FaltaRegistro, RegistraFalta, RegistraVinda
      <3>3. QED
        BY <3>1, <3>2 DEF NrAnda
    <2>3. QED
      BY <2>1, <2>2 DEF Pendentes
  <1>4. Unicas'
    BY <1>1 DEF Tabela, Unicas, UmAtraso, UmRegistroPorFalta, QuemVeioNaoFaltou
  <1>5. QED
    BY <1>2, <1>3, <1>4 DEF Tabela

\* The end of a cycle, or one commitment less.
LEMMA RestamAnda ==
    ASSUME TypeOK, NEW faltam \in SUBSET Compromissos, Restam(faltam), checker.passo # "parado",
           \A e \in faltam : e \in checker.faltam \/ SemTurnoAtivo(e)
    PROVE  /\ CheckerAnda
           /\ checker'.passo = "parado" => checker'.faltam = {}
           /\ checker'.passo # "parado" => checker'.quando = checker.quando
           /\ checker'.passo # "linha"
           /\ checker'.faltam = faltam
  BY DEF Restam, Parado, CheckerAnda, TypeOK

\* Failing or not, a query of the not-done worker leaves what it found.
LEMMA NrEscalasAnda ==
    ASSUME TypeOK, NEW quando \in Nat, NEW dias \in Int, dias >= 1, NrEscalas(quando, dias)
    PROVE  /\ NrAnda
           /\ nr'.passo # "parado" /\ nr'.quando = quando /\ nr'.dias = dias
           /\ \A e \in nr'.faltam : e.inicio < Hora(nr'.quando)
  <1> DEFINE C == ConcluidasSemTurno(FALSE, Dia(quando) - dias, Hora(quando))
  <1>1. nr'.passo # "parado" /\ nr'.quando = quando /\ nr'.dias = dias
        /\ (nr'.faltam = {} \/ nr'.faltam = C)
    <2>1. PICK passo \in {"escalas", "substituicoes"}, faltam \in {C, {}} :
              nr' = [passo |-> passo, quando |-> quando, dias |-> dias, faltam |-> faltam]
      BY DEF NrEscalas
    <2> HIDE DEF C
    <2>2. QED
      BY <2>1
  <1>2. NrDia' = Dia(quando) - dias
    BY <1>1 DEF NrDia, Dia
  <1>3. ASSUME NEW e \in nr'.faltam
        PROVE  e \in ConcluidasSemTurno(FALSE, NrDia', Hora(quando))
    BY <1>1, <1>2
  <1>4. NrAnda
    BY <1>3 DEF NrAnda
  <1>5. \A e \in nr'.faltam : e.inicio < Hora(quando)
    BY <1>3 DEF ConcluidasSemTurno
  <1>6. QED
    BY <1>1, <1>4, <1>5
-----------------------------------------------------------------------------
(* Steps that write the table of shifts.                                   *)

\* What a row r has to be for the table to take it.
Cabe(r) ==
    /\ LinhaDatada(r)
    /\ r.status = "atrasado" => FaltaAtraso(r.por)
    /\ \A i \in DOMAIN turnos :
          /\ ~(/\ r.status \in Ausente /\ turnos[i].status \in Ausente
               /\ turnos[i].por = r.por /\ turnos[i].inicio = r.inicio /\ MesmaData(r.por))
          /\ ~(/\ r.status = "nao_realizado" /\ turnos[i].status \notin Ausente
               /\ MesmoPosto(r.por, turnos[i].por) /\ MesmaData(turnos[i].por)
               /\ Dia(turnos[i].inicio) = Dia(r.inicio))
          /\ ~(/\ r.status \notin Ausente /\ turnos[i].status = "nao_realizado"
               /\ Dia(turnos[i].inicio) = Dia(r.inicio))

\* The workers go on where they were.
MesmoCiclo ==
    /\ checker'.passo # "parado" => checker.passo # "parado" /\ checker'.quando = checker.quando
    /\ checker'.faltam \subseteq checker.faltam
    /\ nr'.faltam \subseteq nr.faltam
    /\ NrDia' = NrDia

LEMMA LinhaAcrescentada ==
    ASSUME TypeOK, Tabela, NEW r \in Turno, turnos' = Append(turnos, r), agora' = agora,
           MesmoCiclo, Cabe(r),
           r.status = "atrasado" => r.por \notin checker'.faltam,
           \A e \in nr'.faltam : ~RegistraFalta(r, e) /\ ~RegistraVinda(r, e)
    PROVE  Tabela'
  <1> DEFINE n == Len(turnos) + 1
  <1>1. /\ DOMAIN turnos = 1 .. Len(turnos) /\ Len(turnos) \in Nat
        /\ DOMAIN turnos' = 1 .. n
        /\ \A i \in 1 .. Len(turnos) : turnos'[i] = turnos[i]
        /\ turnos'[n] = r
    BY AppendSeq DEF TypeOK
  <1>2. n \notin DOMAIN turnos /\ DOMAIN turnos' = DOMAIN turnos \cup {n}
        /\ \A i \in DOMAIN turnos : turnos'[i] = turnos[i]
    BY <1>1
  <1>3. turnos'[n] = r
    BY <1>1
  <1> HIDE DEF n
  <1>4. Datadas'
    <2>1. ASSUME NEW s, LinhaDatada(s) PROVE LinhaDatada(s)'
      BY <2>1 DEF LinhaDatada, MesmoCiclo, Dia, Data
    <2>2. \A i \in DOMAIN turnos' : LinhaDatada(turnos'[i])
      BY <1>2, <1>3 DEF Tabela, Datadas, Cabe
    <2>3. QED
      BY <2>1, <2>2 DEF Datadas, LinhaDatada
  <1>5. Pendentes'
    <2>1. ASSUME NEW e \in checker'.faltam PROVE FaltaAtraso(e)'
      <3>1. FaltaAtraso(e)
        BY DEF MesmoCiclo, Tabela, Pendentes
      <3>2. QED
        BY <1>2, <1>3, <3>1 DEF FaltaAtraso
    <2>2. ASSUME NEW e \in nr'.faltam PROVE FaltaRegistro(e)'
      <3>1. FaltaRegistro(e)
        BY DEF MesmoCiclo, Tabela, Pendentes
      <3>2. \A i \in DOMAIN turnos' :
               ~RegistraFalta(turnos'[i], e) /\ ~RegistraVinda(turnos'[i], e)
        BY <1>2, <1>3, <3>1 DEF FaltaRegistro
      <3>3. NrDia' = NrDia
        BY DEF MesmoCiclo
      <3>4. QED
        BY <3>2, <3>3 DEF FaltaRegistro, RegistraFalta, RegistraVinda
    <2>3. QED
      BY <2>1, <2>2 DEF Pendentes
  <1>6. UmAtraso'
    BY <1>2, <1>3 DEF Tabela, Unicas, UmAtraso, Cabe, FaltaAtraso
  <1>7. UmRegistroPorFalta'
    BY <1>2, <1>3 DEF Tabela, Unicas, UmRegistroPorFalta, Cabe
  <1>8. QuemVeioNaoFaltou'
    <2> SUFFICES ASSUME NEW i \in DOMAIN turnos', NEW j \in DOMAIN turnos',
                        turnos'[i].status = "nao_realizado", turnos'[j].status \notin Ausente,
                        MesmoPosto(turnos'[i].por, turnos'[j].por),
                        MesmaData(turnos'[i].por), MesmaData(turnos'[j].por)
                 PROVE  Dia(turnos'[i].inicio) # Dia(turnos'[j].inicio)
      BY DEF QuemVeioNaoFaltou, Dia
    <2>1. CASE i \in DOMAIN turnos /\ j \in DOMAIN turnos
      BY <1>2, <2>1 DEF Tabela, Unicas, QuemVeioNaoFaltou
    <2>2. CASE i = n /\ j \in DOMAIN turnos
      BY <1>2, <1>3, <2>2 DEF Cabe
    <2>3. CASE i \in DOMAIN turnos /\ j = n
      BY <1>2, <1>3, <2>3 DEF Cabe
    <2>4. i = n => j # n
      BY <1>3 DEF Ausente
    <2>5. QED
      BY <1>2, <2>1, <2>2, <2>3, <2>4
  <1>9. QED
    BY <1>4, <1>5, <1>6, <1>7, <1>8 DEF Tabela, Unicas

\* The end of a shift leaves what the table says about who came.
LEMMA FinalizarMarcas ==
    ASSUME TypeOK, Tabela, NEW i \in DOMAIN turnos, Finalizar(i)
    PROVE  Tabela'
  <1> DEFINE r == [turnos[i] EXCEPT !.status = "finalizado"]
  <1>1. turnos[i] \in Turno
    BY ElementoSeq DEF TypeOK
  <1>2. /\ r \in Turno /\ r.status = "finalizado"
        /\ r.por = turnos[i].por /\ r.inicio = turnos[i].inicio
    BY <1>1 DEF Turno
  <1>3. turnos' = [turnos EXCEPT ![i] = r]
    BY DEF Finalizar
  <1> HIDE DEF r
  <1>4. /\ DOMAIN turnos' = DOMAIN turnos /\ turnos'[i] = r
        /\ \A j \in DOMAIN turnos : j # i => turnos'[j] = turnos[j]
    BY <1>2, <1>3, TrocaSeq DEF TypeOK
  <1>5. turnos[i].status \notin Ausente /\ turnos'[i].status \notin Ausente
    BY <1>2, <1>4 DEF Finalizar, Ativo, Ausente
  <1>6. \A j \in DOMAIN turnos :
           /\ turnos'[j].por = turnos[j].por /\ turnos'[j].inicio = turnos[j].inicio
           /\ \/ turnos'[j].status = turnos[j].status
              \/ turnos[j].status \notin Ausente /\ turnos'[j].status \notin Ausente
    BY <1>2, <1>4, <1>5
  <1>7. UNCHANGED <<checker, nr, agora>> /\ NrDia' = NrDia
    BY DEF Finalizar, NrDia, Dia
  <1>8. Datadas'
    <2> SUFFICES ASSUME NEW j \in DOMAIN turnos PROVE LinhaDatada(turnos[j])'
      BY <1>4 DEF Datadas
    <2>1. LinhaDatada(turnos[j])
      BY DEF Tabela, Datadas
    <2>2. QED
      BY <1>6, <1>7, <2>1 DEF LinhaDatada, Ausente, Dia, Data
  <1>9. Pendentes'
    <2>1. ASSUME NEW e \in checker.faltam PROVE FaltaAtraso(e)'
      BY <1>4, <1>6 DEF Tabela, Pendentes, FaltaAtraso, Ausente
    <2>2. ASSUME NEW e \in nr.faltam PROVE FaltaRegistro(e)'
      <3>1. FaltaRegistro(e)
        BY DEF Tabela, Pendentes
      <3>2. \A j \in DOMAIN turnos :
               ~RegistraFalta(turnos'[j], e) /\ ~RegistraVinda(turnos'[j], e)
        BY <1>6, <3>1 DEF FaltaRegistro, RegistraFalta, RegistraVinda
      <3>3. QED
        BY <1>4, <1>7, <3>2 DEF FaltaRegistro, RegistraFalta, RegistraVinda
    <2>3. QED
      BY <1>7, <2>1, <2>2 DEF Pendentes
  <1>10. UmAtraso'
    BY <1>4, <1>6 DEF Tabela, Unicas, UmAtraso, Ausente
  <1>11. UmRegistroPorFalta'
    BY <1>4, <1>6 DEF Tabela, Unicas, UmRegistroPorFalta
  <1>12. QuemVeioNaoFaltou'
    BY <1>4, <1>6 DEF Tabela, Unicas, QuemVeioNaoFaltou, Ausente, Dia
  <1>13. QED
    BY <1>8, <1>9, <1>10, <1>11, <1>12 DEF Tabela, Unicas

\* A guard's shift is of today, and the not-done worker is busy with days before it.
LEMMA IniciarMarcas ==
    ASSUME Inv, NEW e \in Compromissos, Iniciar(e)
    PROVE  Tabela'
  <1>1. PICK fim \in Int : turnos' = Append(turnos, [por |-> e, status |-> "em_andamento",
                                                     inicio |-> agora, fim |-> fim])
    <2>1. agora \in Int
      BY DEF Inv, TypeOK
    <2>2. FimPrevisto(e, agora) \in Int
      BY <2>1, FimInteiro
    <2>3. QED
      BY <2>2 DEF Iniciar, Inserir
  <1> DEFINE r == [por |-> e, status |-> "em_andamento", inicio |-> agora, fim |-> fim]
  <1>2. agora \in Int /\ agora \in Nat
    BY DEF Inv, TypeOK
  <1>3. r \in Turno
    BY <1>1, <1>2 DEF Turno, Ativo
  <1>4. /\ r.por = e /\ r.status = "em_andamento" /\ r.inicio = agora
        /\ r.status \notin Ausente /\ r.status # "atrasado" /\ r.status # "nao_realizado"
    BY DEF Ausente
  <1>5. turnos' = Append(turnos, r)
    BY <1>1
  <1> HIDE DEF r
  <1>6. UNCHANGED <<checker, nr, agora>> /\ MesmoCiclo
    BY DEF Iniciar, MesmoCiclo, NrDia, Dia
  <1>7. VerificarToleranciaEscala(e, agora)
    BY DEF Iniciar, ParaInicio
  <1>8. LinhaDatada(r)
    BY <1>2, <1>4, <1>7, InicioNoDia DEF LinhaDatada
  <1>9. Cabe(r)
    <2>1. \A i \in DOMAIN turnos :
             turnos[i].status = "nao_realizado" => Dia(turnos[i].inicio) < Dia(agora)
      BY DEF Inv, Tabela, Datadas, LinhaDatada
    <2>2. \A i \in DOMAIN turnos : Dia(turnos[i].inicio) \in Int
      <3>1. \A i \in DOMAIN turnos : turnos[i].inicio \in Int
        BY Tipos DEF Inv
      <3>2. QED
        BY <3>1, DiaInteiro
    <2>3. Dia(agora) \in Int
      BY <1>2, DiaInteiro
    <2>4. \A i \in DOMAIN turnos :
             turnos[i].status = "nao_realizado" => Dia(turnos[i].inicio) # Dia(agora)
      BY <2>1, <2>2, <2>3
    <2>5. QED
      BY <1>4, <1>8, <2>4 DEF Cabe
  <1>10. ASSUME NEW f \in nr'.faltam PROVE ~RegistraFalta(r, f) /\ ~RegistraVinda(r, f)
    <2>1. NrDia < Dia(agora)
      BY <1>6, DiaPassado DEF Inv
    <2>2. NrDia \in Int /\ Dia(agora) \in Int
      BY <1>2, Tipos, DiaInteiro DEF Inv
    <2>3. NrDia # Dia(agora)
      BY <2>1, <2>2
    <2>4. QED
      BY <1>4, <2>3 DEF RegistraFalta, RegistraVinda
  <1>11. QED
    BY <1>3, <1>4, <1>5, <1>6, <1>9, <1>10, LinhaAcrescentada DEF Inv

\* The hours of the commitments the not-done worker has found can be read.
LEMMA NrLegivel == ASSUME Inv, NEW e \in nr.faltam PROVE Legivel(e.inicio)
  <1>1. nr.passo # "parado" /\ nr.quando \in Int /\ e \in Compromissos
    BY DEF Inv, TypeOK, Relogios
  <1>2. e.inicio < Hora(nr.quando)
    BY <1>1 DEF Inv, Relogios
  <1>3. Hora(nr.quando) \in 0 .. Horas - 1 /\ Horas \in Nat
    BY <1>1, ConstantesOK, DiaEHora
  <1>4. e.inicio \in Int
    BY <1>1, ConstantesOK, CompromissosOK
  <1>5. QED
    BY <1>2, <1>3, <1>4 DEF Legivel

\* The timeout checker writes its row of the day of its cycle, which the other
\* worker has not come to.
LEMMA NoShowLinhaMarcas ==
    ASSUME Inv, NoShowLinha, turnos' # turnos
    PROVE  Tabela'
  <1> DEFINE c == checker.atual
             d == Dia(checker.quando)
             r == [por |-> c, status |-> "atrasado", inicio |-> Inicio(c, d), fim |-> Fim(c, d)]
  <1>1. /\ checker.passo = "linha" /\ c \in Compromissos /\ c \in checker.faltam
        /\ checker.quando \in Int /\ checker.faltam \in SUBSET Compromissos
    BY DEF NoShowLinha, Inv, TypeOK, Relogios
  <1>2. d \in Int
    BY <1>1, DiaInteiro
  <1>3. Inicio(c, d) \in Int /\ Fim(c, d) \in Int /\ Dia(Inicio(c, d)) = d
    <2>1. Legivel(c.inicio)
      BY DEF NoShowLinha
    <2>2. QED
      BY <1>1, <1>2, <2>1, HorasInteiras, DiaDoInicio
  <1>4. r \in Turno
    BY <1>1, <1>3 DEF Turno, Ausente
  <1>5. turnos' = Append(turnos, r)
    BY DEF NoShowLinha, Inserir
  <1>6. UNCHANGED <<nr, agora>> /\ Restam(checker.faltam \ {c})
    BY DEF NoShowLinha
  <1>7. r.por = c /\ r.status = "atrasado" /\ r.inicio = Inicio(c, d) /\ r.status \in Ausente
    BY DEF Ausente
  <1> HIDE DEF r
  <1>8. /\ checker'.passo # "parado" => checker'.quando = checker.quando
        /\ checker'.faltam = checker.faltam \ {c}
    BY <1>1, <1>6, RestamAnda DEF Inv
  <1>9. MesmoCiclo
    BY <1>1, <1>6, <1>8 DEF MesmoCiclo, NrDia, Dia
  <1>10. FaltaAtraso(c)
    BY <1>1 DEF Inv, Tabela, Pendentes
  <1>11. Cabe(r)
    <2>1. LinhaDatada(r)
      BY <1>7 DEF LinhaDatada
    <2>2. ASSUME NEW i \in DOMAIN turnos, turnos[i].status = "nao_realizado"
          PROVE  turnos[i].inicio # r.inicio
      <3>1. Dia(turnos[i].inicio) < d
        BY <1>1, <2>2 DEF Inv, Tabela, Datadas, LinhaDatada
      <3>2. turnos[i].inicio \in Int
        BY Tipos DEF Inv
      <3>3. Dia(turnos[i].inicio) \in Int
        BY <3>2, DiaInteiro
      <3>4. Dia(turnos[i].inicio) # d
        BY <1>2, <3>1, <3>3
      <3>5. QED
        BY <1>3, <1>7, <3>4
    <2>3. QED
      BY <1>7, <1>10, <2>1, <2>2 DEF Cabe, FaltaAtraso, Ausente
  <1>12. ASSUME NEW f \in nr'.faltam PROVE ~RegistraFalta(r, f) /\ ~RegistraVinda(r, f)
    <2>1. f \in nr.faltam
      BY <1>6
    <2>2. NrDia < d
      BY <1>1, <2>1, DiaPassado DEF Inv
    <2>3. NrDia \in Int /\ f \in Compromissos
      BY <2>1, Tipos DEF Inv
    <2>4. NrDia # d
      BY <1>2, <2>2, <2>3
    <2>5. Dia(Inicio(f, NrDia)) = NrDia
      BY <2>1, <2>3, NrLegivel, DiaDoInicio
    <2>6. QED
      BY <1>3, <1>7, <2>4, <2>5 DEF RegistraFalta, RegistraVinda
  <1>13. r.por \notin checker'.faltam
    BY <1>7, <1>8
  <1>14. QED
    BY <1>4, <1>5, <1>6, <1>9, <1>11, <1>12, <1>13, LinhaAcrescentada DEF Inv

\* The not-done worker writes its row of a past day, on which nothing was recorded
\* and nobody came since it looked.
LEMMA NrLinhaMarcas ==
    ASSUME Inv, NEW e \in Compromissos, NrLinha(e), turnos' # turnos
    PROVE  Tabela'
  <1> DEFINE r == [por |-> e, status |-> "nao_realizado",
                   inicio |-> Inicio(e, NrDia), fim |-> Fim(e, NrDia)]
  <1>1. e \in nr.faltam /\ NrDia \in Int
    BY Tipos DEF NrLinha, Inv
  <1>2. Inicio(e, NrDia) \in Int /\ Fim(e, NrDia) \in Int /\ Dia(Inicio(e, NrDia)) = NrDia
    <2>1. e \in Compromissos /\ Legivel(e.inicio)
      BY <1>1, Tipos, NrLegivel DEF Inv
    <2>2. QED
      BY <1>1, <2>1, HorasInteiras, DiaDoInicio
  <1>3. r \in Turno
    BY <1>2 DEF Turno, Ausente
  <1>4. turnos' = Append(turnos, r)
    BY DEF NrLinha, Inserir
  <1>5. /\ r.por = e /\ r.status = "nao_realizado" /\ r.inicio = Inicio(e, NrDia)
        /\ r.status \in Ausente /\ r.status # "atrasado"
    BY DEF Ausente
  <1> HIDE DEF r
  <1>6. UNCHANGED <<checker, agora>> /\ nr'.faltam = nr.faltam \ {e} /\ nr'.quando = nr.quando
        /\ nr'.dias = nr.dias
    BY DEF NrLinha, Inv, TypeOK
  <1>7. MesmoCiclo
    BY <1>6 DEF MesmoCiclo, NrDia, Dia
  <1>8. LinhaDatada(r)
    <2>1. /\ NrDia < Dia(agora)
          /\ checker.passo # "parado" => NrDia < Dia(checker.quando)
      BY <1>1, DiaPassado DEF Inv
    <2>2. QED
      BY <1>2, <1>5, <2>1 DEF LinhaDatada
  <1>9. Cabe(r)
    <2>1. FaltaRegistro(e)
      BY <1>1 DEF Inv, Tabela, Pendentes
    <2>2. QED
      BY <1>2, <1>5, <1>8, <2>1 DEF Cabe, FaltaRegistro, RegistraFalta, RegistraVinda, MesmoPosto
  <1>10. ASSUME NEW f \in nr'.faltam PROVE ~RegistraFalta(r, f) /\ ~RegistraVinda(r, f)
    BY <1>5, <1>6 DEF RegistraFalta, RegistraVinda
  <1>11. QED
    BY <1>3, <1>4, <1>5, <1>6, <1>7, <1>9, <1>10, LinhaAcrescentada DEF Inv
-----------------------------------------------------------------------------
(* The invariant.                                                          *)

\* The clock and the rows of one worker when it has no part in the step.
CheckerParte ==
    /\ checker.passo # "parado" => checker.quando <= agora /\ agora <= checker.quando + 1
    /\ checker.passo = "parado" => checker.faltam = {}
    /\ checker.passo = "linha" => checker.atual \in checker.faltam

NrParte ==
    /\ nr.passo # "parado" => /\ nr.quando <= agora /\ agora <= nr.quando + 1
                              /\ nr.dias >= 1
    /\ nr.passo = "parado" => nr.faltam = {}
    /\ \A e \in nr.faltam : e.inicio < Hora(nr.quando)

LEMMA Partes == Relogios <=> CheckerParte /\ NrParte
  BY DEF Relogios, CheckerParte, NrParte

LEMMA CheckerQuieto ==
    UNCHANGED <<checker, agora>> => (CheckerParte => CheckerParte') /\ CheckerAnda
  BY DEF CheckerParte, CheckerAnda

LEMMA NrQuieto ==
    UNCHANGED <<nr, agora>> => (NrParte => NrParte') /\ NrAnda
  BY DEF NrParte, NrAnda, NrDia, Dia, Hora

LEMMA InvInicial == Init => Inv
  <1> SUFFICES ASSUME Init PROVE Inv
    OBVIOUS
  <1>1. TypeOK
    BY TipoInicial
  <1>2. Relogios
    BY DEF Init, Relogios, Parado, NrParado
  <1>3. DOMAIN turnos = {} /\ checker.faltam = {} /\ nr.faltam = {}
    BY DEF Init, Parado, NrParado
  <1>4. Tabela
    BY <1>3 DEF Tabela, Datadas, Pendentes, Unicas, UmAtraso, UmRegistroPorFalta,
                QuemVeioNaoFaltou
  <1>5. QED
    BY <1>1, <1>2, <1>4 DEF Inv

LEMMA InvPasso == Inv /\ [Next]_vars => Inv'
  <1> SUFFICES ASSUME Inv, [Next]_vars PROVE Inv'
    OBVIOUS
  <1>0. TypeOK /\ TypeOK' /\ Tabela /\ CheckerParte /\ NrParte
    BY TipoPasso, Partes DEF Inv
  <1>1. /\ agora \in Nat /\ checker.quando \in Nat /\ checker.faltam \in SUBSET Compromissos
        /\ nr.quando \in Nat /\ nr.dias \in Int
    BY <1>0, Tipos
  <1>2. ASSUME UNCHANGED turnos, agora <= agora', CheckerAnda, NrAnda, CheckerParte', NrParte'
        PROVE  Inv'
    <2>1. Relogios'
      BY <1>2, Partes, PTL
    <2>2. Tabela'
      BY <1>0, <1>2, SoTrabalho
    <2>3. QED
      BY <1>0, <2>1, <2>2 DEF Inv
  <1>3. ASSUME Tabela', CheckerParte', NrParte' PROVE Inv'
    <2>1. Relogios'
      BY <1>3, Partes, PTL
    <2>2. QED
      BY <1>0, <1>3, <2>1 DEF Inv
  <1>4. ASSUME UNCHANGED <<turnos, checker, nr, agora>> PROVE Inv'
    BY <1>0, <1>1, <1>2, <1>4, CheckerQuieto, NrQuieto
  <1>5. ASSUME NEW e \in Compromissos, Iniciar(e) PROVE Inv'
    <2>1. UNCHANGED <<checker, nr, agora>>
      BY <1>5 DEF Iniciar
    <2>2. Tabela'
      BY <1>5, IniciarMarcas
    <2>3. QED
      BY <1>0, <1>3, <2>1, <2>2, CheckerQuieto, NrQuieto
  <1>6. ASSUME NEW i \in DOMAIN turnos, Finalizar(i) PROVE Inv'
    <2>1. UNCHANGED <<checker, nr, agora>>
      BY <1>6 DEF Finalizar
    <2>2. Tabela'
      BY <1>0, <1>6, FinalizarMarcas
    <2>3. QED
      BY <1>0, <1>3, <2>1, <2>2, CheckerQuieto, NrQuieto
  <1>7. ASSUME NEW a \in DOMAIN alertas, FecharAlerta(a) PROVE Inv'
    BY <1>4, <1>7 DEF FecharAlerta
  <1>8. ASSUME NEW novos, Editar(novos) PROVE Inv'
    BY <1>4, <1>8 DEF Editar
  <1>9. ASSUME NoShowEscalas PROVE Inv'
    <2>1. /\ checker'.passo = "substituicoes" /\ checker'.quando = agora
          /\ checker'.faltam = SemTurno(FALSE, agora)
          /\ UNCHANGED <<turnos, nr, agora>>
      BY <1>9 DEF NoShowEscalas
    <2>2. CheckerAnda
      BY <2>1 DEF CheckerAnda, SemTurno
    <2>3. CheckerParte'
      BY <1>1, <2>1 DEF CheckerParte
    <2>4. QED
      BY <1>0, <1>1, <1>2, <2>1, <2>2, <2>3, NrQuieto
  <1>10. ASSUME checker.passo # "parado",
                \/ checker' = Parado
                \/ \E faltam \in SUBSET Compromissos :
                      /\ Restam(faltam)
                      /\ \A e \in faltam : e \in checker.faltam \/ SemTurnoAtivo(e)
         PROVE  /\ CheckerAnda
                /\ agora' = agora => CheckerParte'
    <2>1. CASE checker' = Parado
      BY <2>1 DEF Parado, CheckerAnda, CheckerParte
    <2>2. ASSUME NEW faltam \in SUBSET Compromissos, Restam(faltam),
                 \A e \in faltam : e \in checker.faltam \/ SemTurnoAtivo(e)
          PROVE  /\ CheckerAnda
                 /\ agora' = agora => CheckerParte'
      <3>1. /\ CheckerAnda
            /\ checker'.passo = "parado" => checker'.faltam = {}
            /\ checker'.passo # "parado" => checker'.quando = checker.quando
            /\ checker'.passo # "linha"
        BY <1>0, <1>10, <2>2, RestamAnda
      <3>2. QED
        BY <1>0, <1>10, <3>1 DEF CheckerParte
    <2>3. QED
      BY <1>10, <2>1, <2>2
  <1>11. ASSUME NoShowSubstituicoes PROVE Inv'
    <2>1. checker.passo # "parado" /\ UNCHANGED <<turnos, nr, agora>>
      BY <1>11 DEF NoShowSubstituicoes
    <2> DEFINE F == checker.faltam \cup SemTurno(TRUE, checker.quando)
    <2>2. F \in SUBSET Compromissos /\ \A e \in F : e \in checker.faltam \/ SemTurnoAtivo(e)
      BY <1>0, <1>1 DEF SemTurno, TypeOK
    <2>3. checker' = Parado \/ Restam(F)
      BY <1>11 DEF NoShowSubstituicoes
    <2> HIDE DEF F
    <2>4. CheckerAnda /\ CheckerParte'
      BY <1>10, <2>1, <2>2, <2>3
    <2>5. QED
      BY <1>0, <1>1, <1>2, <2>1, <2>4, NrQuieto
  <1>12. ASSUME NEW e \in Compromissos, NoShowAlerta(e) PROVE Inv'
    <2>1. checker.passo = "lista" /\ e \in checker.faltam /\ UNCHANGED <<turnos, nr, agora>>
      BY <1>12 DEF NoShowAlerta, Proximo
    <2>2. CheckerAnda /\ CheckerParte'
      <3>1. CASE Restam(checker.faltam \ {e})
        <4>1. checker.faltam \ {e} \in SUBSET Compromissos
          BY <1>1
        <4>2. QED
          BY <1>10, <2>1, <3>1, <4>1
      <3>2. CASE checker' = [checker EXCEPT !.passo = "linha", !.atual = e]
        <4>1. /\ checker'.passo = "linha" /\ checker'.quando = checker.quando
              /\ checker'.faltam = checker.faltam /\ checker'.atual = e
          BY <1>0, <3>2 DEF TypeOK
        <4>2. QED
          BY <1>0, <2>1, <4>1 DEF CheckerAnda, CheckerParte
      <3>3. QED
        BY <1>12, <3>1, <3>2 DEF NoShowAlerta
    <2>3. QED
      BY <1>0, <1>1, <1>2, <2>1, <2>2, NrQuieto
  <1>13. ASSUME NoShowLinha PROVE Inv'
    <2>1. checker.passo # "parado" /\ UNCHANGED <<nr, agora>>
          /\ Restam(checker.faltam \ {checker.atual})
      BY <1>13 DEF NoShowLinha
    <2>2. CheckerAnda /\ CheckerParte'
      <3>1. checker.faltam \ {checker.atual} \in SUBSET Compromissos
        BY <1>1
      <3>2. QED
        BY <1>10, <2>1, <3>1
    <2>3. CASE turnos' = turnos
      BY <1>0, <1>1, <1>2, <2>1, <2>2, <2>3, NrQuieto
    <2>4. CASE turnos' # turnos
      <3>1. Tabela'
        BY <1>13, <2>4, NoShowLinhaMarcas
      <3>2. QED
        BY <1>0, <1>3, <2>1, <2>2, <3>1, NrQuieto
    <2>5. QED
      BY <2>3, <2>4
  <1>14. ASSUME NEW dias \in Int, dias >= 1, NEW quando \in Nat, quando <= agora,
                agora <= quando + 1, NrEscalas(quando, dias), agora' = agora
         PROVE  NrAnda /\ NrParte'
    <2>1. /\ NrAnda
          /\ nr'.passo # "parado" /\ nr'.quando = quando /\ nr'.dias = dias
          /\ \A e \in nr'.faltam : e.inicio < Hora(nr'.quando)
      BY <1>0, <1>14, NrEscalasAnda
    <2>2. QED
      BY <1>14, <2>1 DEF NrParte, Hora
  <1>15. ASSUME NrComecar PROVE Inv'
    <2>1. UNCHANGED <<turnos, checker, agora>> /\ NrEscalas(agora, 1)
      BY <1>15 DEF NrComecar
    <2>2. NrAnda /\ NrParte'
      BY <1>1, <1>14, <2>1
    <2>3. QED
      BY <1>0, <1>1, <1>2, <2>1, <2>2, CheckerQuieto
  <1>16. ASSUME NrSubstituicoes PROVE Inv'
    <2>1. UNCHANGED <<turnos, checker, agora>> /\ nr.passo = "escalas" /\ nr.faltam = {}
      BY <1>16 DEF NrSubstituicoes
    <2> DEFINE C == ConcluidasSemTurno(TRUE, NrDia, Hora(nr.quando))
    <2>2. /\ nr'.passo = "substituicoes" /\ nr'.quando = nr.quando /\ nr'.dias = nr.dias
          /\ nr'.faltam = C \/ nr'.faltam = {}
      BY <1>0, <1>16, <2>1 DEF NrSubstituicoes, TypeOK
    <2>3. \A e \in C : e.inicio < Hora(nr.quando)
      BY DEF ConcluidasSemTurno
    <2>4. NrDia' = NrDia
      BY <2>2 DEF NrDia, Dia
    <2>5. NrAnda
      BY <2>2, <2>4 DEF NrAnda
    <2> HIDE DEF C
    <2>6. NrParte'
      BY <1>0, <2>1, <2>2, <2>3 DEF NrParte, Hora
    <2>7. QED
      BY <1>0, <1>1, <1>2, <2>1, <2>5, <2>6, CheckerQuieto
  <1>17. ASSUME NEW e \in Compromissos, NrLinha(e) PROVE Inv'
    <2>1. /\ UNCHANGED <<checker, agora>> /\ nr'.passo = nr.passo /\ nr'.quando = nr.quando
          /\ nr'.dias = nr.dias /\ nr'.faltam = nr.faltam \ {e}
      BY <1>0, <1>17 DEF NrLinha, TypeOK
    <2>2. NrAnda /\ NrParte'
      BY <1>0, <2>1 DEF NrAnda, NrParte, NrDia, Dia, Hora
    <2>3. CASE turnos' = turnos
      BY <1>0, <1>1, <1>2, <2>1, <2>2, <2>3, CheckerQuieto
    <2>4. CASE turnos' # turnos
      <3>1. Tabela'
        BY <1>17, <2>4, NrLinhaMarcas
      <3>2. QED
        BY <1>0, <1>3, <2>1, <2>2, <3>1, CheckerQuieto
    <2>5. QED
      BY <2>3, <2>4
  <1>18. ASSUME NrProximo PROVE Inv'
    <2>1. UNCHANGED <<turnos, checker, agora>> /\ nr.passo # "parado"
      BY <1>18 DEF NrProximo
    <2>2. NrAnda /\ NrParte'
      <3>1. CASE nr.dias < DiasAtras
        <4>1. NrEscalas(nr.quando, nr.dias + 1)
          BY <1>18, <3>1 DEF NrProximo
        <4>2. nr.dias + 1 \in Int /\ nr.dias + 1 >= 1
              /\ nr.quando <= agora /\ agora <= nr.quando + 1
          BY <1>0, <1>1, <2>1 DEF NrParte
        <4>3. QED
          BY <1>1, <1>14, <2>1, <4>1, <4>2
      <3>2. CASE ~(nr.dias < DiasAtras)
        BY <1>18, <3>2 DEF NrProximo, NrParado, NrAnda, NrParte
      <3>3. QED
        BY <3>1, <3>2
    <2>3. QED
      BY <1>0, <1>1, <1>2, <2>1, <2>2, CheckerQuieto
  <1>19. ASSUME Reiniciar PROVE Inv'
    <2>1. UNCHANGED <<turnos, agora>> /\ checker' = Parado /\ nr' = NrParado
      BY <1>19 DEF Reiniciar
    <2>2. CheckerAnda /\ CheckerParte' /\ NrAnda /\ NrParte'
      BY <2>1 DEF Parado, NrParado, CheckerAnda, CheckerParte, NrAnda, NrParte
    <2>3. QED
      BY <1>1, <1>2, <2>1, <2>2
  <1>20. ASSUME Tique PROVE Inv'
    <2>1. /\ UNCHANGED <<turnos, checker, nr>> /\ agora' = agora + 1
          /\ checker.passo # "parado" => checker.quando = agora
          /\ nr.passo # "parado" => nr.quando = agora
      BY <1>20 DEF Tique
    <2>2. agora <= agora' /\ agora <= agora + 1
      BY <1>1, <2>1
    <2>3. CheckerAnda /\ CheckerParte'
      <3>1. checker' = checker
        BY <2>1
      <3>2. CheckerAnda
        BY <3>1 DEF CheckerAnda
      <3>3. checker.passo # "parado" => checker.quando <= agora' /\ agora' <= checker.quando + 1
        BY <1>1, <2>1
      <3>4. QED
        BY <1>0, <3>1, <3>2, <3>3 DEF CheckerParte
    <2>4. NrAnda /\ NrParte'
      BY <1>0, <2>1, <2>2 DEF NrAnda, NrParte, NrDia, Dia, Hora
    <2>5. QED
      BY <1>2, <2>1, <2>2, <2>3, <2>4
  <1>21. CASE UNCHANGED vars
    BY <1>4, <1>21 DEF vars
  <1>22. QED
    BY <1>5, <1>6, <1>7, <1>8, <1>9, <1>11, <1>12, <1>13, <1>15, <1>16, <1>17, <1>18, <1>19,
       <1>20, <1>21
       DEF Next, checkNoShow, NaoRealizado, Criar, Delete, Update, ReplaceLote

\* An absence is recorded once, although two workers look for it with different
\* queries, and either may fail or be restarted between its alert and its row.
THEOREM RegistroCorrect == Spec => []UmRegistroPorFalta
  <1>1. Inv => UmRegistroPorFalta
    BY DEF Inv, Tabela, Unicas
  <1>2. QED
    BY <1>1, InvInicial, InvPasso, PTL DEF Spec

\* A guard who started a shift at the post is not recorded as not having come there
\* on that day, although the start may fall between the query and the row.
THEOREM QuemVeioCorrect == Spec => []QuemVeioNaoFaltou
  <1>1. Inv => QuemVeioNaoFaltou
    BY DEF Inv, Tabela, Unicas
  <1>2. QED
    BY <1>1, InvInicial, InvPasso, PTL DEF Spec
=============================================================================
