----------------------------- MODULE Hub_proofs -----------------------------
(* Proofs about Hub, for every number of clients, companies, broadcasters   *)
(* and events, and every capacity of the channels.                          *)
EXTENDS Hub, TLAPS

\* A registered client is in the map of its own company.
NoMapa(c) == c \in DaEmpresa(EmpresaDe[c])

\* The strengthening of SemPanico and FechadoSaiu: a client that was not
\* registered yet is open and outside; a broadcaster that is inside only still
\* has clients of the map to serve, which holds as nobody leaves the map while
\* the read lock is held.
Coerente ==
    /\ ~panico
    /\ \A c \in Clientes :
          IF readPump[c] \in {"fora", "registrando"}
          THEN ~fechado[c] /\ ~NoMapa(c)
          ELSE fechado[c] <=> ~NoMapa(c)
    /\ \A emp \in Empresas : \A c \in DaEmpresa(emp) : EmpresaDe[c] = emp
    /\ \A e \in Emissores :
          /\ ~emissor[e].dentro => emissor[e].faltam = {}
          /\ \A c \in emissor[e].faltam : NoMapa(c)

LEMMA DaEmpresaTipo ==
    ASSUME TypeOK, NEW emp
    PROVE  DaEmpresa(emp) \subseteq Clientes
  BY DEF DaEmpresa, TypeOK

\* The map with one key added or replaced is still a map of sets of clients.
LEMMA PoeTipo ==
    ASSUME NEW E, NEW S, NEW f, DOMAIN f \subseteq E, f \in [DOMAIN f -> SUBSET S],
           NEW a \in E, NEW v \in SUBSET S, NEW g,
           g = [x \in DOMAIN f \cup {a} |-> IF x = a THEN v ELSE f[x]]
    PROVE  DOMAIN g \subseteq E /\ g \in [DOMAIN g -> SUBSET S]
  <1> DEFINE D == DOMAIN f \cup {a}
  <1>1. \A x \in D : (IF x = a THEN v ELSE f[x]) \in SUBSET S
    OBVIOUS
  <1>2. g \in [D -> SUBSET S]
    BY <1>1
  <1>3. DOMAIN g = D
    OBVIOUS
  <1>4. D \subseteq E
    OBVIOUS
  <1> HIDE DEF D
  <1> QED BY <1>2, <1>3, <1>4

\* What taking a client out of the map, and putting one in, does to the map.
LEMMA SemTira ==
    ASSUME TypeOK, NEW c \in Clientes, clients' = Sem(c)
    PROVE  /\ \A emp : DaEmpresa(emp)' =
                 IF emp = EmpresaDe[c] THEN DaEmpresa(emp) \ {c} ELSE DaEmpresa(emp)
           /\ DOMAIN clients' \subseteq Empresas
           /\ clients' \in [DOMAIN clients' -> SUBSET Clientes]
  <1> DEFINE restam == DaEmpresa(EmpresaDe[c]) \ {c}
  <1>1. EmpresaDe[c] \in Empresas /\ restam \subseteq Clientes
    BY ConstantesOK, DaEmpresaTipo
  <1>2. CASE restam = {}
    <2>1. clients' = [x \in DOMAIN clients \ {EmpresaDe[c]} |-> clients[x]]
      BY <1>2 DEF Sem
    <2> QED BY <1>2, <2>1 DEF DaEmpresa, TypeOK
  <1>3. CASE restam # {}
    <2>1. clients' = [x \in DOMAIN clients \cup {EmpresaDe[c]} |->
                         IF x = EmpresaDe[c] THEN restam ELSE clients[x]]
      BY <1>3 DEF Sem, Com
    <2> HIDE DEF restam
    <2>2. \A emp : DaEmpresa(emp)' = IF emp = EmpresaDe[c] THEN restam ELSE DaEmpresa(emp)
      BY <2>1 DEF DaEmpresa
    <2>3. DOMAIN clients' \subseteq Empresas /\ clients' \in [DOMAIN clients' -> SUBSET Clientes]
      <3>1. DOMAIN clients \subseteq Empresas /\ clients \in [DOMAIN clients -> SUBSET Clientes]
        BY DEF TypeOK
      <3> QED BY <1>1, <2>1, <3>1, PoeTipo
    <2> QED BY <2>2, <2>3 DEF restam
  <1> QED BY <1>2, <1>3

LEMMA ComPoe ==
    ASSUME TypeOK, NEW c \in Clientes,
           clients' = Com(EmpresaDe[c], DaEmpresa(EmpresaDe[c]) \cup {c})
    PROVE  /\ \A emp : DaEmpresa(emp)' =
                 IF emp = EmpresaDe[c] THEN DaEmpresa(emp) \cup {c} ELSE DaEmpresa(emp)
           /\ DOMAIN clients' \subseteq Empresas
           /\ clients' \in [DOMAIN clients' -> SUBSET Clientes]
  <1>1. /\ EmpresaDe[c] \in Empresas
        /\ DaEmpresa(EmpresaDe[c]) \cup {c} \subseteq Clientes
    BY ConstantesOK, DaEmpresaTipo
  <1>2. clients' = [x \in DOMAIN clients \cup {EmpresaDe[c]} |->
                       IF x = EmpresaDe[c] THEN DaEmpresa(EmpresaDe[c]) \cup {c} ELSE clients[x]]
    BY DEF Com
  <1>3. \A emp : DaEmpresa(emp)' =
           IF emp = EmpresaDe[c] THEN DaEmpresa(emp) \cup {c} ELSE DaEmpresa(emp)
    BY <1>2 DEF DaEmpresa
  <1>4. DOMAIN clients' \subseteq Empresas /\ clients' \in [DOMAIN clients' -> SUBSET Clientes]
    <2>1. DOMAIN clients \subseteq Empresas /\ clients \in [DOMAIN clients -> SUBSET Clientes]
      BY DEF TypeOK
    <2> QED BY <1>1, <1>2, <2>1, PoeTipo
  <1> QED BY <1>3, <1>4

\* Unregister is safe while no broadcaster is inside.
LEMMA UnregisterSeguro ==
    ASSUME TypeOK, Coerente, NEW c \in Clientes, Unregister(c)
    PROVE  /\ ~panico'
           /\ fechado' \in [Clientes -> BOOLEAN]
           /\ DOMAIN clients' \subseteq Empresas
           /\ clients' \in [DOMAIN clients' -> SUBSET Clientes]
           /\ ~NoMapa(c)'
           /\ NoMapa(c) => fechado'[c]
           /\ ~NoMapa(c) => fechado'[c] = fechado[c]
           /\ \A x \in Clientes \ {c} : (NoMapa(x)' <=> NoMapa(x)) /\ fechado'[x] = fechado[x]
           /\ \A emp \in Empresas : DaEmpresa(emp)' \subseteq DaEmpresa(emp)
  <1>1. CASE NoMapa(c)
    <2>1. /\ clients' = Sem(c)
          /\ fechado' = [fechado EXCEPT ![c] = TRUE]
          /\ panico' = (panico \/ fechado[c])
      BY <1>1 DEF Unregister, NoMapa
    <2>2. ~panico'
      BY <1>1, <2>1 DEF Coerente
    <2>3. /\ \A emp : DaEmpresa(emp)' =
                IF emp = EmpresaDe[c] THEN DaEmpresa(emp) \ {c} ELSE DaEmpresa(emp)
          /\ DOMAIN clients' \subseteq Empresas
          /\ clients' \in [DOMAIN clients' -> SUBSET Clientes]
      BY <2>1, SemTira
    <2>4. /\ fechado' \in [Clientes -> BOOLEAN]
          /\ fechado'[c]
          /\ \A x \in Clientes \ {c} : fechado'[x] = fechado[x]
      BY <2>1 DEF TypeOK
    <2> QED BY <1>1, <2>2, <2>3, <2>4 DEF NoMapa
  <1>2. CASE ~NoMapa(c)
    <2>1. UNCHANGED <<clients, fechado, panico>>
      BY <1>2 DEF Unregister, NoMapa
    <2>2. \A emp : DaEmpresa(emp)' = DaEmpresa(emp)
      BY <2>1 DEF DaEmpresa
    <2>3. \A x : NoMapa(x)' <=> NoMapa(x)
      BY <2>2 DEF NoMapa
    <2>4. ~panico' /\ fechado' \in [Clientes -> BOOLEAN]
      BY <2>1 DEF TypeOK, Coerente
    <2>5. DOMAIN clients' \subseteq Empresas /\ clients' \in [DOMAIN clients' -> SUBSET Clientes]
      BY <2>1 DEF TypeOK
    <2> QED BY <1>2, <2>1, <2>2, <2>3, <2>4, <2>5
  <1> QED BY <1>1, <1>2

-----------------------------------------------------------------------------
LEMMA Inicio == Init => TypeOK /\ Coerente
  <1> SUFFICES ASSUME Init PROVE TypeOK /\ Coerente
    OBVIOUS
  <1>1. DOMAIN clients = {} /\ \A emp : DaEmpresa(emp) = {}
    BY DEF Init, DaEmpresa
  <1>2. clients \in [DOMAIN clients -> SUBSET Clientes]
    BY DEF Init
  <1>3. TypeOK
    <2>1. fila \in [Clientes -> 0 .. CapEnvio]
      BY ConstantesOK DEF Init
    <2>2. emissor \in [Emissores -> [dentro : BOOLEAN, faltam : SUBSET Clientes]]
      BY DEF Init, Fora
    <2>3. /\ fechado \in [Clientes -> BOOLEAN]
          /\ perdeu \in [Clientes -> BOOLEAN]
          /\ despejos \in [Clientes -> Nat]
      BY DEF Init
    <2>4. DOMAIN clients \subseteq Empresas
      BY <1>1
    <2>5. /\ esperam \subseteq Escritor /\ eventos \in Nat /\ panico \in BOOLEAN
          /\ conn \in [Clientes -> {"aberta", "caida", "fechada"}]
          /\ readPump \in [Clientes -> {"fora", "registrando", "registrado", "lendo", "saindo", "fim"}]
          /\ writePump \in [Clientes -> {"fora", "rodando", "fim"}]
      BY DEF Init
    <2> QED BY <1>2, <2>1, <2>2, <2>3, <2>4, <2>5 DEF TypeOK
  <1>4. Coerente
    BY <1>1 DEF Init, Coerente, NoMapa, Fora
  <1> QED BY <1>3, <1>4

\* Steps that leave the map, the channels and the broadcasters alone.
LEMMA SemEfeito ==
    ASSUME Coerente, UNCHANGED <<clients, fechado, panico, emissor>>,
           \A c \in Clientes : readPump'[c] \in {"fora", "registrando"} <=>
                                readPump[c] \in {"fora", "registrando"}
    PROVE  Coerente'
  <1>1. \A emp : DaEmpresa(emp)' = DaEmpresa(emp)
    BY DEF DaEmpresa
  <1>2. \A c : NoMapa(c)' <=> NoMapa(c)
    BY <1>1 DEF NoMapa
  <1> QED BY <1>1, <1>2 DEF Coerente

\* An Unregister leaves the state coherent: it runs when nobody is inside.
LEMMA SaiCoerente ==
    ASSUME TypeOK, Coerente, NEW c \in Clientes, Unregister(c), SemLeitor, emissor' = emissor,
           \A x \in Clientes : readPump'[x] \in {"fora", "registrando"} <=>
                                readPump[x] \in {"fora", "registrando"}
    PROVE  Coerente'
  <1>1. ~panico'
    BY UnregisterSeguro
  <1>2. ASSUME NEW x \in Clientes
        PROVE  IF readPump'[x] \in {"fora", "registrando"}
               THEN ~fechado'[x] /\ ~NoMapa(x)'
               ELSE fechado'[x] <=> ~NoMapa(x)'
    <2>1. CASE x = c
      BY <2>1, UnregisterSeguro DEF Coerente
    <2>2. CASE x # c
      BY <2>2, UnregisterSeguro DEF Coerente
    <2> QED BY <2>1, <2>2
  <1>3. \A emp \in Empresas : \A x \in DaEmpresa(emp)' : EmpresaDe[x] = emp
    BY UnregisterSeguro DEF Coerente
  <1>4. \A e \in Emissores :
           /\ ~emissor'[e].dentro => emissor'[e].faltam = {}
           /\ \A x \in emissor'[e].faltam : NoMapa(x)'
    BY DEF Coerente, SemLeitor
  <1> QED BY <1>1, <1>2, <1>3, <1>4 DEF Coerente

LEMMA PassoHub ==
    ASSUME TypeOK, Coerente, [Next]_vars
    PROVE  TypeOK' /\ Coerente'
  <1>1. ASSUME NEW e \in Emissores, NEW emp \in Empresas, BroadcastIniciar(e, emp)
        PROVE  TypeOK' /\ Coerente'
    <2>1. DaEmpresa(emp) \subseteq Clientes
      BY DaEmpresaTipo
    <2>2. TypeOK'
      BY <1>1, <2>1 DEF BroadcastIniciar, TypeOK
    <2>3. \A x : DaEmpresa(x)' = DaEmpresa(x)
      BY <1>1 DEF BroadcastIniciar, DaEmpresa
    <2>4. \A c : NoMapa(c)' <=> NoMapa(c)
      BY <2>3 DEF NoMapa
    <2>5. \A c \in DaEmpresa(emp) : NoMapa(c)
      BY DEF Coerente, NoMapa
    <2>6. \A x \in Emissores :
             /\ ~emissor'[x].dentro => emissor'[x].faltam = {}
             /\ \A c \in emissor'[x].faltam : NoMapa(c)'
      BY <1>1, <2>4, <2>5 DEF BroadcastIniciar, Coerente, TypeOK
    <2> QED BY <1>1, <2>2, <2>3, <2>4, <2>6 DEF BroadcastIniciar, Coerente
  <1>2. ASSUME NEW e \in Emissores, NEW c \in Clientes, BroadcastEnviar(e, c)
        PROVE  TypeOK' /\ Coerente'
    <2>1. TypeOK'
      <3>1. fila' \in [Clientes -> 0 .. CapEnvio]
        BY <1>2, ConstantesOK DEF BroadcastEnviar, TypeOK
      <3>2. despejos' \in [Clientes -> Nat]
        BY <1>2 DEF BroadcastEnviar, TypeOK
      <3>4. perdeu' \in [Clientes -> BOOLEAN]
        BY <1>2 DEF BroadcastEnviar, TypeOK
      <3>5. panico' \in BOOLEAN
        BY <1>2 DEF BroadcastEnviar
      <3>3. emissor' \in [Emissores -> [dentro : BOOLEAN, faltam : SUBSET Clientes]]
        BY <1>2 DEF BroadcastEnviar, TypeOK
      <3> QED BY <1>2, <3>1, <3>2, <3>3, <3>4, <3>5 DEF BroadcastEnviar, TypeOK
    <2>2. ~panico'
      <3>1. NoMapa(c) /\ ~fechado[c]
        BY <1>2 DEF BroadcastEnviar, Coerente
      <3> QED BY <1>2, <3>1 DEF BroadcastEnviar, Coerente
    <2>3. \A x : DaEmpresa(x)' = DaEmpresa(x)
      BY <1>2 DEF BroadcastEnviar, DaEmpresa
    <2>4. \A x : NoMapa(x)' <=> NoMapa(x)
      BY <2>3 DEF NoMapa
    <2>5. \A x \in Emissores :
             /\ ~emissor'[x].dentro => emissor'[x].faltam = {}
             /\ \A y \in emissor'[x].faltam : NoMapa(y)'
      BY <1>2, <2>4 DEF BroadcastEnviar, Coerente, TypeOK
    <2> QED BY <1>2, <2>1, <2>2, <2>3, <2>4, <2>5 DEF BroadcastEnviar, Coerente
  <1>3. ASSUME NEW e \in Emissores, BroadcastFim(e)
        PROVE  TypeOK' /\ Coerente'
    <2>1. TypeOK'
      BY <1>3 DEF BroadcastFim, Fora, TypeOK
    <2>2. \A x : DaEmpresa(x)' = DaEmpresa(x)
      BY <1>3 DEF BroadcastFim, DaEmpresa
    <2>3. \A x : NoMapa(x)' <=> NoMapa(x)
      BY <2>2 DEF NoMapa
    <2>4. \A x \in Emissores :
             /\ ~emissor'[x].dentro => emissor'[x].faltam = {}
             /\ \A y \in emissor'[x].faltam : NoMapa(y)'
      BY <1>3, <2>3 DEF BroadcastFim, Fora, Coerente, TypeOK
    <2> QED BY <1>3, <2>1, <2>2, <2>3, <2>4 DEF BroadcastFim, Coerente
  <1>4. ASSUME NEW c \in Clientes, Register(c)
        PROVE  TypeOK' /\ Coerente'
    <2>1. clients' = Com(EmpresaDe[c], DaEmpresa(EmpresaDe[c]) \cup {c})
      BY <1>4 DEF Register
    <2>2. TypeOK'
      BY <1>4, <2>1, ComPoe DEF Register, ComLock, TypeOK
    <2>3. readPump[c] = "registrando" /\ readPump' = [readPump EXCEPT ![c] = "registrado"]
      BY <1>4 DEF Register
    <2>4. \A emp : DaEmpresa(emp)' =
             IF emp = EmpresaDe[c] THEN DaEmpresa(emp) \cup {c} ELSE DaEmpresa(emp)
      BY <2>1, ComPoe
    <2>5. NoMapa(c)' /\ \A x \in Clientes \ {c} : NoMapa(x)' <=> NoMapa(x)
      BY <2>4 DEF NoMapa
    <2>6. ASSUME NEW x \in Clientes
          PROVE  IF readPump'[x] \in {"fora", "registrando"}
                 THEN ~fechado[x] /\ ~NoMapa(x)'
                 ELSE fechado[x] <=> ~NoMapa(x)'
      <3>1. CASE x = c
        BY <2>3, <2>5, <3>1 DEF Coerente, TypeOK
      <3>2. CASE x # c
        BY <2>3, <2>5, <3>2 DEF Coerente, TypeOK
      <3> QED BY <3>1, <3>2
    <2>7. \A emp \in Empresas : \A x \in DaEmpresa(emp)' : EmpresaDe[x] = emp
      BY <2>4 DEF Coerente
    <2>8. \A e \in Emissores :
             /\ ~emissor[e].dentro => emissor[e].faltam = {}
             /\ \A x \in emissor[e].faltam : NoMapa(x)'
      BY <1>4 DEF Register, ComLock, SemLeitor, Coerente
    <2>9. UNCHANGED <<fechado, emissor, panico>>
      BY <1>4 DEF Register
    <2>10. Coerente'
      BY <2>6, <2>7, <2>8, <2>9 DEF Coerente
    <2> QED BY <2>2, <2>10
  <1>5. ASSUME NEW c \in Clientes, Despejar(c)
        PROVE  TypeOK' /\ Coerente'
    <2>1. Unregister(c) /\ SemLeitor /\ UNCHANGED <<emissor, readPump>>
      BY <1>5 DEF Despejar, ComLock
    <2>2. despejos' \in [Clientes -> Nat]
      BY <1>5 DEF Despejar, TypeOK
    <2>3. TypeOK'
      <3>1. /\ fechado' \in [Clientes -> BOOLEAN] /\ ~panico'
            /\ DOMAIN clients' \subseteq Empresas
            /\ clients' \in [DOMAIN clients' -> SUBSET Clientes]
        BY <2>1, UnregisterSeguro
      <3>2. esperam' \subseteq Escritor
        BY <1>5 DEF Despejar, ComLock, TypeOK
      <3>3. UNCHANGED <<fila, conn, readPump, writePump, emissor, eventos, perdeu>>
        BY <1>5 DEF Despejar
      <3>5. panico' \in BOOLEAN
        BY <2>1 DEF Unregister, TypeOK
      <3> QED BY <2>2, <3>1, <3>2, <3>3, <3>5 DEF TypeOK
    <2>4. Coerente'
      BY <2>1, SaiCoerente
    <2> QED BY <2>3, <2>4
  <1>6. ASSUME NEW c \in Clientes, ReadPumpSair(c)
        PROVE  TypeOK' /\ Coerente'
    <2>1. Unregister(c) /\ SemLeitor /\ emissor' = emissor
      BY <1>6 DEF ReadPumpSair, ComLock
    <2>2. \A x \in Clientes : readPump'[x] \in {"fora", "registrando"} <=>
                               readPump[x] \in {"fora", "registrando"}
      BY <1>6 DEF ReadPumpSair, TypeOK
    <2>3. TypeOK'
      <3>1. /\ fechado' \in [Clientes -> BOOLEAN] /\ ~panico'
            /\ DOMAIN clients' \subseteq Empresas
            /\ clients' \in [DOMAIN clients' -> SUBSET Clientes]
        BY <2>1, UnregisterSeguro
      <3>2. esperam' \subseteq Escritor
        BY <1>6 DEF ReadPumpSair, ComLock, TypeOK
      <3>3. /\ readPump' \in [Clientes -> {"fora", "registrando", "registrado", "lendo", "saindo", "fim"}]
            /\ conn' \in [Clientes -> {"aberta", "caida", "fechada"}]
        BY <1>6 DEF ReadPumpSair, TypeOK
      <3>4. UNCHANGED <<fila, writePump, despejos, emissor, eventos, perdeu>>
        BY <1>6 DEF ReadPumpSair
      <3>5. panico' \in BOOLEAN
        BY <2>1 DEF Unregister, TypeOK
      <3> QED BY <3>1, <3>2, <3>3, <3>4, <3>5 DEF TypeOK
    <2>4. Coerente'
      BY <2>1, <2>2, SaiCoerente
    <2> QED BY <2>3, <2>4
  <1>7. ASSUME NEW c \in Clientes,
               Conectar(c) \/ IniciarPumps(c) \/ Cair(c) \/ ReadPumpErro(c)
        PROVE  TypeOK' /\ Coerente'
    <2>1. TypeOK'
      BY <1>7 DEF Conectar, IniciarPumps, Cair, ReadPumpErro, TypeOK
    <2>2. \A x \in Clientes : readPump'[x] \in {"fora", "registrando"} <=>
                               readPump[x] \in {"fora", "registrando"}
      BY <1>7 DEF Conectar, IniciarPumps, Cair, ReadPumpErro, TypeOK
    <2>3. UNCHANGED <<clients, fechado, panico, emissor>>
      BY <1>7 DEF Conectar, IniciarPumps, Cair, ReadPumpErro
    <2> QED BY <2>1, <2>2, <2>3, SemEfeito
  <1>8. ASSUME NEW c \in Clientes, WritePump(c)
        PROVE  TypeOK' /\ Coerente'
    <2>1. UNCHANGED <<clients, fechado, panico, emissor, readPump>>
      BY <1>8 DEF WritePump, WritePumpEscrever, WritePumpErro, WritePumpPing, WritePumpFim
    <2>2. fila' \in [Clientes -> 0 .. CapEnvio]
      BY <1>8, ConstantesOK
         DEF WritePump, WritePumpEscrever, WritePumpErro, WritePumpPing, WritePumpFim, TypeOK
    <2>3. /\ conn' \in [Clientes -> {"aberta", "caida", "fechada"}]
          /\ writePump' \in [Clientes -> {"fora", "rodando", "fim"}]
      BY <1>8 DEF WritePump, WritePumpEscrever, WritePumpErro, WritePumpPing, WritePumpFim,
         Encerrar, TypeOK
    <2>4. UNCHANGED <<despejos, esperam, eventos, perdeu>>
      BY <1>8 DEF WritePump, WritePumpEscrever, WritePumpErro, WritePumpPing, WritePumpFim
    <2>5. TypeOK'
      BY <2>1, <2>2, <2>3, <2>4 DEF TypeOK
    <2> QED BY <2>1, <2>5, SemEfeito
  <1>9. ASSUME NEW w \in Escritor, Lock(w)
        PROVE  TypeOK' /\ Coerente'
    <2>1. UNCHANGED <<clients, fechado, panico, emissor, readPump>>
      BY <1>9 DEF Lock
    <2>2. TypeOK'
      BY <1>9 DEF Lock, TypeOK
    <2> QED BY <2>1, <2>2, SemEfeito
  <1>10. CASE UNCHANGED vars
    <2>1. UNCHANGED <<clients, fechado, panico, emissor, readPump>>
      BY <1>10 DEF vars
    <2>2. TypeOK'
      BY <1>10 DEF vars, TypeOK
    <2> QED BY <2>1, <2>2, SemEfeito
  <1> QED BY <1>1, <1>2, <1>3, <1>4, <1>5, <1>6, <1>7, <1>8, <1>9, <1>10
          DEF Next, Broadcast, ReadPump

LEMMA Implica == TypeOK /\ Coerente => SemPanico /\ FechadoSaiu
  <1> SUFFICES ASSUME TypeOK, Coerente PROVE SemPanico /\ FechadoSaiu
    OBVIOUS
  <1>1. SemPanico
    BY DEF Coerente, SemPanico
  <1>2. ASSUME NEW c \in Clientes, readPump[c] \notin {"fora", "registrando"}
        PROVE  fechado[c] <=> c \notin DaEmpresa(EmpresaDe[c])
    BY <1>2 DEF Coerente, NoMapa
  <1>3. ASSUME NEW e \in Emissores, NEW c \in emissor[e].faltam
        PROVE  ~fechado[c]
    <2>1. c \in Clientes /\ NoMapa(c)
      BY <1>3 DEF TypeOK, Coerente
    <2> QED BY <2>1 DEF Coerente
  <1> QED BY <1>1, <1>2, <1>3 DEF FechadoSaiu

LEMMA SempreCoerente == Spec => [](TypeOK /\ Coerente)
  <1>1. (TypeOK /\ Coerente) /\ [Next]_vars => (TypeOK /\ Coerente)'
    BY PassoHub
  <1> QED BY <1>1, Inicio, PTL DEF Spec

\* The hub's state is well typed; no queue outgrows its channel.
THEOREM TypeCorrect == Spec => []TypeOK
  BY SempreCoerente, PTL

\* No goroutine ever sends on a closed channel or closes one twice, for any
\* number of panels, companies and broadcasting requests.
THEOREM SemPanicoCorrect == Spec => []SemPanico
  BY SempreCoerente, Implica, PTL

\* A channel is closed exactly when its client has left the map, and never while
\* a broadcaster still has to serve it.
THEOREM FechadoCorrect == Spec => []FechadoSaiu
  BY SempreCoerente, Implica, PTL
=============================================================================
