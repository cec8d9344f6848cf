--------------------------- MODULE Destinos_proofs ---------------------------
(* Proofs about Destinos, for any users, levels and lists, any number of    *)
(* requests and resolutions, and any pool that satisfies PoolBasta.         *)
EXTENDS Destinos, TLAPS
-----------------------------------------------------------------------------
(* What the proofs add to the types.                                       *)

\* A request that will write knows the level, and the list it was sent.
PedidoOK(r) ==
    /\ r.pc \in {"gravar", "comecou", "esperar", "inserir"} => r.nivel \in Niveis
    /\ r.pc \in {"esperar", "inserir"} => r.lista \in Listas
    /\ r.pc \in {"gravar", "comecou"} /\ r.op # "remover" => r.lista \in Listas

\* Resolution r against the tables.  What it witnesses is true of them up to its
\* last query; whom it must tell is still to be read, or was found.
SinalOK(r, f, d, v) ==
    LET devidos == r.admin \cup r.ligado IN
    /\ r.pc \notin {"livre", "pronto"} =>
          /\ \A x \in r.admin : x[2] \in Admins(f)
          /\ \A x \in r.ligado : x[2] \in v
          /\ \A x \in devidos : x[2] \in Lista(d, x[1]) /\ r.nivel \in {x[1], NULL}
          /\ Admins(f) \cup v \subseteq r.apto
    /\ r.pc \in {"config", "lista"} => r.falta = {}
    /\ r.pc = "lista" => r.nivel \in Niveis
    /\ r.pc = "cursor" => \A x \in devidos : x[1] \in r.falta \/ x[2] \in r.achados
    /\ r.pc \in {"admins", "supervisores", "pronto"} => \A x \in devidos : x[2] \in r.achados
    /\ r.pc = "supervisores" => (\A x \in r.admin : x[2] \in r.admins) /\ r.admins \subseteq r.apto
    /\ r.pc = "pronto" => r.achados \subseteq r.apto

Coerente ==
    /\ \A p \in Pedidos : PedidoOK(pedido[p])
    /\ \A s \in Sinais : SinalOK(sinal[s], papel, destinatarios, vinculos)
-----------------------------------------------------------------------------
(* Types, part by part.                                                    *)

TabelasT(f, d, v) ==
    /\ f \in [Usuarios -> {"admin", "supervisor", "vigia"}]
    /\ d \in [Niveis -> ((SUBSET Usuarios) \ {{}}) \cup {NULL}]
    /\ v \subseteq Vinculaveis

PedidoT ==
    [pc : {"livre", "chegou", "gravar", "comecou", "esperar", "inserir", "cursor"},
     op : {"criar", "atualizar", "usuarios", "remover", "listar", NULL},
     nivel : Niveis \cup {NULL}, lista : Listas \cup {<<>>},
     visto : SUBSET Usuarios, falta : SUBSET Niveis]

SinalT ==
    [pc : {"livre", "config", "lista", "cursor", "admins", "supervisores", "pronto"},
     nivel : Niveis \cup {NULL}, falta : SUBSET Niveis,
     achados : SUBSET Usuarios, admins : SUBSET Usuarios,
     admin : SUBSET (Niveis \X Usuarios), ligado : SUBSET (Niveis \X Usuarios),
     apto : SUBSET Usuarios]

Inv == TypeOK /\ Coerente

PedidosOK == pedido \in [Pedidos -> PedidoT] /\ \A p \in Pedidos : PedidoOK(pedido[p])

SinaisOK ==
    sinal \in [Sinais -> SinalT]
    /\ \A s \in Sinais : SinalOK(sinal[s], papel, destinatarios, vinculos)

LEMMA Partes == Inv <=> TabelasT(papel, destinatarios, vinculos) /\ PedidosOK /\ SinaisOK
  BY DEF Inv, TypeOK, Coerente, TabelasT, PedidoT, SinalT, PedidosOK, SinaisOK

LEMMA Juntas == (TabelasT(papel, destinatarios, vinculos) /\ PedidosOK /\ SinaisOK)' => Inv'
  BY DEF Inv, TypeOK, Coerente, TabelasT, PedidoT, SinalT, PedidosOK, SinaisOK

\* A list names somebody, and users only.
LEMMA ListaNomeia == ASSUME NEW l \in Listas PROVE Range(l) \in (SUBSET Usuarios) \ {{}}
  <1>1. l \in Seq(Usuarios) /\ l # <<>>
    BY ConstantesOK
  <1>2. 1 \in DOMAIN l /\ \A i \in DOMAIN l : l[i] \in Usuarios
    BY <1>1
  <1>3. QED
    BY <1>2 DEF Range

LEMMA QuemTipo ==
    ASSUME NEW f, NEW d, NEW v, TabelasT(f, d, v), NEW n \in Niveis
    PROVE  /\ Admins(f) \in SUBSET Usuarios
           /\ v \in SUBSET Usuarios
           /\ Lista(d, n) \in SUBSET Usuarios
           /\ Existentes(d) \in SUBSET Niveis
           /\ d[n] # NULL => Lista(d, n) # {}
  <1>1. Vinculaveis \subseteq Usuarios
    BY ConstantesOK
  <1>2. QED
    BY <1>1 DEF TabelasT, Admins, Lista, Existentes

LEMMA ListadosTipo ==
    ASSUME NEW f, NEW d, NEW v, TabelasT(f, d, v), NEW ns \in SUBSET Niveis
    PROVE  /\ Listados(d, ns) \in SUBSET (Niveis \X Usuarios)
           /\ \A x \in Listados(d, ns) : x[2] \in Lista(d, x[1]) /\ x[1] \in ns /\ d[x[1]] # NULL
           /\ \A n \in ns : \A u \in Lista(d, n) : u \in Usuarios => <<n, u>> \in Listados(d, ns)
  BY DEF Listados, Lista
-----------------------------------------------------------------------------
(* What steps do to requests and to resolutions.                           *)

LEMMA OciosoOK == Ocioso \in PedidoT /\ PedidoOK(Ocioso)
  BY DEF Ocioso, PedidoT, PedidoOK

LEMMA CalmoOK ==
    ASSUME NEW f, NEW d, NEW v
    PROVE  Calmo \in SinalT /\ SinalOK(Calmo, f, d, v)
  BY DEF Calmo, SinalT, SinalOK

LEMMA PassaOK ==
    ASSUME PedidosOK, NEW p \in Pedidos, NEW r \in PedidoT, PedidoOK(r), Passa(p, r)
    PROVE  PedidosOK'
  <1>1. pedido' = [pedido EXCEPT ![p] = r]
    BY DEF Passa
  <1>2. pedido' \in [Pedidos -> PedidoT]
    BY <1>1 DEF PedidosOK
  <1>3. \A q \in Pedidos : PedidoOK(pedido'[q])
    BY <1>1 DEF PedidosOK
  <1>4. QED
    BY <1>2, <1>3 DEF PedidosOK

\* A resolution goes on witnessing what it did, of those who are still there.
LEMMA TestemunhaOK ==
    ASSUME Inv, NEW s \in Sinais, NEW f, NEW d, NEW v, TabelasT(f, d, v)
    PROVE  Testemunha(s, f, d, v) \in SinalT /\ SinalOK(Testemunha(s, f, d, v), f, d, v)
  <1> DEFINE r == sinal[s]
             todos == Listados(d, Alcance(s))
             t == [r EXCEPT !.admin   = {x \in @ \cap todos : x[2] \in Admins(f)},
                            !.ligado  = {x \in @ \cap todos : x[2] \in v},
                            !.apto    = @ \cup Admins(f) \cup v]
  <1>1. r \in SinalT /\ SinalOK(r, papel, destinatarios, vinculos)
    BY Partes DEF SinaisOK
  <1>2. CASE r.pc \in {"livre", "pronto"}
    <2>1. Testemunha(s, f, d, v) = r
      BY <1>2 DEF Testemunha
    <2>2. SinalOK(r, f, d, v)
      BY <1>1, <1>2 DEF SinalOK
    <2>3. QED
      BY <1>1, <2>1, <2>2
  <1>3. CASE r.pc \notin {"livre", "pronto"}
    <2>1. Testemunha(s, f, d, v) = t
      BY <1>3 DEF Testemunha
    <2>2. Alcance(s) \in SUBSET Niveis
      BY <1>1 DEF Alcance, SinalT
    <2>3. /\ todos \in SUBSET (Niveis \X Usuarios)
          /\ \A x \in todos : x[2] \in Lista(d, x[1]) /\ x[1] \in Alcance(s)
      BY <2>2, ListadosTipo
    <2>4. Admins(f) \in SUBSET Usuarios /\ v \in SUBSET Usuarios
      BY ConstantesOK, QuemTipo
    <2>5. t \in SinalT
      BY <1>1, <2>3, <2>4 DEF SinalT
    <2>6. /\ t.pc = r.pc /\ t.nivel = r.nivel /\ t.falta = r.falta /\ t.achados = r.achados
          /\ t.admins = r.admins
          /\ t.admin = {x \in r.admin \cap todos : x[2] \in Admins(f)}
          /\ t.ligado = {x \in r.ligado \cap todos : x[2] \in v}
          /\ t.apto = r.apto \cup Admins(f) \cup v
      BY <1>1 DEF SinalT
    <2>7. \A x \in t.admin \cup t.ligado : r.nivel \in {x[1], NULL}
      BY <2>3, <2>6 DEF Alcance
    <2> HIDE DEF t, todos
    <2>8. SinalOK(t, f, d, v)
      BY <1>1, <1>3, <2>3, <2>6, <2>7 DEF SinalOK
    <2>9. QED
      BY <2>1, <2>5, <2>8
  <1>4. QED
    BY <1>2, <1>3

LEMMA TabelasOK ==
    ASSUME Inv, NEW f, NEW d, NEW v, TabelasT(f, d, v), Tabelas(f, d, v)
    PROVE  TabelasT(papel, destinatarios, vinculos)' /\ SinaisOK'
  <1>1. papel' = f /\ destinatarios' = d /\ vinculos' = v
        /\ sinal' = [s \in Sinais |-> Testemunha(s, f, d, v)]
    BY DEF Tabelas
  <1>2. \A s \in Sinais : Testemunha(s, f, d, v) \in SinalT /\ SinalOK(Testemunha(s, f, d, v), f, d, v)
    BY TestemunhaOK
  <1>3. sinal' \in [Sinais -> SinalT]
    BY <1>1, <1>2
  <1>4. \A s \in Sinais : SinalOK(sinal'[s], papel', destinatarios', vinculos')
    BY <1>1, <1>2
  <1>5. QED
    BY <1>1, <1>3, <1>4 DEF SinaisOK

LEMMA VaiOK ==
    ASSUME Inv, NEW s \in Sinais, NEW r \in SinalT, SinalOK(r, papel, destinatarios, vinculos),
           Vai(s, r)
    PROVE  Inv'
  <1>1. sinal' = [sinal EXCEPT ![s] = r] /\ UNCHANGED <<papel, destinatarios, vinculos, pedido>>
    BY DEF Vai
  <1>2. TabelasT(papel, destinatarios, vinculos) /\ PedidosOK /\ SinaisOK
    BY Partes
  <1>3. sinal' \in [Sinais -> SinalT]
    BY <1>1, <1>2 DEF SinaisOK
  <1>4. \A q \in Sinais : SinalOK(sinal'[q], papel, destinatarios, vinculos)
    BY <1>1, <1>2 DEF SinaisOK
  <1>5. SinaisOK'
    BY <1>1, <1>3, <1>4 DEF SinaisOK
  <1>6. TabelasT(papel, destinatarios, vinculos)' /\ PedidosOK'
    BY <1>1, <1>2 DEF PedidosOK
  <1>7. QED
    BY <1>5, <1>6, Juntas
(* Initial states.                                                         *)

LEMMA Inicial == Init => Inv
  <1> SUFFICES ASSUME Init PROVE Inv
    OBVIOUS
  <1>1. TabelasT(papel, destinatarios, vinculos)
    BY DEF Init, TabelasT
  <1>2. PedidosOK
    BY OciosoOK DEF Init, PedidosOK
  <1>3. SinaisOK
    BY CalmoOK DEF Init, SinaisOK
  <1>4. QED
    BY <1>1, <1>2, <1>3, Partes
-----------------------------------------------------------------------------
(* Roles, links and requests.                                              *)

LEMMA VinculosOK ==
    ASSUME Inv
    PROVE  /\ \A u \in Usuarios : \A r \in Papeis[u] : MudarPapel(u, r) => Inv'
           /\ \A u \in Vinculaveis : AddSupervisor(u) \/ RemoveSupervisor(u) => Inv'
  <1>1. TabelasT(papel, destinatarios, vinculos) /\ PedidosOK
    BY Partes
  <1>2. ASSUME NEW f, NEW v, TabelasT(f, destinatarios, v), Tabelas(f, destinatarios, v),
               UNCHANGED pedido
        PROVE  Inv'
    <2>1. PedidosOK'
      BY <1>1, <1>2 DEF PedidosOK
    <2>2. QED
      BY <1>2, <2>1, TabelasOK, Juntas
  <1>3. ASSUME NEW u \in Usuarios, NEW r \in Papeis[u], MudarPapel(u, r) PROVE Inv'
    <2>1. r \in {"admin", "supervisor", "vigia"}
      BY ConstantesOK
    <2>2. TabelasT([papel EXCEPT ![u] = r], destinatarios, vinculos)
      BY <1>1, <2>1 DEF TabelasT
    <2>3. QED
      BY <1>2, <1>3, <2>2 DEF MudarPapel
  <1>4. ASSUME NEW u \in Vinculaveis, AddSupervisor(u) \/ RemoveSupervisor(u) PROVE Inv'
    <2>1. TabelasT(papel, destinatarios, vinculos \cup {u}) /\ TabelasT(papel, destinatarios, vinculos \ {u})
      BY <1>1 DEF TabelasT
    <2>2. QED
      BY <1>2, <1>4, <2>1 DEF AddSupervisor, RemoveSupervisor
  <1>5. QED
    BY <1>3, <1>4

\* Steps that only read.
LEMMA LeituraOK ==
    ASSUME Inv, NEW p \in Pedidos, NEW r \in PedidoT, PedidoOK(r), Passa(p, r), Intocadas
    PROVE  Inv'
  <1>1. TabelasT(papel, destinatarios, vinculos) /\ PedidosOK /\ SinaisOK
    BY Partes
  <1>2. PedidosOK'
    BY <1>1, PassaOK
  <1>3. SinaisOK' /\ TabelasT(papel, destinatarios, vinculos)'
    BY <1>1 DEF Intocadas, SinaisOK
  <1>4. QED
    BY <1>2, <1>3, Juntas

LEMMA PedidosLeem ==
    ASSUME Inv, NEW p \in Pedidos
    PROVE  /\ Chegar(p) => Inv'
           /\ \A op \in {"criar", "atualizar", "usuarios"} : Conferir(p, op) => Inv'
           /\ ConferirRemover(p) => Inv'
           /\ Conectar(p) => Inv'
           /\ Limpar(p) => Inv'
           /\ Obter(p) => Inv'
           /\ Listar(p) => Inv'
           /\ ListarLinha(p) => Inv'
           /\ Recusar(p) => Inv'
  <1> DEFINE r == pedido[p]
  <1>0. TabelasT(papel, destinatarios, vinculos) /\ r \in PedidoT /\ PedidoOK(r)
    BY Partes DEF PedidosOK
  <1>1. ASSUME Chegar(p) PROVE Inv'
    <2>1. [Ocioso EXCEPT !.pc = "chegou"] \in PedidoT /\ PedidoOK([Ocioso EXCEPT !.pc = "chegou"])
      BY DEF Ocioso, PedidoT, PedidoOK
    <2>2. QED
      BY <1>1, <2>1, LeituraOK DEF Chegar
  <1>2. ASSUME NEW op \in {"criar", "atualizar", "usuarios"}, Conferir(p, op) PROVE Inv'
    <2>1. PICK n \in Editaveis, l \in Listas :
             Passa(p, [Ocioso EXCEPT !.pc = "gravar", !.op = op, !.nivel = n, !.lista = l])
      BY <1>2 DEF Conferir
    <2> DEFINE q == [Ocioso EXCEPT !.pc = "gravar", !.op = op, !.nivel = n, !.lista = l]
    <2>2. n \in Niveis
      BY ConstantesOK
    <2>3. q \in PedidoT /\ PedidoOK(q)
      BY <2>2 DEF Ocioso, PedidoT, PedidoOK
    <2>4. Intocadas
      BY <1>2 DEF Conferir
    <2>5. QED
      BY <2>1, <2>3, <2>4, LeituraOK
  <1>3. ASSUME ConferirRemover(p) PROVE Inv'
    <2>1. PICK n \in Editaveis :
             Passa(p, [Ocioso EXCEPT !.pc = "gravar", !.op = "remover", !.nivel = n])
      BY <1>3 DEF ConferirRemover
    <2> DEFINE q == [Ocioso EXCEPT !.pc = "gravar", !.op = "remover", !.nivel = n]
    <2>2. q \in PedidoT /\ PedidoOK(q)
      BY ConstantesOK DEF Ocioso, PedidoT, PedidoOK
    <2>3. QED
      BY <1>3, <2>1, <2>2, LeituraOK DEF ConferirRemover
  <1>4. ASSUME Limpar(p) PROVE Inv'
    <2> DEFINE visto == Lista(destinatarios, r.nivel)
    <2>1. r.pc = "comecou" /\ r.op # "remover" /\ r.nivel \in Niveis /\ r.lista \in Listas
      BY <1>0, <1>4 DEF Limpar, PedidoOK
    <2>2. visto \in SUBSET Usuarios
      BY <1>0, <2>1, QuemTipo
    <2>3. PICK passo \in {"esperar", "inserir"} :
             Passa(p, [r EXCEPT !.visto = visto, !.pc = passo])
      BY <1>4 DEF Limpar
    <2> DEFINE q == [r EXCEPT !.visto = visto, !.pc = passo]
    <2>4. q \in PedidoT /\ PedidoOK(q)
      BY <1>0, <2>1, <2>2 DEF PedidoT, PedidoOK
    <2>5. QED
      BY <1>4, <2>3, <2>4, LeituraOK DEF Limpar
  <1>5. ASSUME Obter(p) PROVE Inv'
    <2> DEFINE q == [r EXCEPT !.pc = "inserir"]
    <2>1. q \in PedidoT /\ PedidoOK(q)
      BY <1>0, <1>5 DEF Obter, PedidoT, PedidoOK
    <2>2. QED
      BY <1>5, <2>1, LeituraOK DEF Obter
  <1>6. ASSUME Listar(p) PROVE Inv'
    <2> DEFINE q == [Ocioso EXCEPT !.pc = "cursor", !.op = "listar", !.falta = Existentes(destinatarios)]
    <2>1. Existentes(destinatarios) \in SUBSET Niveis
      BY DEF Existentes
    <2>2. q \in PedidoT /\ PedidoOK(q)
      BY <2>1 DEF Ocioso, PedidoT, PedidoOK
    <2>3. QED
      BY <1>6, <2>2, LeituraOK DEF Listar
  <1>7. ASSUME ListarLinha(p) PROVE Inv'
    <2>1. PICK n \in r.falta : Passa(p, IF r.falta = {n} THEN Ocioso ELSE [r EXCEPT !.falta = @ \ {n}])
      BY <1>7 DEF ListarLinha
    <2> DEFINE q == [r EXCEPT !.falta = @ \ {n}]
    <2>2. q \in PedidoT /\ PedidoOK(q)
      BY <1>0 DEF PedidoT, PedidoOK
    <2>3. QED
      BY <1>7, <2>1, <2>2, OciosoOK, LeituraOK DEF ListarLinha
  <1>8. ASSUME Recusar(p) PROVE Inv'
    BY <1>8, OciosoOK, LeituraOK DEF Recusar
  <1>9. ASSUME Conectar(p) PROVE Inv'
    <2> DEFINE q == [r EXCEPT !.pc = "comecou"]
    <2>1. q \in PedidoT /\ PedidoOK(q)
      BY <1>0, <1>9 DEF Conectar, PedidoT, PedidoOK
    <2>2. QED
      BY <1>9, <2>1, LeituraOK DEF Conectar
  <1>10. QED
    BY <1>1, <1>2, <1>3, <1>4, <1>5, <1>6, <1>7, <1>8, <1>9

LEMMA PedidosEscrevem ==
    ASSUME Inv, NEW p \in Pedidos
    PROVE  /\ Criar(p) => Inv'
           /\ Inserir(p) => Inv'
           /\ Remover(p) => Inv'
  <1> DEFINE r == pedido[p]
  <1>0. TabelasT(papel, destinatarios, vinculos) /\ PedidosOK /\ r \in PedidoT /\ PedidoOK(r)
    BY Partes DEF PedidosOK
  <1>1. ASSUME Criar(p) PROVE Inv'
    <2>1. r.nivel \in Niveis /\ r.lista \in Listas
      BY <1>0, <1>1 DEF Criar, PedidoOK
    <2> DEFINE d == [destinatarios EXCEPT ![r.nivel] = Range(r.lista)]
    <2>2. TabelasT(papel, d, vinculos)
      BY <1>0, <2>1, ListaNomeia DEF TabelasT
    <2>3. Tabelas(papel, d, vinculos) /\ Passa(p, Ocioso)
      BY <1>1 DEF Criar
    <2>4. QED
      BY <1>0, <2>2, <2>3, TabelasOK, PassaOK, OciosoOK, Juntas
  <1>2. ASSUME Inserir(p) PROVE Inv'
    <2> DEFINE ficam == Lista(destinatarios, r.nivel) \ r.visto
               d == [destinatarios EXCEPT ![r.nivel] = ficam \cup Range(r.lista)]
    <2>1. r.nivel \in Niveis /\ r.lista \in Listas
      BY <1>0, <1>2 DEF Inserir, PedidoOK
    <2>2. ficam \cup Range(r.lista) \in (SUBSET Usuarios) \ {{}}
      BY <1>0, <2>1, ListaNomeia, QuemTipo
    <2>3. TabelasT(papel, d, vinculos)
      BY <1>0, <2>2 DEF TabelasT
    <2>4. Tabelas(papel, d, vinculos)
      BY <1>2 DEF Inserir
    <2> DEFINE apos(q) == IF q = p THEN Ocioso
                          ELSE IF pedido[q].nivel = r.nivel THEN [pedido[q] EXCEPT !.visto = @ \ r.visto]
                          ELSE pedido[q]
    <2>5. pedido' = [q \in Pedidos |-> apos(q)]
      BY <1>2 DEF Inserir
    <2>6. ASSUME NEW q \in Pedidos PROVE apos(q) \in PedidoT /\ PedidoOK(apos(q))
      <3>1. pedido[q] \in PedidoT /\ PedidoOK(pedido[q])
        BY <1>0 DEF PedidosOK
      <3>2. [pedido[q] EXCEPT !.visto = @ \ r.visto] \in PedidoT
            /\ PedidoOK([pedido[q] EXCEPT !.visto = @ \ r.visto])
        BY <3>1 DEF PedidoT, PedidoOK
      <3>3. QED
        BY <3>1, <3>2, OciosoOK
    <2>7. PedidosOK'
      BY <2>5, <2>6 DEF PedidosOK
    <2>8. QED
      BY <2>3, <2>4, <2>7, TabelasOK, Juntas
  <1>3. ASSUME Remover(p) PROVE Inv'
    <2>1. TabelasT(papel, [destinatarios EXCEPT ![r.nivel] = NULL], vinculos)
      BY <1>0 DEF TabelasT
    <2>2. QED
      BY <1>0, <1>3, <2>1, TabelasOK, PassaOK, OciosoOK, Juntas DEF Remover
  <1>4. QED
    BY <1>1, <1>2, <1>3
-----------------------------------------------------------------------------
(* The resolution.                                                         *)

LEMMA SinaisPassam ==
    ASSUME Inv, NEW s \in Sinais
    PROVE  /\ Sinalizar(s) => Inv'
           /\ Resolver(s) => Inv'
           /\ Entregar(s) => Inv'
           /\ Desistir(s) => Inv'
  <1> DEFINE r == sinal[s]
             OK(q) == q \in SinalT /\ SinalOK(q, papel, destinatarios, vinculos)
  <1>0. TabelasT(papel, destinatarios, vinculos) /\ OK(r)
    BY Partes DEF SinaisOK
  <1>a. Admins(papel) \in SUBSET Usuarios /\ vinculos \in SUBSET Usuarios
        /\ Existentes(destinatarios) \in SUBSET Niveis
    BY <1>0, ConstantesOK, QuemTipo
  <1>b. OK(Calmo)
    BY CalmoOK
  <1>1. ASSUME Sinalizar(s) PROVE Inv'
    <2>1. PICK n \in Existentes(destinatarios) \cup {NULL} :
            LET todos == Listados(destinatarios, IF n = NULL THEN Niveis ELSE {n}) IN
            Vai(s, [Calmo EXCEPT !.pc = "config", !.nivel = n,
                      !.admin   = {x \in todos : x[2] \in Admins(papel)},
                      !.ligado  = {x \in todos : x[2] \in vinculos},
                      !.apto    = Admins(papel) \cup vinculos])
      BY <1>1 DEF Sinalizar
    <2> DEFINE ns == IF n = NULL THEN Niveis ELSE {n}
               todos == Listados(destinatarios, ns)
               q == [Calmo EXCEPT !.pc = "config", !.nivel = n,
                       !.admin   = {x \in todos : x[2] \in Admins(papel)},
                       !.ligado  = {x \in todos : x[2] \in vinculos},
                       !.apto    = Admins(papel) \cup vinculos]
    <2>2. n \in Niveis \cup {NULL} /\ ns \in SUBSET Niveis
      BY <1>a
    <2>3. /\ todos \in SUBSET (Niveis \X Usuarios)
          /\ \A x \in todos : x[2] \in Lista(destinatarios, x[1]) /\ x[1] \in ns
      BY <1>0, <2>2, ListadosTipo
    <2> HIDE DEF todos
    <2>4. q \in SinalT
      BY <1>a, <2>2, <2>3 DEF Calmo, SinalT
    <2>5. SinalOK(q, papel, destinatarios, vinculos)
      BY <2>3 DEF Calmo, SinalOK
    <2>6. Vai(s, q)
      BY <2>1 DEF todos
    <2>7. QED
      BY <2>4, <2>5, <2>6, VaiOK
  <1>2. ASSUME LerNivel(s) PROVE Inv'
    <2> DEFINE q == [r EXCEPT !.pc = "lista"]
    <2>1. OK(q)
      BY <1>0, <1>2 DEF LerNivel, SinalT, SinalOK
    <2>2. QED
      BY <1>2, <1>b, <2>1, VaiOK DEF LerNivel
  <1>3. ASSUME AbrirCursor(s) PROVE Inv'
    <2> DEFINE q == [r EXCEPT !.pc = "cursor", !.falta = Existentes(destinatarios)]
    <2>1. q \in SinalT
      BY <1>0, <1>a DEF SinalT
    <2>2. \A x \in r.admin \cup r.ligado : x[1] \in Existentes(destinatarios)
      BY <1>0, <1>3 DEF AbrirCursor, SinalT, SinalOK, Lista, Existentes
    <2>3. SinalOK(q, papel, destinatarios, vinculos)
      BY <1>0, <1>3, <2>2 DEF AbrirCursor, SinalT, SinalOK
    <2>4. QED
      BY <1>3, <2>1, <2>3, VaiOK DEF AbrirCursor
  <1>4. ASSUME LerLista(s) PROVE Inv'
    <2> DEFINE lido(falha, n) ==
                  IF falha THEN [r EXCEPT !.falta = @ \ {n}, !.admin = {}, !.ligado = {}]
                  ELSE [r EXCEPT !.falta = @ \ {n}, !.achados = @ \cup Lista(destinatarios, n)]
               fim(q) == IF q.falta = {} THEN AposLista(q) ELSE q
    <2>1. PICK falha \in BOOLEAN, n \in IF r.pc = "lista" THEN {r.nivel} ELSE r.falta :
            r.pc \in {"lista", "cursor"} /\ Vai(s, fim(lido(falha, n)))
      BY <1>4 DEF LerLista
    <2>2. n \in Niveis
      BY <1>0, <2>1 DEF SinalT, SinalOK
    <2>3. Lista(destinatarios, n) \in SUBSET Usuarios
      BY <1>0, <2>2, QuemTipo
    <2> DEFINE q == lido(falha, n)
               achados == IF falha THEN r.achados ELSE r.achados \cup Lista(destinatarios, n)
    <2>4. /\ q \in SinalT
          /\ q.pc = r.pc /\ q.nivel = r.nivel /\ q.falta = r.falta \ {n} /\ q.achados = achados
          /\ q.admin = IF falha THEN {} ELSE r.admin
          /\ q.ligado = IF falha THEN {} ELSE r.ligado
          /\ q.apto = r.apto
      BY <1>0, <2>2, <2>3 DEF SinalT
    <2> HIDE DEF q
    <2>5. ASSUME NEW x \in q.admin \cup q.ligado PROVE x[1] \in q.falta \/ x[2] \in q.achados
      <3>1. x \in r.admin \cup r.ligado /\ achados = r.achados \cup Lista(destinatarios, n)
        BY <2>4
      <3>2. x[2] \in Lista(destinatarios, x[1]) /\ r.nivel \in {x[1], NULL}
        BY <1>0, <2>1, <3>1 DEF SinalOK
      <3>3. CASE r.pc = "lista"
        <4>1. x[1] = n
          BY <1>0, <2>1, <3>2, <3>3, ConstantesOK DEF SinalOK
        <4>2. QED
          BY <2>4, <3>1, <3>2, <4>1
      <3>4. CASE r.pc = "cursor"
        <4>1. x[1] \in r.falta \/ x[2] \in r.achados
          BY <1>0, <3>1, <3>4 DEF SinalOK
        <4>2. QED
          BY <2>4, <3>1, <3>2, <4>1
      <3>5. QED
        BY <2>1, <3>3, <3>4
    <2>6. CASE q.falta # {}
      <3>1. r.pc = "cursor"
        BY <1>0, <2>1, <2>4, <2>6 DEF SinalOK
      <3>2. OK(q)
        BY <1>0, <2>4, <2>5, <3>1 DEF SinalOK
      <3>3. Vai(s, q)
        BY <2>1, <2>6 DEF q
      <3>4. QED
        BY <3>2, <3>3, VaiOK
    <2>7. CASE q.falta = {} /\ q.achados = {}
      <3> DEFINE f == [q EXCEPT !.pc = "pronto"]
      <3>1. f \in SinalT
        BY <2>4 DEF SinalT
      <3>2. SinalOK(f, papel, destinatarios, vinculos)
        BY <2>4, <2>5, <2>7 DEF SinalT, SinalOK
      <3>3. Vai(s, f)
        BY <2>1, <2>7 DEF q, AposLista
      <3>4. QED
        BY <3>1, <3>2, <3>3, VaiOK
    <2>8. CASE q.falta = {} /\ q.achados # {}
      <3> DEFINE f == [q EXCEPT !.pc = "admins"]
      <3>1. f \in SinalT
        BY <2>4 DEF SinalT
      <3>2. SinalOK(f, papel, destinatarios, vinculos)
        BY <1>0, <2>1, <2>4, <2>5, <2>8 DEF SinalT, SinalOK
      <3>3. Vai(s, f)
        BY <2>1, <2>8 DEF q, AposLista
      <3>4. QED
        BY <3>1, <3>2, <3>3, VaiOK
    <2>9. QED
      BY <2>6, <2>7, <2>8
  <1>5. ASSUME LerAdmins(s) PROVE Inv'
    <2> DEFINE q == [r EXCEPT !.pc = "supervisores", !.admins = r.achados \cap Admins(papel)]
    <2>1. q \in SinalT
      BY <1>0 DEF SinalT
    <2>2. SinalOK(q, papel, destinatarios, vinculos)
      BY <1>0, <1>5 DEF LerAdmins, SinalT, SinalOK
    <2>3. QED
      BY <1>5, <2>1, <2>2, VaiOK DEF LerAdmins
  <1>6. ASSUME LerSupervisores(s) PROVE Inv'
    <2> DEFINE q == [r EXCEPT !.pc = "pronto", !.admins = {}, !.achados = Filtra(r, vinculos)]
    <2>1. Filtra(r, vinculos) = r.achados \cap (r.admins \cup vinculos)
      BY DEF Filtra
    <2>2. q \in SinalT
      BY <1>0, <2>1 DEF SinalT
    <2>3. SinalOK(q, papel, destinatarios, vinculos)
      BY <1>0, <1>6, <2>1 DEF LerSupervisores, SinalT, SinalOK
    <2>4. QED
      BY <1>6, <2>2, <2>3, VaiOK DEF LerSupervisores
  <1>7. ASSUME Entregar(s) \/ Desistir(s) PROVE Inv'
    BY <1>7, <1>b, VaiOK DEF Entregar, Desistir
  <1>8. QED
    BY <1>1, <1>2, <1>3, <1>4, <1>5, <1>6, <1>7 DEF Resolver

LEMMA Passo == Inv /\ [Next]_vars => Inv'
  <1> SUFFICES ASSUME Inv, [Next]_vars PROVE Inv'
    OBVIOUS
  <1>1. CASE UNCHANGED vars
    BY <1>1 DEF vars, Inv, TypeOK, Coerente
  <1>2. CASE Next
    BY <1>2, VinculosOK, PedidosLeem, PedidosEscrevem, SinaisPassam DEF Next
  <1>3. QED
    BY <1>1, <1>2
-----------------------------------------------------------------------------
LEMMA SempreCoerente == Spec => []Inv
  BY Inicial, Passo, PTL DEF Spec

\* Types of the tables, of the requests and of the resolutions.  A level that exists
\* has a recipient, whatever transactions overlap on its list and whichever fail.
THEOREM TypeCorrect == Spec => []TypeOK
  <1>1. Inv => TypeOK
    BY DEF Inv
  <1>2. QED
    BY <1>1, SempreCoerente, PTL

\* Who stayed a recipient, and an admin or linked to the post, while the resolution
\* read its tables one after the other is told of the alert.
THEOREM EsquecidoCorrect == Spec => []NinguemEsquecido
  <1>1. Inv => NinguemEsquecido
    BY DEF Inv, Coerente, SinalOK, NinguemEsquecido
  <1>2. QED
    BY <1>1, SempreCoerente, PTL

\* Who is told was an admin or linked to the post at some time meanwhile.
THEOREM IndevidoCorrect == Spec => []NinguemIndevido
  <1>1. Inv => NinguemIndevido
    BY DEF Inv, Coerente, SinalOK, NinguemIndevido
  <1>2. QED
    BY <1>1, SempreCoerente, PTL
=============================================================================
