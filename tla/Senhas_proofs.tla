---------------------------- MODULE Senhas_proofs ----------------------------
(* Proofs about Senhas, for any guards, levels and passwords, any batches    *)
(* and changes, and any number of requests.                                  *)
EXTENDS Senhas, TLAPS
-----------------------------------------------------------------------------
(* The inductive invariant.                                                *)

\* What the kind of a password says of its level, whether the level exists or not.
Forma(tipo, n) ==
    /\ tipo = "ok" => n = NULL
    /\ tipo = "emergencia" => n = Padrao
    /\ tipo = "customizada" => n \in Niveis \ {Padrao}

\* Passwords of a request whose level has been checked.
Validadas(r) == {i \in DOMAIN r.novas : r.pc = "validar" => i <= r.feitas}

\* What holds of a request whatever the others write.
Base(r) ==
    /\ r.pc \in {"validar", "listar", "empresa", "inserir"} =>
          /\ r.dono \in Vigias /\ r.novas # <<>>
          /\ r.pc = "validar" => r.feitas < Len(r.novas)
          /\ \A i \in Validadas(r) : Forma(r.novas[i].tipo, r.novas[i].nivel)
          /\ ~r.curto => \A i \in DOMAIN r.novas : r.novas[i].codigo \notin Curtos
    /\ r.pc = "ler" => r.alvo \in Ids
    /\ r.pc \in {"outras", "nivel", "todas", "gravar"} =>
          /\ r.alvo \in Ids /\ r.lida \in Senha /\ Forma(r.lida.tipo, r.lida.nivel)
          /\ senhas[r.alvo] # NULL =>
                senhas[r.alvo].dono = r.lida.dono /\ senhas[r.alvo].tipo = r.lida.tipo
    /\ r.pc \in {"nivel", "todas"} => r.troca.nivel # NULL
    /\ r.pc = "todas" => r.lida.tipo = "customizada"
    /\ r.pc \in {"todas", "gravar"} => r.troca.nivel = NULL \/ Forma(r.lida.tipo, r.troca.nivel)
    /\ r.pc \in {"ler", "outras", "nivel", "todas", "gravar"} /\ ~r.curto =>
          r.troca.codigo \notin Curtos
    /\ r.pc = "apagar" =>
          r.alvo \in Ids /\ (senhas[r.alvo] # NULL => senhas[r.alvo].tipo = "customizada")
    /\ r.pc = "apagarNivel" => r.alvo \in Niveis \ {Padrao}
    /\ r.pc \in {"resolver", "perdido"} =>
          /\ r.alvo \in Ids /\ r.lida \in Senha
          /\ r.lida.tipo # "ok" /\ Forma(r.lida.tipo, r.lida.nivel)
    /\ r.pc = "perdido" => r.lida.nivel \notin niveis

\* What its checks found still holds while nobody else writes.
Fresco(r) ==
    /\ r.pc \in {"validar", "listar", "empresa", "inserir"} =>
          \A i \in Validadas(r) : validarNivel(r.novas[i].tipo, r.novas[i].nivel)
    /\ r.pc \in {"empresa", "inserir"} => ~TipoRepetido(r.dono, r.novas) /\ ~CodigoRepetido(r.dono, r.novas)
    /\ r.pc = "inserir" => ~NivelRepetido(r.novas)
    /\ r.pc \in {"outras", "nivel", "todas", "gravar"} =>
          senhas[r.alvo] = r.lida /\ r.lida.dono = r.dono
    /\ r.pc \in {"nivel", "todas", "gravar"} /\ r.troca.codigo # NULL =>
          ~codigoDuplicado(ListByUsuario(r.dono) \ {r.alvo}, r.troca.codigo)
    /\ r.pc \in {"todas", "gravar"} /\ r.troca.nivel # NULL =>
          validarNivel(r.lida.tipo, r.troca.nivel)
    /\ r.pc = "gravar" /\ r.troca.nivel # NULL /\ r.lida.tipo = "customizada" =>
          ~nivelDuplicado(Linhas(senhas) \ {r.alvo}, r.troca.nivel)
    /\ r.pc = "apagar" => senhas[r.alvo] # NULL
    /\ r.pc \notin {"apagarNivel", "resolver", "perdido"}
    /\ r.pc = "respondido" /\ r.status = 500 => r.curto

PedidoOK(r) == Base(r) /\ (r.so => Fresco(r))

\* The table is as its constraints want it, and in form.
TabelaOK(t) == Restricoes(t) /\ \A s \in Linhas(t) : Forma(t[s].tipo, t[s].nivel)

Inv ==
    /\ TypeOK
    /\ Padrao \in niveis
    /\ TabelaOK(senhas)
    /\ \A p \in Pedidos : PedidoOK(proc[p])
-----------------------------------------------------------------------------
(* Types.                                                                  *)

LEMMA NovaOK == ASSUME NEW n \in Novas
                PROVE  n.tipo \in Tipos /\ n.codigo \in Codigos /\ n.nivel \in Niveis \cup {NULL}
  BY ConstantesOK DEF Tipos

LEMMA TrocaOK == ASSUME NEW x \in Trocas \cup {SemTroca}
                 PROVE  x.codigo \in Codigos \cup {NULL} /\ x.nivel \in Niveis \cup {NULL}
  BY ConstantesOK DEF SemTroca

\* Requests, with the sets of their fields named.
Listas == {<<>>} \cup {<<n>> : n \in Novas} \cup Lotes
Alvos  == Ids \cup Niveis \cup {NULL}

LEMMA PedidoT ==
    Pedido = [pc : Passos, dono : Vigias \cup {NULL}, novas : Listas, feitas : Nat, alvo : Alvos,
              troca : Trocas \cup {SemTroca}, lida : Senha \cup {NULL},
              so : BOOLEAN, curto : BOOLEAN, status : Nat]
  BY DEF Pedido, Listas, Alvos

LEMMA NovasOK ==
    ASSUME NEW ns \in Listas
    PROVE  ns \in Seq(Novas) /\ Len(ns) \in Nat /\ DOMAIN ns = 1..Len(ns)
  <1>1. \A n \in Novas : <<n>> \in Seq(Novas)
    OBVIOUS
  <1>2. CASE ns \in Lotes
    BY <1>2, ConstantesOK
  <1>3. CASE ns = <<>>
    BY <1>3
  <1>4. CASE ns \in {<<n>> : n \in Novas}
    <2>1. PICK n \in Novas : ns = <<n>>
      BY <1>4
    <2>2. ns \in Seq(Novas)
      BY <1>1, <2>1
    <2>3. QED
      BY <2>2
  <1>5. QED
    BY <1>2, <1>3, <1>4 DEF Listas

LEMMA SenhaNaoNula == \A x \in Senha : x # NULL
  BY NuloOK

\* A level that validarNivel lets through suits the kind, and exists.
LEMMA ValidoForma ==
    ASSUME niveis \subseteq Niveis, NEW t \in Tipos, NEW n, validarNivel(t, n)
    PROVE  Forma(t, n) /\ n \in niveis \cup {NULL}
  BY DEF validarNivel, Forma, Tipos

LEMMA LivreOK == Livre \in Pedido /\ PedidoOK(Livre) /\ PedidoOK(Livre)'
  <1>1. Livre \in Pedido
    BY PedidoT DEF Livre, Passos, Listas, Alvos
  <1>2. QED
    BY <1>1 DEF Livre, PedidoOK, Base, Fresco

LEMMA FimOK ==
    ASSUME NEW p \in Pedidos, NEW st \in Nat, proc[p] \in Pedido
    PROVE  /\ Fim(p, st) \in Pedido /\ Fim(p, st).pc = "respondido" /\ Fim(p, st).status = st
           /\ Fim(p, st).so = (st = 500 => proc[p].so)
           /\ Fim(p, st).curto = (st = 500 /\ proc[p].curto)
  <1>1. (st = 500 => proc[p].so) \in BOOLEAN /\ (st = 500 /\ proc[p].curto) \in BOOLEAN
    OBVIOUS
  <1> DEFINE a == (st = 500 => proc[p].so)
             b == (st = 500 /\ proc[p].curto)
  <1> HIDE DEF a, b
  <1>3. a \in BOOLEAN /\ b \in BOOLEAN
    BY <1>1 DEF a, b
  <1>4. Fim(p, st) = [Livre EXCEPT !.pc = "respondido", !.status = st, !.so = a, !.curto = b]
    BY DEF Fim, a, b
  <1>5. /\ Fim(p, st) \in Pedido /\ Fim(p, st).pc = "respondido" /\ Fim(p, st).status = st
        /\ Fim(p, st).so = a /\ Fim(p, st).curto = b
    BY ZenonT(60), <1>3, <1>4, LivreOK, PedidoT DEF Passos
  <1>6. QED
    BY <1>5 DEF a, b

\* A request that has its answer expects nothing of the tables.
LEMMA RespondidoOK ==
    ASSUME NEW r, r.pc = "respondido", r.status = 500 /\ r.so => r.curto
    PROVE  PedidoOK(r)
  BY DEF PedidoOK, Base, Fresco

-----------------------------------------------------------------------------
(* Steps of two kinds: one changes a request, one writes in the tables.    *)

\* A request that keeps its fields is as good as before when nobody writes.
LEMMA FicaOK ==
    ASSUME NEW r, UNCHANGED <<senhas, niveis>>, PedidoOK(r)
    PROVE  PedidoOK(r)'
  <1>1. Base(r)'
    BY DEF PedidoOK, Base, Validadas
  <1>2. ListByUsuario(r.dono)' = ListByUsuario(r.dono) /\ Linhas(senhas)' = Linhas(senhas)
    BY DEF ListByUsuario, Linhas
  <1>3. \A t, n : validarNivel(t, n)' <=> validarNivel(t, n)
    BY DEF validarNivel
  <1>4. TipoRepetido(r.dono, r.novas)' <=> TipoRepetido(r.dono, r.novas)
    BY <1>2 DEF TipoRepetido
  <1>5. CodigoRepetido(r.dono, r.novas)' <=> CodigoRepetido(r.dono, r.novas)
    BY <1>2 DEF CodigoRepetido, codigoDuplicado
  <1>6. NivelRepetido(r.novas)' <=> NivelRepetido(r.novas)
    BY <1>2 DEF NivelRepetido, nivelDuplicado
  <1>7. codigoDuplicado(ListByUsuario(r.dono) \ {r.alvo}, r.troca.codigo)'
           <=> codigoDuplicado(ListByUsuario(r.dono) \ {r.alvo}, r.troca.codigo)
    BY <1>2 DEF codigoDuplicado
  <1>8. nivelDuplicado(Linhas(senhas) \ {r.alvo}, r.troca.nivel)'
           <=> nivelDuplicado(Linhas(senhas) \ {r.alvo}, r.troca.nivel)
    BY <1>2 DEF nivelDuplicado
  <1>9. Fresco(r) => Fresco(r)'
    BY <1>3, <1>4, <1>5, <1>6, <1>7, <1>8 DEF Fresco, Validadas
  <1>10. QED
    BY <1>1, <1>9 DEF PedidoOK

LEMMA SegueOK ==
    ASSUME Inv, NEW p \in Pedidos, NEW r \in Pedido, PedidoOK(r), Segue(p, r),
           UNCHANGED <<senhas, niveis>>
    PROVE  Inv'
  <1>1. proc \in [Pedidos -> Pedido] /\ proc' = [proc EXCEPT ![p] = r]
    BY DEF Inv, TypeOK, Segue
  <1>2. TypeOK'
    BY <1>1 DEF Inv, TypeOK
  <1>3. ASSUME NEW q \in Pedidos PROVE PedidoOK(proc[q])'
    <2>1. PedidoOK(proc'[q])
      BY <1>1 DEF Inv
    <2>2. PICK x : x = proc'[q]
      OBVIOUS
    <2>3. PedidoOK(x)'
      BY <2>1, <2>2, FicaOK
    <2>4. QED
      BY <2>2, <2>3
  <1>4. TabelaOK(senhas)'
    BY DEF Inv, TabelaOK, Restricoes, Linhas
  <1>5. QED
    BY <1>2, <1>3, <1>4 DEF Inv

LEMMA RespondeOK ==
    ASSUME Inv, NEW p \in Pedidos, NEW st \in Nat, Responde(p, st),
           st = 500 => ~proc[p].so \/ proc[p].curto
    PROVE  Inv'
  <1>1. proc[p] \in Pedido
    BY DEF Inv, TypeOK
  <1>2. Fim(p, st) \in Pedido /\ PedidoOK(Fim(p, st))
    <2> DEFINE r == Fim(p, st)
    <2>01. /\ r \in Pedido /\ r.pc = "respondido" /\ r.status = st
          /\ r.so = (st = 500 => proc[p].so) /\ r.curto = (st = 500 /\ proc[p].curto)
      BY <1>1, FimOK
    <2>02. st = 500 => ~proc[p].so \/ proc[p].curto
      OBVIOUS
    <2>1. r \in Pedido /\ r.pc = "respondido" /\ (r.status = 500 /\ r.so => r.curto)
      BY ZenonT(60), <2>01, <2>02
    <2> HIDE DEF r
    <2>2. PedidoOK(r)
      BY <2>1, RespondidoOK
    <2>3. QED
      BY <2>1, <2>2 DEF r
  <1>3. QED
    BY <1>2, SegueOK DEF Responde

\* p wrote.  The rows the others are about are gone, or of the same guard and kind.
LEMMA EscreveuOK ==
    ASSUME Inv, NEW p \in Pedidos, NEW st \in {200, 201}, Escreveu(p, st),
           senhas' \in [Ids -> Senha \cup {NULL}],
           niveis' \subseteq Niveis, Padrao \in niveis', TabelaOK(senhas)',
           \A q \in Pedidos \ {p} :
              proc[q].alvo \in Ids /\ senhas'[proc[q].alvo] # NULL =>
                 /\ senhas[proc[q].alvo] # NULL
                 /\ senhas'[proc[q].alvo].dono = senhas[proc[q].alvo].dono
                 /\ senhas'[proc[q].alvo].tipo = senhas[proc[q].alvo].tipo,
           \A q \in Pedidos : proc[q].pc = "perdido" => proc[q].lida.nivel \notin niveis'
    PROVE  Inv'
  <1> DEFINE so(q) == proc[q].so /\ proc[q].pc \in {"livre", "respondido"}
  <1>1. /\ proc \in [Pedidos -> Pedido]
        /\ proc' = [q \in Pedidos |-> IF q = p THEN Fim(p, st) ELSE [proc[q] EXCEPT !.so = so(q)]]
    BY DEF Inv, TypeOK, Escreveu
  <1>2. proc'[p] = Fim(p, st) /\ Fim(p, st) \in Pedido /\ PedidoOK(proc[p])'
    <2>1. /\ proc'[p] = Fim(p, st) /\ Fim(p, st) \in Pedido
          /\ Fim(p, st).pc = "respondido" /\ Fim(p, st).status # 500
      BY <1>1, FimOK
    <2>2. QED
      BY <2>1 DEF PedidoOK, Base, Fresco
  <1>3. ASSUME NEW q \in Pedidos, q # p
        PROVE  proc'[q] \in Pedido /\ PedidoOK(proc[q])'
    <2> DEFINE r == proc[q]
               b == so(q)
    <2>1. r \in Pedido /\ Base(r) /\ (r.so => Fresco(r)) /\ proc'[q] = [r EXCEPT !.so = b]
      BY <1>1, <1>3 DEF Inv, PedidoOK
    <2>2. b \in BOOLEAN /\ (b => r.so /\ r.pc \in {"livre", "respondido"})
      OBVIOUS
    <2> HIDE DEF b
    <2>3. /\ proc'[q] \in Pedido /\ proc'[q].so = b
          /\ proc'[q].pc = r.pc /\ proc'[q].dono = r.dono /\ proc'[q].novas = r.novas
          /\ proc'[q].feitas = r.feitas /\ proc'[q].alvo = r.alvo /\ proc'[q].troca = r.troca
          /\ proc'[q].lida = r.lida /\ proc'[q].curto = r.curto /\ proc'[q].status = r.status
      BY <2>1, <2>2, PedidoT
    <2>4. proc'[q].so => Fresco(proc[q])'
      BY <2>1, <2>2, <2>3 DEF Fresco
    <2>5. Base(proc[q])'
      BY <1>3, <2>1, <2>3 DEF Base, Validadas
    <2>6. QED
      BY <2>3, <2>4, <2>5 DEF PedidoOK
  <1>4. TypeOK'
    <2>1. \A q \in Pedidos : proc'[q] \in Pedido
      BY <1>2, <1>3
    <2>2. proc' \in [Pedidos -> Pedido]
      BY <1>1, <2>1
    <2>3. QED
      BY <2>2 DEF TypeOK
  <1>5. \A q \in Pedidos : PedidoOK(proc[q])'
    BY <1>2, <1>3
  <1>6. QED
    BY <1>4, <1>5 DEF Inv
-----------------------------------------------------------------------------
LEMMA Inicial == Init => Inv
  <1> SUFFICES ASSUME Init PROVE Inv
    OBVIOUS
  <1>1. TypeOK /\ Padrao \in niveis
    BY LivreOK, ConstantesOK DEF Init, TypeOK
  <1>2. TabelaOK(senhas)
    <2>1. Linhas(senhas) = {}
      BY DEF Init, Linhas
    <2>2. QED
      BY <2>1 DEF TabelaOK, Restricoes
  <1>3. \A p \in Pedidos : PedidoOK(proc[p])
    BY LivreOK DEF Init
  <1>4. QED
    BY <1>1, <1>2, <1>3 DEF Inv

\* What the invariant says of the request that takes the step.
LEMMA DoPedido ==
    ASSUME Inv, NEW p \in Pedidos
    PROVE  /\ proc[p] \in Pedido /\ Base(proc[p]) /\ (proc[p].so => Fresco(proc[p]))
           /\ senhas \in [Ids -> Senha \cup {NULL}] /\ niveis \subseteq Niveis
           /\ proc[p].novas \in Seq(Novas) /\ DOMAIN proc[p].novas = 1..Len(proc[p].novas)
           /\ Len(proc[p].novas) \in Nat
  <1>1. proc[p] \in Pedido
    BY DEF Inv, TypeOK
  <1>2. proc[p].novas \in Listas
    BY <1>1, PedidoT
  <1>3. QED
    BY <1>1, <1>2, NovasOK DEF Inv, TypeOK, PedidoOK

\* The creation of passwords, up to the insert.
LEMMA CriarPassa ==
    ASSUME Inv, NEW p \in Pedidos
    PROVE  /\ PedirCriar(p) => Inv'
           /\ PedirLote(p) => Inv'
           /\ CriarValidar(p) => Inv'
           /\ CriarListar(p) => Inv'
           /\ CriarEmpresa(p) => Inv'
  <1> DEFINE r == proc[p]
  <1>0. /\ r \in Pedido /\ Base(r) /\ (r.so => Fresco(r)) /\ niveis \subseteq Niveis
        /\ r.novas \in Seq(Novas) /\ DOMAIN r.novas = 1..Len(r.novas) /\ Len(r.novas) \in Nat
    BY DoPedido
  <1>1. ASSUME NEW v \in Vigias, NEW ns \in Listas \ {<<>>}, PedeNovas(p, v, ns) PROVE Inv'
    <2> DEFINE b == \E i \in DOMAIN ns : ns[i].codigo \in Curtos
    <2>1. b \in BOOLEAN /\ (~b => \A i \in DOMAIN ns : ns[i].codigo \notin Curtos)
      OBVIOUS
    <2>2. PICK c \in BOOLEAN : c = b
      BY <2>1
    <2> DEFINE n == [Livre EXCEPT !.pc = "validar", !.dono = v, !.novas = ns, !.curto = c]
    <2>3. Segue(p, n) /\ UNCHANGED <<senhas, niveis>>
      BY <1>1, <2>2 DEF PedeNovas, Chega
    <2>4. n \in Pedido
      BY LivreOK, PedidoT DEF Passos
    <2>5. /\ n.pc = "validar" /\ n.dono = v /\ n.novas = ns /\ n.curto = c /\ n.feitas = 0
      BY DEF Livre
    <2>6. ns \in Seq(Novas) /\ ns # <<>> /\ Len(ns) \in Nat /\ DOMAIN ns = 1..Len(ns)
      BY NovasOK
    <2>7. Len(ns) > 0 /\ Validadas(n) = {}
      BY <2>5, <2>6 DEF Validadas
    <2> HIDE DEF n
    <2>8. PedidoOK(n)
      BY <2>1, <2>2, <2>5, <2>6, <2>7 DEF PedidoOK, Base, Fresco
    <2>9. QED
      BY <2>3, <2>4, <2>8, SegueOK
  <1>2. ASSUME PedirCriar(p) PROVE Inv'
    <2>1. PICK v \in Vigias, n \in Novas : PedeNovas(p, v, <<n>>)
      BY <1>2 DEF PedirCriar
    <2>2. <<n>> \in Listas \ {<<>>}
      BY DEF Listas
    <2>3. QED
      BY <1>1, <2>1, <2>2
  <1>3. ASSUME PedirLote(p) PROVE Inv'
    <2>1. PICK v \in Vigias, b \in Lotes : PedeNovas(p, v, b)
      BY <1>3 DEF PedirLote
    <2>2. b \in Listas \ {<<>>}
      BY ConstantesOK DEF Listas
    <2>3. QED
      BY <1>1, <2>1, <2>2
  <1>4. ASSUME CriarValidar(p) PROVE Inv'
    <2> DEFINE i == r.feitas + 1
               nova == r.novas[i]
               passo == IF i = Len(r.novas) THEN "listar" ELSE "validar"
               n == [r EXCEPT !.feitas = i, !.pc = passo]
    <2>1. r.pc = "validar" /\ r.feitas \in Nat /\ r.feitas < Len(r.novas)
      BY <1>0, <1>4, PedidoT DEF CriarValidar, Esta, Base
    <2>2. i \in DOMAIN r.novas /\ nova \in Novas
      BY <1>0, <2>1
    <2>3. CASE ~validarNivel(nova.tipo, nova.nivel)
      BY <1>4, <2>3, RespondeOK DEF CriarValidar, StatusDe
    <2>4. CASE validarNivel(nova.tipo, nova.nivel)
      <3>1. Segue(p, n) /\ UNCHANGED <<senhas, niveis>>
        BY <1>4, <2>4 DEF CriarValidar
      <3>2. n \in Pedido
        <4>1. i \in Nat /\ passo \in Passos
          BY <2>1 DEF Passos
        <4> HIDE DEF i, passo
        <4>2. QED
          BY <1>0, <4>1, PedidoT
      <3>3. /\ n.pc = passo /\ n.feitas = i /\ n.novas = r.novas /\ n.dono = r.dono
            /\ n.so = r.so /\ n.curto = r.curto
        BY <1>0, PedidoT
      <3>4. Forma(nova.tipo, nova.nivel)
        BY <1>0, <2>2, <2>4, NovaOK, ValidoForma
      <3> HIDE DEF n
      <3>5. \A j \in Validadas(n) : j \in Validadas(r) \/ j = i
        BY SMTT(60), <1>0, <2>1, <3>3 DEF Validadas
      <3>6. n.pc = "validar" => n.feitas < Len(n.novas)
        BY <1>0, <2>1, <3>3
      <3>7. Base(n)
        BY <1>0, <2>1, <3>3, <3>4, <3>5, <3>6 DEF Base
      <3>8. n.so => Fresco(n)
        BY <1>0, <2>1, <2>4, <3>3, <3>5 DEF Fresco
      <3>9. QED
        BY <3>1, <3>2, <3>7, <3>8, SegueOK DEF PedidoOK
    <2>5. QED
      BY <2>3, <2>4
  \* The request goes on with what it has just found.
  <1>5. ASSUME NEW passo \in {"empresa", "inserir"}, Vai(p, passo), UNCHANGED <<senhas, niveis>>,
               r.pc \in {"listar", "empresa"},
               r.so => Fresco([r EXCEPT !.pc = passo])
        PROVE  Inv'
    <2> DEFINE n == [r EXCEPT !.pc = passo]
    <2>1. n \in Pedido
      BY <1>0, PedidoT DEF Passos
    <2>2. /\ n.pc = passo /\ n.novas = r.novas /\ n.dono = r.dono
          /\ n.so = r.so /\ n.curto = r.curto
      BY <1>0, PedidoT
    <2>3. Segue(p, n) /\ (n.so => Fresco(n))
      BY <1>5, <2>2 DEF Vai
    <2> HIDE DEF n
    <2>4. Validadas(n) = Validadas(r)
      BY <1>5, <2>2 DEF Validadas
    <2>5. Base(n)
      BY <1>0, <1>5, <2>2, <2>4 DEF Base
    <2>6. QED
      BY <1>5, <2>1, <2>3, <2>5, SegueOK DEF PedidoOK
  <1>6. ASSUME CriarListar(p) PROVE Inv'
    <2> DEFINE n == [r EXCEPT !.pc = "empresa"]
    <2>1. r.pc = "listar"
      BY <1>6 DEF CriarListar, Esta
    <2>2. CASE Responde(p, 400)
      BY <2>2, RespondeOK
    <2>3. CASE /\ ~TipoRepetido(r.dono, r.novas) /\ ~CodigoRepetido(r.dono, r.novas)
               /\ Vai(p, "empresa") /\ UNCHANGED <<senhas, niveis>>
      <3>1. /\ n.pc = "empresa" /\ n.novas = r.novas /\ n.dono = r.dono
        BY <1>0, PedidoT
      <3> HIDE DEF n
      <3>2. Validadas(n) = Validadas(r)
        BY <2>1, <3>1 DEF Validadas
      <3>3. r.so => Fresco(n)
        BY <1>0, <2>1, <2>3, <3>1, <3>2 DEF Fresco
      <3>4. QED
        BY <1>5, <2>1, <2>3, <3>3 DEF n
    <2>4. QED
      BY <1>6, <2>2, <2>3 DEF CriarListar, StatusDe
  <1>7. ASSUME CriarEmpresa(p) PROVE Inv'
    <2> DEFINE n == [r EXCEPT !.pc = "inserir"]
    <2>1. r.pc = "empresa"
      BY <1>7 DEF CriarEmpresa, Esta
    <2>2. CASE Responde(p, 409)
      BY <2>2, RespondeOK
    <2>3. CASE ~NivelRepetido(r.novas) /\ Vai(p, "inserir") /\ UNCHANGED <<senhas, niveis>>
      <3>1. /\ n.pc = "inserir" /\ n.novas = r.novas /\ n.dono = r.dono
        BY <1>0, PedidoT
      <3> HIDE DEF n
      <3>2. Validadas(n) = Validadas(r)
        BY <2>1, <3>1 DEF Validadas
      <3>3. r.so => Fresco(n)
        BY <1>0, <2>1, <2>3, <3>1, <3>2 DEF Fresco
      <3>4. QED
        BY <1>5, <2>1, <2>3, <3>3 DEF n
    <2>4. QED
      BY <1>7, <2>2, <2>3 DEF CriarEmpresa, StatusDe
  <1>8. QED
    BY <1>2, <1>3, <1>4, <1>6, <1>7
-----------------------------------------------------------------------------
(* The statements that write.                                              *)

\* If a request that is alone satisfies the constraints, the write is sound whether
\* they hold or not.
LEMMA GravaOK ==
    ASSUME Inv, NEW p \in Pedidos, NEW st \in {200, 201},
           NEW t \in [Ids -> Senha \cup {NULL}], Grava(p, t, st),
           \A s \in Linhas(t) : Forma(t[s].tipo, t[s].nivel),
           \A q \in Pedidos \ {p} :
              proc[q].alvo \in Ids /\ t[proc[q].alvo] # NULL =>
                 /\ senhas[proc[q].alvo] # NULL
                 /\ t[proc[q].alvo].dono = senhas[proc[q].alvo].dono
                 /\ t[proc[q].alvo].tipo = senhas[proc[q].alvo].tipo,
           proc[p].so /\ ~proc[p].curto => Restricoes(t)
    PROVE  Inv'
  <1>1. CASE Restricoes(t)
    <2>1. senhas' = t /\ niveis' = niveis /\ Escreveu(p, st)
      BY <1>1 DEF Grava
    <2>2. TabelaOK(senhas)'
      BY <1>1, <2>1 DEF TabelaOK, Restricoes, Linhas
    <2>3. \A q \in Pedidos : proc[q].pc = "perdido" => proc[q].lida.nivel \notin niveis'
      BY <2>1 DEF Inv, PedidoOK, Base
    <2>4. QED
      BY <2>1, <2>2, <2>3, EscreveuOK DEF Inv, TypeOK
  <1>2. CASE ~Restricoes(t)
    BY <1>2, RespondeOK DEF Grava
  <1>3. QED
    BY <1>1, <1>2

LEMMA InserirPassa ==
    ASSUME Inv, NEW p \in Pedidos, CriarInserir(p)
    PROVE  Inv'
  <1> DEFINE r  == proc[p]
             v  == r.dono
             ns == r.novas
  <1>0. /\ r \in Pedido /\ Base(r) /\ (r.so => Fresco(r)) /\ r.pc = "inserir"
        /\ senhas \in [Ids -> Senha \cup {NULL}] /\ niveis \subseteq Niveis
        /\ ns \in Seq(Novas) /\ DOMAIN ns = 1..Len(ns)
    BY DoPedido DEF CriarInserir, Esta
  <1>1. /\ v \in Vigias
        /\ \A i \in DOMAIN ns : ns[i] \in Novas /\ Forma(ns[i].tipo, ns[i].nivel)
        /\ ~r.curto => \A i \in DOMAIN ns : ns[i].codigo \notin Curtos
    BY <1>0 DEF Base, Validadas
  <1>2. PICK ids \in [DOMAIN ns -> IdsLivres] :
           /\ \A i, j \in DOMAIN ns : ids[i] = ids[j] => i = j
           /\ Grava(p, [s \in Ids |-> IF \E i \in DOMAIN ns : ids[i] = s
                                      THEN Linha(v, ns[CHOOSE i \in DOMAIN ns : ids[i] = s])
                                      ELSE senhas[s]], 201)
    BY DEF CriarInserir
  <1> DEFINE t == [s \in Ids |-> IF \E i \in DOMAIN ns : ids[i] = s
                                 THEN Linha(v, ns[CHOOSE i \in DOMAIN ns : ids[i] = s])
                                 ELSE senhas[s]]
             Novo(s, i) == /\ i \in DOMAIN ns /\ ids[i] = s /\ senhas[s] = NULL
                           /\ t[s] = Linha(v, ns[i])
             Velho(s) == (\A i \in DOMAIN ns : ids[i] # s) /\ t[s] = senhas[s]
  <1>3. ASSUME NEW s \in Ids PROVE (\E i \in DOMAIN ns : Novo(s, i)) \/ Velho(s)
    <2>1. CASE \E i \in DOMAIN ns : ids[i] = s
      <3> DEFINE e == CHOOSE i \in DOMAIN ns : ids[i] = s
      <3>1. e \in DOMAIN ns /\ ids[e] = s
        BY <2>1
      <3>2. senhas[s] = NULL
        BY <3>1 DEF IdsLivres, Linhas
      <3>3. t[s] = Linha(v, ns[e])
        BY <2>1
      <3>4. Novo(s, e)
        BY <3>1, <3>2, <3>3
      <3>5. QED
        BY <3>1, <3>4
    <2>2. CASE ~\E i \in DOMAIN ns : ids[i] = s
      BY <2>2
    <2>3. QED
      BY <2>1, <2>2
  <1>4. ASSUME NEW i \in DOMAIN ns
        PROVE  Linha(v, ns[i]) \in Senha
    <2>1. ns[i].tipo \in Tipos /\ ns[i].codigo \in Codigos /\ ns[i].nivel \in Niveis \cup {NULL}
      BY <1>1, NovaOK
    <2>2. QED
      BY <1>1, <2>1 DEF Linha, Senha
  <1>5. t \in [Ids -> Senha \cup {NULL}]
    <2>1. \A s \in Ids : t[s] \in Senha \cup {NULL}
      BY <1>0, <1>3, <1>4
    <2>2. t = [s \in Ids |-> t[s]]
      OBVIOUS
    <2> HIDE DEF t
    <2>3. QED
      BY <2>1, <2>2
  <1>6. \A q \in Pedidos : proc[q].alvo \in Ids => t[proc[q].alvo] = senhas[proc[q].alvo]
    BY DEF IdsLivres
  <1>7. Grava(p, t, 201)
    BY <1>2
  <1> HIDE DEF t
  <1>8. \A s \in Linhas(t) : Forma(t[s].tipo, t[s].nivel)
    <2> SUFFICES ASSUME NEW s \in Linhas(t) PROVE Forma(t[s].tipo, t[s].nivel)
      OBVIOUS
    <2>1. s \in Ids /\ t[s] # NULL
      BY DEF Linhas
    <2>2. CASE Velho(s)
      BY <2>1, <2>2 DEF Inv, TabelaOK, Linhas
    <2>3. ASSUME NEW i \in DOMAIN ns, Novo(s, i) PROVE Forma(t[s].tipo, t[s].nivel)
      BY <1>1, <2>3 DEF Linha
    <2>4. QED
      BY <1>3, <2>1, <2>2, <2>3
  <1>9. ASSUME r.so, ~r.curto PROVE Restricoes(t)
    <2>0. /\ \A i \in DOMAIN ns : validarNivel(ns[i].tipo, ns[i].nivel)
          /\ ~TipoRepetido(v, ns) /\ ~CodigoRepetido(v, ns) /\ ~NivelRepetido(ns)
      BY <1>0, <1>9 DEF Fresco, Validadas
    <2>1. ASSUME NEW s \in Linhas(t)
          PROVE  /\ t[s].codigo \notin Curtos
                 /\ t[s].tipo # "ok" => t[s].nivel # NULL
                 /\ t[s].nivel \in niveis \cup {NULL}
      <3>1. s \in Ids /\ t[s] # NULL
        BY DEF Linhas
      <3>2. CASE Velho(s)
        BY <3>1, <3>2 DEF Inv, TabelaOK, Restricoes, Linhas
      <3>3. ASSUME NEW i \in DOMAIN ns, Novo(s, i)
            PROVE  /\ t[s].codigo \notin Curtos
                   /\ t[s].tipo # "ok" => t[s].nivel # NULL
                   /\ t[s].nivel \in niveis \cup {NULL}
        <4>1. /\ t[s].codigo = ns[i].codigo /\ t[s].tipo = ns[i].tipo /\ t[s].nivel = ns[i].nivel
              /\ ns[i].codigo \notin Curtos /\ validarNivel(ns[i].tipo, ns[i].nivel)
          BY <1>1, <1>9, <2>0, <3>3 DEF Linha
        <4>2. NULL \notin niveis
          BY <1>0, ConstantesOK
        <4>3. QED
          BY <4>1, <4>2 DEF validarNivel
      <3>4. QED
        BY <1>3, <3>1, <3>2, <3>3
    \* A new row next to another one.
    <2>2. ASSUME NEW s \in Ids, NEW i \in DOMAIN ns, Novo(s, i),
                 NEW o \in Ids, o # s, t[o] # NULL
          PROVE  /\ t[s].dono = t[o].dono => t[s].codigo # t[o].codigo
                 /\ t[s].dono = t[o].dono /\ t[s].tipo = t[o].tipo => t[s].tipo = "customizada"
                 /\ t[s].tipo = "customizada" /\ t[o].tipo = "customizada"
                       => t[s].nivel # t[o].nivel
      <3>1. /\ t[s].dono = v /\ t[s].codigo = ns[i].codigo /\ t[s].tipo = ns[i].tipo
            /\ t[s].nivel = ns[i].nivel
        BY SMTT(60), <2>2 DEF Linha
      <3>2. ASSUME NEW j \in DOMAIN ns, Novo(o, j)
            PROVE  /\ t[s].codigo # t[o].codigo
                   /\ t[s].tipo = t[o].tipo => t[s].tipo = "customizada"
                   /\ t[s].tipo = "customizada" /\ t[o].tipo = "customizada"
                         => t[s].nivel # t[o].nivel
        <4>1. j # i
          BY <2>2, <3>2
        <4>2. /\ t[o].codigo = ns[j].codigo /\ t[o].tipo = ns[j].tipo /\ t[o].nivel = ns[j].nivel
          BY SMTT(60), <3>2 DEF Linha
        <4>3. QED
          BY <2>0, <3>1, <4>1, <4>2 DEF TipoRepetido, CodigoRepetido, NivelRepetido
      <3>3. CASE Velho(o)
        <4>1. senhas[o] = t[o] /\ o \in Linhas(senhas)
          BY <2>2, <3>3 DEF Linhas
        <4>2. t[o].dono = v => o \in ListByUsuario(v)
          BY <4>1 DEF ListByUsuario
        <4>3. ns[i].tipo = "customizada" => ns[i].nivel # NULL
          <5>1. NULL \notin niveis /\ validarNivel(ns[i].tipo, ns[i].nivel)
            BY <1>0, <2>0, ConstantesOK
          <5>2. QED
            BY <5>1 DEF validarNivel
        <4>4. QED
          BY <2>0, <3>1, <4>1, <4>2, <4>3 DEF TipoRepetido, CodigoRepetido, NivelRepetido,
                                              codigoDuplicado, nivelDuplicado
      <3>4. QED
        BY <1>3, <3>2, <3>3
    <2>3. ASSUME NEW s \in Linhas(t), NEW o \in Linhas(t), s # o
          PROVE  /\ t[s].dono = t[o].dono => t[s].codigo # t[o].codigo
                 /\ t[s].dono = t[o].dono /\ t[s].tipo = t[o].tipo => t[s].tipo = "customizada"
                 /\ t[s].tipo = "customizada" /\ t[o].tipo = "customizada"
                       => t[s].nivel # t[o].nivel
      <3>1. s \in Ids /\ o \in Ids /\ t[s] # NULL /\ t[o] # NULL
        BY DEF Linhas
      <3>2. CASE Velho(s) /\ Velho(o)
        <4>1. senhas[s] = t[s] /\ senhas[o] = t[o] /\ s \in Linhas(senhas) /\ o \in Linhas(senhas)
          BY <3>1, <3>2 DEF Linhas
        <4>2. Restricoes(senhas)
          BY DEF Inv, TabelaOK
        <4>3. QED
          BY <2>3, <4>1, <4>2 DEF Restricoes
      <3>3. ASSUME NEW i \in DOMAIN ns, Novo(s, i)
            PROVE  /\ t[s].dono = t[o].dono => t[s].codigo # t[o].codigo
                   /\ t[s].dono = t[o].dono /\ t[s].tipo = t[o].tipo => t[s].tipo = "customizada"
                   /\ t[s].tipo = "customizada" /\ t[o].tipo = "customizada"
                         => t[s].nivel # t[o].nivel
        BY <2>2, <2>3, <3>1, <3>3
      <3>4. ASSUME NEW i \in DOMAIN ns, Novo(o, i)
            PROVE  /\ t[o].dono = t[s].dono => t[o].codigo # t[s].codigo
                   /\ t[o].dono = t[s].dono /\ t[o].tipo = t[s].tipo => t[o].tipo = "customizada"
                   /\ t[o].tipo = "customizada" /\ t[s].tipo = "customizada"
                         => t[o].nivel # t[s].nivel
        BY <2>2, <2>3, <3>1, <3>4
      <3>5. QED
        BY <1>3, <3>1, <3>2, <3>3, <3>4
    <2>4. QED
      BY <2>1, <2>3 DEF Restricoes
  <1>10. QED
    BY <1>5, <1>6, <1>7, <1>8, <1>9, GravaOK
-----------------------------------------------------------------------------
\* The update of a password, up to its UPDATE.
LEMMA AtualizarPassa ==
    ASSUME Inv, NEW p \in Pedidos
    PROVE  /\ PedirAtualizar(p) => Inv'
           /\ AtualizarLer(p) => Inv'
           /\ AtualizarListar(p) => Inv'
           /\ AtualizarNivel(p) => Inv'
           /\ AtualizarEmpresa(p) => Inv'
  <1> DEFINE r == proc[p]
             x == r.troca
  <1>0. /\ r \in Pedido /\ Base(r) /\ (r.so => Fresco(r)) /\ niveis \subseteq Niveis
        /\ senhas \in [Ids -> Senha \cup {NULL}]
    BY DoPedido
  <1>1. ASSUME PedirAtualizar(p) PROVE Inv'
    <2>1. PICK v \in Vigias, s \in Ids, y \in Trocas :
             Chega(p, [Livre EXCEPT !.pc = "ler", !.dono = v, !.alvo = s, !.troca = y,
                                    !.curto = y.codigo \in Curtos])
      BY <1>1 DEF PedirAtualizar
    <2> DEFINE b == y.codigo \in Curtos
    <2>01. b \in BOOLEAN
      OBVIOUS
    <2>2. PICK c \in BOOLEAN : c = b
      BY <2>01
    <2> DEFINE n == [Livre EXCEPT !.pc = "ler", !.dono = v, !.alvo = s, !.troca = y, !.curto = c]
    <2>3. Segue(p, n) /\ UNCHANGED <<senhas, niveis>>
      BY <2>1, <2>2 DEF Chega
    <2>4. n \in Pedido
      BY ZenonT(60), LivreOK, PedidoT DEF Passos, Alvos
    <2>5. n.pc = "ler" /\ n.alvo = s /\ n.troca = y /\ n.curto = c
      BY DEF Livre
    <2> HIDE DEF n
    <2>6. PedidoOK(n)
      BY <2>2, <2>5 DEF PedidoOK, Base, Fresco
    <2>7. QED
      BY <2>3, <2>4, <2>6, SegueOK
  <1>2. ASSUME AtualizarLer(p) PROVE Inv'
    <2> DEFINE s == r.alvo
               n == [r EXCEPT !.pc = "outras", !.lida = senhas[s]]
    <2>1. r.pc = "ler" /\ s \in Ids
      BY <1>0, <1>2 DEF AtualizarLer, Esta, Base
    <2>2. CASE Responde(p, 404)
      BY <2>2, RespondeOK
    <2>3. CASE s \in ListByUsuario(r.dono) /\ Segue(p, n) /\ UNCHANGED <<senhas, niveis>>
      <3>1. senhas[s] # NULL /\ senhas[s].dono = r.dono /\ s \in Linhas(senhas)
        BY <2>3 DEF ListByUsuario, Linhas
      <3>2. senhas[s] \in Senha /\ Forma(senhas[s].tipo, senhas[s].nivel)
        BY <1>0, <2>1, <3>1 DEF Inv, TabelaOK
      <3>3. n \in Pedido
        BY <1>0, <3>2, PedidoT DEF Passos
      <3>4. /\ n.pc = "outras" /\ n.alvo = s /\ n.lida = senhas[s] /\ n.dono = r.dono
            /\ n.troca = x /\ n.curto = r.curto
        BY <1>0, PedidoT
      <3> HIDE DEF n
      <3>5. PedidoOK(n)
        BY <1>0, <2>1, <3>1, <3>2, <3>4 DEF PedidoOK, Base, Fresco
      <3>6. QED
        BY <2>3, <3>3, <3>5, SegueOK
    <2>4. QED
      BY <1>2, <2>2, <2>3 DEF AtualizarLer, StatusDe
  \* The request goes on: what it knew, and what it has just found.
  <1>3. ASSUME NEW passo \in {"nivel", "todas", "gravar"}, Vai(p, passo), UNCHANGED <<senhas, niveis>>,
               r.pc \in {"outras", "nivel", "todas"},
               passo \in {"nivel", "todas"} => x.nivel # NULL,
               passo = "todas" => r.lida.tipo = "customizada",
               r.pc = "outras" => passo \in {"nivel", "gravar"} /\ (passo = "gravar" => x.nivel = NULL),
               r.pc = "outras" /\ x.codigo # NULL =>
                  ~codigoDuplicado(ListByUsuario(r.dono) \ {r.alvo}, x.codigo),
               r.pc = "nivel" => validarNivel(r.lida.tipo, x.nivel) /\ passo \in {"todas", "gravar"},
               r.pc = "nivel" /\ passo = "gravar" => r.lida.tipo # "customizada",
               r.pc = "todas" => passo = "gravar"
                                 /\ ~nivelDuplicado(Linhas(senhas) \ {r.alvo}, x.nivel)
        PROVE  Inv'
    <2> DEFINE n == [r EXCEPT !.pc = passo]
    <2>1. n \in Pedido
      BY <1>0, PedidoT DEF Passos
    <2>2. /\ n.pc = passo /\ n.alvo = r.alvo /\ n.lida = r.lida /\ n.dono = r.dono
          /\ n.troca = x /\ n.curto = r.curto /\ n.so = r.so
      BY <1>0, PedidoT
    <2>3. Segue(p, n)
      BY <1>3 DEF Vai
    <2> HIDE DEF n
    <2>4. /\ r.alvo \in Ids /\ r.lida \in Senha /\ Forma(r.lida.tipo, r.lida.nivel)
          /\ senhas[r.alvo] # NULL =>
                senhas[r.alvo].dono = r.lida.dono /\ senhas[r.alvo].tipo = r.lida.tipo
          /\ ~r.curto => x.codigo \notin Curtos
      BY <1>0, <1>3 DEF Base
    <2>5. passo \in {"todas", "gravar"} => x.nivel = NULL \/ Forma(r.lida.tipo, x.nivel)
      <3>1. CASE r.pc = "outras"
        BY <1>3, <3>1
      <3>2. CASE r.pc = "nivel"
        <4>1. r.lida.tipo \in Tipos
          BY <2>4 DEF Senha
        <4>2. QED
          BY <1>0, <1>3, <3>2, <4>1, ValidoForma
      <3>3. CASE r.pc = "todas"
        BY <1>0, <3>3 DEF Base
      <3>4. QED
        BY <1>3, <3>1, <3>2, <3>3
    <2>6. Base(n)
      BY <1>3, <2>2, <2>4, <2>5 DEF Base
    <2>7. ASSUME n.so PROVE Fresco(n)
      <3>1. Fresco(r)
        BY <1>0, <2>2, <2>7
      <3>2. senhas[r.alvo] = r.lida /\ r.lida.dono = r.dono
        BY <1>3, <3>1 DEF Fresco
      <3>3. x.codigo # NULL => ~codigoDuplicado(ListByUsuario(r.dono) \ {r.alvo}, x.codigo)
        BY <1>3, <3>1 DEF Fresco
      <3>4. passo \in {"todas", "gravar"} /\ x.nivel # NULL => validarNivel(r.lida.tipo, x.nivel)
        BY <1>3, <3>1 DEF Fresco
      <3>5. passo = "gravar" /\ x.nivel # NULL /\ r.lida.tipo = "customizada" =>
               ~nivelDuplicado(Linhas(senhas) \ {r.alvo}, x.nivel)
        BY <1>3
      <3>6. QED
        BY <1>3, <2>2, <3>2, <3>3, <3>4, <3>5 DEF Fresco
    <2>8. QED
      BY <1>3, <2>1, <2>3, <2>6, <2>7, SegueOK DEF PedidoOK
  <1>4. ASSUME AtualizarListar(p) PROVE Inv'
    <2>1. r.pc = "outras"
      BY <1>4 DEF AtualizarListar, Esta
    <2>2. CASE Responde(p, 400)
      BY <2>2, RespondeOK
    <2>3. CASE /\ ~(x.codigo # NULL /\ codigoDuplicado(ListByUsuario(r.dono) \ {r.alvo}, x.codigo))
               /\ Vai(p, IF x.nivel = NULL THEN "gravar" ELSE "nivel")
               /\ UNCHANGED <<senhas, niveis>>
      BY <1>3, <2>1, <2>3
    <2>4. QED
      BY <1>4, <2>2, <2>3 DEF AtualizarListar, StatusDe
  <1>5. ASSUME AtualizarNivel(p) PROVE Inv'
    <2>1. r.pc = "nivel" /\ x.nivel # NULL
      BY <1>0, <1>5 DEF AtualizarNivel, Esta, Base
    <2>2. CASE Responde(p, 400)
      BY <2>2, RespondeOK
    <2>3. CASE /\ validarNivel(r.lida.tipo, x.nivel)
               /\ Vai(p, IF r.lida.tipo = "customizada" THEN "todas" ELSE "gravar")
               /\ UNCHANGED <<senhas, niveis>>
      BY <1>3, <2>1, <2>3
    <2>4. QED
      BY <1>5, <2>2, <2>3 DEF AtualizarNivel, StatusDe
  <1>6. ASSUME AtualizarEmpresa(p) PROVE Inv'
    <2>1. r.pc = "todas"
      BY <1>6 DEF AtualizarEmpresa, Esta
    <2>2. CASE Responde(p, 409)
      BY <2>2, RespondeOK
    <2>3. CASE /\ ~nivelDuplicado(Linhas(senhas) \ {r.alvo}, x.nivel)
               /\ Vai(p, "gravar") /\ UNCHANGED <<senhas, niveis>>
      BY <1>3, <2>1, <2>3
    <2>4. QED
      BY <1>6, <2>2, <2>3 DEF AtualizarEmpresa, StatusDe
  <1>7. QED
    BY <1>1, <1>2, <1>4, <1>5, <1>6

\* What an UPDATE writes: the guard and the kind are those of the row.
LEMMA TrocadaOK ==
    ASSUME Inv, NEW p \in Pedidos, Esta(p, "gravar")
    PROVE  /\ Trocada(p) \in Senha
           /\ Trocada(p).dono = proc[p].lida.dono /\ Trocada(p).tipo = proc[p].lida.tipo
           /\ Trocada(p).codigo = IF proc[p].troca.codigo = NULL THEN proc[p].lida.codigo
                                  ELSE proc[p].troca.codigo
           /\ Trocada(p).nivel = IF proc[p].troca.nivel = NULL THEN proc[p].lida.nivel
                                 ELSE proc[p].troca.nivel
           /\ Forma(Trocada(p).tipo, Trocada(p).nivel)
  <1> DEFINE r == proc[p]
             l == r.lida
             c == IF r.troca.codigo = NULL THEN l.codigo ELSE r.troca.codigo
             n == IF r.troca.nivel = NULL THEN l.nivel ELSE r.troca.nivel
  <1>1. r \in Pedido /\ Base(r) /\ r.pc = "gravar"
    BY DoPedido DEF Esta
  <1>2. l \in Senha /\ Forma(l.tipo, l.nivel) /\ (r.troca.nivel = NULL \/ Forma(l.tipo, r.troca.nivel))
    BY <1>1 DEF Base
  <1>3. r.troca \in Trocas \cup {SemTroca}
    BY <1>1, PedidoT
  <1>4. c \in Codigos /\ n \in Niveis \cup {NULL}
    BY <1>2, <1>3, TrocaOK DEF Senha
  <1>5. Trocada(p) = [l EXCEPT !.codigo = c, !.nivel = n]
    BY DEF Trocada
  <1>6. Forma(l.tipo, n)
    BY <1>2
  <1> HIDE DEF c, n
  <1>7. /\ Trocada(p) \in Senha /\ Trocada(p).dono = l.dono /\ Trocada(p).tipo = l.tipo
        /\ Trocada(p).codigo = c /\ Trocada(p).nivel = n
    BY <1>2, <1>4, <1>5 DEF Senha
  <1>8. QED
    BY <1>6, <1>7 DEF c, n

LEMMA GravarPassa ==
    ASSUME Inv, NEW p \in Pedidos, AtualizarGravar(p)
    PROVE  Inv'
  <1> DEFINE r == proc[p]
             s == r.alvo
             x == r.troca
             w == Trocada(p)
             t == [senhas EXCEPT ![s] = w]
  <1>0. /\ r \in Pedido /\ Base(r) /\ (r.so => Fresco(r)) /\ r.pc = "gravar"
        /\ senhas \in [Ids -> Senha \cup {NULL}] /\ niveis \subseteq Niveis
    BY DoPedido DEF AtualizarGravar, Esta
  <1>1. /\ w \in Senha /\ w.dono = r.lida.dono /\ w.tipo = r.lida.tipo
        /\ w.codigo = (IF x.codigo = NULL THEN r.lida.codigo ELSE x.codigo)
        /\ w.nivel = (IF x.nivel = NULL THEN r.lida.nivel ELSE x.nivel)
        /\ Forma(w.tipo, w.nivel)
    BY <1>0, TrocadaOK DEF Esta
  <1>2. /\ s \in Ids
        /\ senhas[s] # NULL => senhas[s].dono = r.lida.dono /\ senhas[s].tipo = r.lida.tipo
        /\ ~r.curto => x.codigo \notin Curtos
    BY <1>0 DEF Base
  <1> HIDE DEF w
  <1>3. CASE senhas[s] = NULL
    <2>1. Responde(p, 500)
      BY <1>3 DEF AtualizarGravar
    <2>2. ~r.so
      BY <1>0, <1>1, <1>3, SenhaNaoNula DEF Fresco, Base
    <2>3. QED
      BY <2>1, <2>2, RespondeOK
  <1>4. CASE senhas[s] # NULL
    <2>1. Grava(p, t, 200)
      BY <1>4 DEF AtualizarGravar, w
    <2>2. t \in [Ids -> Senha \cup {NULL}] /\ t[s] = w /\ \A o \in Ids : o # s => t[o] = senhas[o]
      BY <1>0, <1>1, <1>2
    <2> HIDE DEF t
    <2>3. \A o \in Linhas(t) : o \in Ids /\ o \in Linhas(senhas)
      BY <1>4, <2>2 DEF Linhas
    <2>4. \A o \in Linhas(t) : Forma(t[o].tipo, t[o].nivel)
      BY <1>1, <2>2, <2>3 DEF Inv, TabelaOK
    <2>5. \A q \in Pedidos \ {p} :
              proc[q].alvo \in Ids /\ t[proc[q].alvo] # NULL =>
                 /\ senhas[proc[q].alvo] # NULL
                 /\ t[proc[q].alvo].dono = senhas[proc[q].alvo].dono
                 /\ t[proc[q].alvo].tipo = senhas[proc[q].alvo].tipo
      BY <1>1, <1>2, <1>4, <2>2
    <2>6. ASSUME r.so, ~r.curto PROVE Restricoes(t)
      <3>1. /\ senhas[s] = r.lida /\ r.lida.dono = r.dono
            /\ x.codigo # NULL => ~codigoDuplicado(ListByUsuario(r.dono) \ {s}, x.codigo)
            /\ x.nivel # NULL => validarNivel(r.lida.tipo, x.nivel)
            /\ x.nivel # NULL /\ r.lida.tipo = "customizada" =>
                  ~nivelDuplicado(Linhas(senhas) \ {s}, x.nivel)
        BY <1>0, <2>6 DEF Fresco
      <3>2. Restricoes(senhas) /\ s \in Linhas(senhas)
        BY <1>2, <1>4 DEF Inv, TabelaOK, Linhas
      <3>3. /\ w.codigo \notin Curtos
            /\ w.tipo # "ok" => w.nivel # NULL
            /\ w.nivel \in niveis \cup {NULL}
        <4>1. r.lida.codigo \notin Curtos /\ r.lida.nivel \in niveis \cup {NULL}
              /\ (r.lida.tipo # "ok" => r.lida.nivel # NULL)
          BY <3>1, <3>2 DEF Restricoes
        <4>2. x.nivel # NULL => x.nivel \in niveis
          BY <3>1 DEF validarNivel
        <4>3. QED
          BY <1>1, <1>2, <2>6, <4>1, <4>2
      <3>4. ASSUME NEW o \in Linhas(senhas), o # s
            PROVE  /\ w.dono = senhas[o].dono => w.codigo # senhas[o].codigo
                   /\ w.dono = senhas[o].dono /\ w.tipo = senhas[o].tipo => w.tipo = "customizada"
                   /\ w.tipo = "customizada" /\ senhas[o].tipo = "customizada"
                         => w.nivel # senhas[o].nivel
        <4>1. /\ r.lida.dono = senhas[o].dono => r.lida.codigo # senhas[o].codigo
              /\ r.lida.dono = senhas[o].dono /\ r.lida.tipo = senhas[o].tipo
                    => r.lida.tipo = "customizada"
              /\ r.lida.tipo = "customizada" /\ senhas[o].tipo = "customizada"
                    => r.lida.nivel # senhas[o].nivel
          BY <3>1, <3>2, <3>4 DEF Restricoes
        <4>2. x.codigo # NULL /\ w.dono = senhas[o].dono => x.codigo # senhas[o].codigo
          BY <1>1, <3>1, <3>4 DEF codigoDuplicado, ListByUsuario
        <4>3. x.nivel # NULL /\ w.tipo = "customizada" => x.nivel # senhas[o].nivel
          BY <1>1, <3>1, <3>4 DEF nivelDuplicado
        <4>4. QED
          BY <1>1, <4>1, <4>2, <4>3
      <3>5. \A o \in Linhas(t) :
               /\ t[o].codigo \notin Curtos
               /\ t[o].tipo # "ok" => t[o].nivel # NULL
               /\ t[o].nivel \in niveis \cup {NULL}
        BY <2>2, <2>3, <3>2, <3>3 DEF Restricoes
      <3>6. ASSUME NEW a \in Linhas(t), NEW b \in Linhas(t), a # b
            PROVE  /\ t[a].dono = t[b].dono => t[a].codigo # t[b].codigo
                   /\ t[a].dono = t[b].dono /\ t[a].tipo = t[b].tipo => t[a].tipo = "customizada"
                   /\ t[a].tipo = "customizada" /\ t[b].tipo = "customizada"
                         => t[a].nivel # t[b].nivel
        <4>1. CASE a = s
          BY <2>2, <2>3, <3>4, <3>6, <4>1
        <4>2. CASE b = s
          BY <2>2, <2>3, <3>4, <3>6, <4>2
        <4>3. CASE a # s /\ b # s
          BY <2>2, <2>3, <3>2, <3>6, <4>3 DEF Restricoes
        <4>4. QED
          BY <4>1, <4>2, <4>3
      <3>7. QED
        BY <3>5, <3>6 DEF Restricoes
    <2>7. QED
      BY <2>1, <2>2, <2>4, <2>5, <2>6, GravaOK
  <1>5. QED
    BY <1>3, <1>4
-----------------------------------------------------------------------------
LEMMA RemoverPassa ==
    ASSUME Inv, NEW p \in Pedidos
    PROVE  (PedirRemover(p) => Inv') /\ (RemoverApagar(p) => Inv')
  <1> DEFINE r == proc[p]
  <1>0. /\ r \in Pedido /\ Base(r) /\ (r.so => Fresco(r))
        /\ senhas \in [Ids -> Senha \cup {NULL}]
    BY DoPedido
  <1>1. ASSUME PedirRemover(p) PROVE Inv'
    <2>1. PICK v \in Vigias, s \in Ids :
             \/ Responde(p, 404) \/ Responde(p, 409)
             \/ /\ s \in ListByUsuario(v) /\ senhas[s].tipo \notin {"ok", "emergencia"}
                /\ Chega(p, [Livre EXCEPT !.pc = "apagar", !.dono = v, !.alvo = s])
      BY ZenonT(60), <1>1 DEF PedirRemover, StatusDe
    <2>2. CASE Responde(p, 404) \/ Responde(p, 409)
      BY <2>2, RespondeOK
    <2> DEFINE n == [Livre EXCEPT !.pc = "apagar", !.dono = v, !.alvo = s]
    <2>3. CASE s \in ListByUsuario(v) /\ senhas[s].tipo \notin {"ok", "emergencia"} /\ Chega(p, n)
      <3>1. n \in Pedido
        BY LivreOK, PedidoT DEF Passos, Alvos
      <3>2. n.pc = "apagar" /\ n.alvo = s
        BY DEF Livre
      <3>3. senhas[s] # NULL /\ senhas[s].tipo = "customizada"
        BY <1>0, <2>3 DEF ListByUsuario, Linhas, Senha, Tipos
      <3> HIDE DEF n
      <3>4. PedidoOK(n)
        BY <3>2, <3>3 DEF PedidoOK, Base, Fresco
      <3>5. QED
        BY <2>3, <3>1, <3>4, SegueOK DEF Chega
    <2>4. QED
      BY <2>1, <2>2, <2>3
  <1>2. ASSUME RemoverApagar(p) PROVE Inv'
    <2> DEFINE s == r.alvo
               t == [senhas EXCEPT ![s] = NULL]
    <2>1. r.pc = "apagar" /\ s \in Ids
      BY <1>0, <1>2 DEF RemoverApagar, Esta, Base
    <2>2. CASE senhas[s] = NULL
      <3>1. Responde(p, 500) /\ ~r.so
        BY <1>0, <1>2, <2>1, <2>2 DEF RemoverApagar, Fresco
      <3>2. QED
        BY <3>1, RespondeOK
    <2>3. CASE senhas[s] # NULL
      <3>1. Grava(p, t, 200)
        BY <1>2, <2>3 DEF RemoverApagar
      <3>2. t \in [Ids -> Senha \cup {NULL}]
        BY <1>0
      <3>3. \A o \in Linhas(t) : o \in Linhas(senhas) /\ t[o] = senhas[o]
        BY <1>0, <2>1 DEF Linhas
      <3>4. \A o \in Ids : t[o] # NULL => t[o] = senhas[o]
        BY <1>0, <2>1
      <3> HIDE DEF t
      <3>5. Restricoes(t) /\ \A o \in Linhas(t) : Forma(t[o].tipo, t[o].nivel)
        BY <3>3 DEF Inv, TabelaOK, Restricoes
      <3>6. \A q \in Pedidos \ {p} :
               proc[q].alvo \in Ids /\ t[proc[q].alvo] # NULL =>
                  /\ senhas[proc[q].alvo] # NULL
                  /\ t[proc[q].alvo].dono = senhas[proc[q].alvo].dono
                  /\ t[proc[q].alvo].tipo = senhas[proc[q].alvo].tipo
        BY <3>4
      <3>7. QED
        BY <3>1, <3>2, <3>5, <3>6, GravaOK
    <2>4. QED
      BY <2>2, <2>3
  <1>3. QED
    BY <1>1, <1>2

\* Levels come when nothing mentions them, and go when no password is tied to them.
LEMMA NiveisPassam ==
    ASSUME Inv, NEW p \in Pedidos
    PROVE  /\ NivelCriar(p) => Inv'
           /\ NivelRemoverLer(p) => Inv'
           /\ NivelRemoverApagar(p) => Inv'
  <1> DEFINE r == proc[p]
  <1>0. /\ r \in Pedido /\ Base(r) /\ (r.so => Fresco(r)) /\ niveis \subseteq Niveis
        /\ senhas \in [Ids -> Senha \cup {NULL}] /\ Padrao \in niveis
    BY DoPedido DEF Inv
  <1>1. ASSUME NEW st \in {200, 201}, Escreveu(p, st), UNCHANGED senhas,
               niveis' \subseteq Niveis, Padrao \in niveis',
               \A s \in Linhas(senhas) : senhas[s].nivel \in niveis => senhas[s].nivel \in niveis',
               \A q \in Pedidos : proc[q].pc = "perdido" => proc[q].lida.nivel \notin niveis'
        PROVE  Inv'
    <2>1. TabelaOK(senhas)'
      BY <1>1 DEF Inv, TabelaOK, Restricoes, Linhas
    <2>2. senhas' \in [Ids -> Senha \cup {NULL}]
      BY <1>0, <1>1
    <2>3. \A q \in Pedidos \ {p} :
             proc[q].alvo \in Ids /\ senhas'[proc[q].alvo] # NULL =>
                /\ senhas[proc[q].alvo] # NULL
                /\ senhas'[proc[q].alvo].dono = senhas[proc[q].alvo].dono
                /\ senhas'[proc[q].alvo].tipo = senhas[proc[q].alvo].tipo
      BY <1>1
    <2>4. QED
      BY <1>1, <2>1, <2>2, <2>3, EscreveuOK
  <1>2. ASSUME NivelCriar(p) PROVE Inv'
    <2>1. PICK n \in Niveis \ niveis :
             /\ ~Mencionado(n) /\ niveis' = niveis \cup {n} /\ Escreveu(p, 201) /\ UNCHANGED senhas
      BY <1>2 DEF NivelCriar
    <2>2. ASSUME NEW q \in Pedidos, proc[q].pc = "perdido" PROVE proc[q].lida.nivel \notin niveis'
      <3>1. proc[q].lida \in Senha /\ proc[q].lida.nivel \notin niveis
        BY <2>2 DEF Inv, PedidoOK, Base
      <3>2. proc[q].lida.nivel # n
        BY <2>1, <3>1, SenhaNaoNula DEF Mencionado
      <3>3. QED
        BY <2>1, <3>1, <3>2
    <2>3. QED
      BY <1>0, <1>1, <2>1, <2>2
  <1>3. ASSUME NivelRemoverLer(p) PROVE Inv'
    <2>1. PICK m \in niveis \ {Padrao} :
             Chega(p, [Livre EXCEPT !.pc = "apagarNivel", !.alvo = m, !.so = FALSE])
      BY <1>3 DEF NivelRemoverLer
    <2> DEFINE n == [Livre EXCEPT !.pc = "apagarNivel", !.alvo = m, !.so = FALSE]
    <2>2. n \in Pedido
      BY ZenonT(60), <1>0, LivreOK, PedidoT DEF Passos, Alvos
    <2>3. n.pc = "apagarNivel" /\ n.alvo = m /\ ~n.so
      BY DEF Livre
    <2>4. Segue(p, n) /\ UNCHANGED <<senhas, niveis>>
      BY <2>1 DEF Chega
    <2> HIDE DEF n
    <2>5. PedidoOK(n)
      BY <1>0, <2>3 DEF PedidoOK, Base
    <2>6. QED
      BY <2>2, <2>4, <2>5, SegueOK
  <1>4. ASSUME NivelRemoverApagar(p) PROVE Inv'
    <2> DEFINE n == r.alvo
    <2>1. r.pc = "apagarNivel" /\ n # Padrao /\ ~r.so
      BY <1>0, <1>4 DEF NivelRemoverApagar, Esta, Base, Fresco
    <2>2. CASE Responde(p, 500)
      BY <2>1, <2>2, RespondeOK
    <2>3. CASE /\ n \in niveis /\ \A s \in Linhas(senhas) : senhas[s].nivel # n
               /\ niveis' = niveis \ {n} /\ Escreveu(p, 200) /\ UNCHANGED senhas
      <3>1. \A q \in Pedidos : proc[q].pc = "perdido" => proc[q].lida.nivel \notin niveis
        BY DEF Inv, PedidoOK, Base
      <3>2. QED
        BY <1>0, <1>1, <2>1, <2>3, <3>1
    <2>4. QED
      BY <1>4, <2>2, <2>3 DEF NivelRemoverApagar
  <1>5. QED
    BY <1>2, <1>3, <1>4

\* A guard types a code.
LEMMA SinalPassa ==
    ASSUME Inv, NEW p \in Pedidos
    PROVE  /\ SinalLer(p) => Inv'
           /\ SinalResolver(p) => Inv'
           /\ Terminar(p) => Inv'
  <1> DEFINE r == proc[p]
  <1>0. /\ r \in Pedido /\ Base(r) /\ (r.so => Fresco(r))
        /\ senhas \in [Ids -> Senha \cup {NULL}]
    BY DoPedido
  <1>1. ASSUME SinalLer(p) PROVE Inv'
    <2>1. PICK v \in Vigias : \E s \in ListByUsuario(v) :
             /\ senhas[s].tipo # "ok"
             /\ Chega(p, [Livre EXCEPT !.pc = "resolver", !.dono = v, !.alvo = s,
                                       !.lida = senhas[s], !.so = FALSE])
      BY <1>1 DEF SinalLer
    <2>2. PICK s \in ListByUsuario(v) :
             /\ senhas[s].tipo # "ok"
             /\ Chega(p, [Livre EXCEPT !.pc = "resolver", !.dono = v, !.alvo = s,
                                       !.lida = senhas[s], !.so = FALSE])
      BY <2>1
    <2> DEFINE n == [Livre EXCEPT !.pc = "resolver", !.dono = v, !.alvo = s,
                                  !.lida = senhas[s], !.so = FALSE]
    <2>3. s \in Linhas(senhas) /\ s \in Ids /\ senhas[s] # NULL
      BY DEF ListByUsuario, Linhas
    <2>4. senhas[s] \in Senha /\ Forma(senhas[s].tipo, senhas[s].nivel)
      BY <1>0, <2>3 DEF Inv, TabelaOK
    <2>5. n \in Pedido
      BY <2>3, <2>4, LivreOK, PedidoT DEF Passos, Alvos
    <2>6. n.pc = "resolver" /\ n.alvo = s /\ n.lida = senhas[s] /\ ~n.so
      BY DEF Livre
    <2>7. Segue(p, n) /\ UNCHANGED <<senhas, niveis>>
      BY <2>2 DEF Chega
    <2> HIDE DEF n
    <2>8. PedidoOK(n)
      BY <2>2, <2>3, <2>4, <2>6 DEF PedidoOK, Base
    <2>9. QED
      BY <2>5, <2>7, <2>8, SegueOK
  <1>2. ASSUME SinalResolver(p) PROVE Inv'
    <2> DEFINE n == [r EXCEPT !.pc = "perdido"]
    <2>1. r.pc = "resolver" /\ ~r.so
      BY <1>0, <1>2 DEF SinalResolver, Esta, Fresco
    <2>2. CASE Responde(p, 200)
      BY <2>2, RespondeOK
    <2>3. CASE r.lida.nivel \notin niveis /\ Segue(p, n) /\ UNCHANGED <<senhas, niveis>>
      <3>1. n \in Pedido
        BY <1>0, PedidoT DEF Passos
      <3>2. n.pc = "perdido" /\ n.alvo = r.alvo /\ n.lida = r.lida /\ n.so = r.so
        BY <1>0, PedidoT
      <3> HIDE DEF n
      <3>3. PedidoOK(n)
        BY <1>0, <2>1, <2>3, <3>2 DEF PedidoOK, Base
      <3>4. QED
        BY <2>3, <3>1, <3>3, SegueOK
    <2>4. QED
      BY <1>2, <2>2, <2>3 DEF SinalResolver, Vai
  <1>3. ASSUME Terminar(p) PROVE Inv'
    BY <1>3, LivreOK, SegueOK DEF Terminar
  <1>4. QED
    BY <1>1, <1>2, <1>3

LEMMA Passo == Inv /\ [Next]_vars => Inv'
  <1> SUFFICES ASSUME Inv, [Next]_vars PROVE Inv'
    OBVIOUS
  <1>1. CASE UNCHANGED vars
    <2>2. UNCHANGED <<senhas, niveis, proc>>
      BY <1>1 DEF vars
    <2>3. TypeOK' /\ (Padrao \in niveis)' /\ TabelaOK(senhas)'
      BY SMTT(60), <2>2 DEF Inv, TypeOK, TabelaOK, Restricoes, Linhas
    <2>4. ASSUME NEW p \in Pedidos PROVE PedidoOK(proc[p])'
      <3>1. PICK x : x = proc[p]
        OBVIOUS
      <3>2. PedidoOK(x) /\ x = proc'[p]
        BY <2>2, <3>1 DEF Inv
      <3>3. PedidoOK(x)'
        BY <2>2, <3>2, FicaOK
      <3>4. QED
        BY <3>2, <3>3
    <2>5. QED
      BY <2>3, <2>4 DEF Inv
  <1>2. CASE Next
    BY <1>2, CriarPassa, InserirPassa, AtualizarPassa, GravarPassa, RemoverPassa, NiveisPassam,
       SinalPassa DEF Next
  <1>3. QED
    BY <1>1, <1>2

LEMMA SempreInv == Spec => []Inv
  BY Inicial, Passo, PTL DEF Spec
-----------------------------------------------------------------------------
\* Types of the table, of the levels and of requests.
THEOREM TypeCorrect == Spec => []TypeOK
  <1>1. Inv => TypeOK
    BY DEF Inv
  <1>2. QED
    BY <1>1, SempreInv, PTL

\* The kind of a password and its level always suit each other, and the level exists:
\* the first is checked several statements before the row is written, the second is
\* left to the foreign key.
THEOREM NiveisCorrect == Spec => []NiveisCoerentes
  <1>1. Inv => NiveisCoerentes
    <2> SUFFICES ASSUME Inv, NEW s \in Linhas(senhas)
                 PROVE  /\ senhas[s].tipo = "ok" => senhas[s].nivel = NULL
                        /\ senhas[s].tipo = "emergencia" => senhas[s].nivel = Padrao
                        /\ senhas[s].tipo = "customizada" => senhas[s].nivel \in niveis \ {Padrao}
      BY DEF NiveisCoerentes
    <2>1. Forma(senhas[s].tipo, senhas[s].nivel) /\ senhas[s].nivel \in niveis \cup {NULL}
      BY DEF Inv, TabelaOK, Restricoes
    <2>2. NULL \notin Niveis
      BY ConstantesOK
    <2>3. QED
      BY <2>1, <2>2 DEF Forma
  <1>2. QED
    BY <1>1, SempreInv, PTL

\* A request about passwords that is answered 500 was not alone, or carried a short
\* code: the checks of the service foresee every other constraint of the table.
THEOREM ErroCorrect == Spec => []ErroInternoTemCausa
  <1>1. Inv => ErroInternoTemCausa
    BY ZenonT(60) DEF Inv, PedidoOK, Fresco, ErroInternoTemCausa
  <1>2. QED
    BY <1>1, SempreInv, PTL

\* A signal is lost only with a customized password that was deleted or moved since it
\* was looked up.
THEOREM SinalCorrect == Spec => []SinalPerdidoFoiTrocado
  <1>1. Inv => SinalPerdidoFoiTrocado
    <2> SUFFICES ASSUME Inv, NEW p \in Pedidos, proc[p].pc = "perdido"
                 PROVE  /\ proc[p].lida.tipo = "customizada"
                        /\ senhas[proc[p].alvo] # proc[p].lida
      BY DEF SinalPerdidoFoiTrocado, Esta
    <2> DEFINE r == proc[p]
    <2>1. /\ r.alvo \in Ids /\ r.lida \in Senha /\ r.lida.tipo # "ok"
          /\ Forma(r.lida.tipo, r.lida.nivel) /\ r.lida.nivel \notin niveis
      BY DEF Inv, PedidoOK, Base
    <2>2. r.lida.tipo = "customizada"
      BY <2>1 DEF Inv, Forma, Senha, Tipos
    <2>3. r.lida.nivel # NULL
      BY <2>1, <2>2, ConstantesOK DEF Forma
    <2>4. ASSUME senhas[r.alvo] = r.lida PROVE FALSE
      <3>1. r.alvo \in Linhas(senhas)
        BY <2>1, <2>4, SenhaNaoNula DEF Linhas
      <3>2. r.lida.nivel \in niveis \cup {NULL}
        BY <2>4, <3>1 DEF Inv, TabelaOK, Restricoes
      <3>3. QED
        BY <2>1, <2>3, <3>2
    <2>5. QED
      BY <2>2, <2>4
  <1>2. QED
    BY <1>1, SempreInv, PTL

\* Rows come by an insert, under an id that was free, and change by an UPDATE or a
\* DELETE decided on what was read.
LEMMA ObrigatoriasNext ==
    ASSUME Inv, [Next]_vars, NEW s \in Linhas(senhas), senhas[s].tipo \in {"ok", "emergencia"}
    PROVE  senhas'[s] # NULL /\ senhas'[s].dono = senhas[s].dono /\ senhas'[s].tipo = senhas[s].tipo
  <1>0. s \in Ids /\ senhas[s] # NULL /\ senhas \in [Ids -> Senha \cup {NULL}]
    BY DEF Linhas, Inv, TypeOK
  <1> SUFFICES ASSUME senhas' # senhas
               PROVE  senhas'[s] # NULL /\ senhas'[s].dono = senhas[s].dono
                      /\ senhas'[s].tipo = senhas[s].tipo
    BY <1>0
  <1>1. PICK p \in Pedidos : CriarInserir(p) \/ AtualizarGravar(p) \/ RemoverApagar(p)
    <2>1. ASSUME NEW p \in Pedidos, PedirCriar(p) \/ PedirLote(p)
          PROVE  senhas' = senhas
      BY <2>1 DEF PedirCriar, PedirLote, PedeNovas, Chega
    <2>2. ASSUME NEW p \in Pedidos, CriarValidar(p) \/ CriarListar(p) \/ CriarEmpresa(p)
          PROVE  senhas' = senhas
      BY SMTT(60), <2>2 DEF CriarValidar, CriarListar, CriarEmpresa, Responde
    <2>3. ASSUME NEW p \in Pedidos,
                 PedirAtualizar(p) \/ AtualizarLer(p) \/ PedirRemover(p)
          PROVE  senhas' = senhas
      BY <2>3 DEF PedirAtualizar, AtualizarLer, PedirRemover, Chega, Responde
    <2>4. ASSUME NEW p \in Pedidos,
                 AtualizarListar(p) \/ AtualizarNivel(p) \/ AtualizarEmpresa(p)
          PROVE  senhas' = senhas
      BY <2>4 DEF AtualizarListar, AtualizarNivel, AtualizarEmpresa, Responde
    <2>5. ASSUME NEW p \in Pedidos,
                 NivelCriar(p) \/ NivelRemoverLer(p) \/ NivelRemoverApagar(p)
          PROVE  senhas' = senhas
      BY <2>5 DEF NivelCriar, NivelRemoverLer, NivelRemoverApagar, Chega, Responde
    <2>6. ASSUME NEW p \in Pedidos, SinalLer(p) \/ SinalResolver(p) \/ Terminar(p)
          PROVE  senhas' = senhas
      BY <2>6 DEF SinalLer, SinalResolver, Terminar, Chega, Responde
    <2>7. ~UNCHANGED vars
      BY DEF vars
    <2>8. QED
      BY <2>1, <2>2, <2>3, <2>4, <2>5, <2>6, <2>7 DEF Next
  <1> DEFINE r == proc[p]
  <1>2. Base(r)
    BY DoPedido
  <1>3. CASE CriarInserir(p)
    <2> DEFINE ns == r.novas
    <2>1. PICK ids \in [DOMAIN ns -> IdsLivres] :
             Grava(p, [z \in Ids |-> IF \E i \in DOMAIN ns : ids[i] = z
                                     THEN Linha(r.dono, ns[CHOOSE i \in DOMAIN ns : ids[i] = z])
                                     ELSE senhas[z]], 201)
      BY <1>3 DEF CriarInserir
    <2>2. \A i \in DOMAIN ns : ids[i] # s
      BY DEF IdsLivres
    <2>3. senhas'[s] = senhas[s]
      BY ZenonT(60), <1>0, <2>1, <2>2 DEF Grava, Responde
    <2>4. QED
      BY <1>0, <2>3
  <1>4. CASE AtualizarGravar(p)
    <2>1. Esta(p, "gravar") /\ senhas[r.alvo] # NULL /\ senhas' = [senhas EXCEPT ![r.alvo] = Trocada(p)]
      BY <1>4 DEF AtualizarGravar, Grava, Responde
    <2>2. CASE r.alvo = s
      <3>1. senhas[s].dono = r.lida.dono /\ senhas[s].tipo = r.lida.tipo
        BY <1>0, <1>2, <2>1, <2>2 DEF Base, Esta
      <3>2. senhas'[s] = Trocada(p)
        BY <1>0, <2>1, <2>2
      <3>3. QED
        BY <2>1, <3>1, <3>2, TrocadaOK, SenhaNaoNula
    <2>3. CASE r.alvo # s
      BY <1>0, <2>1, <2>3
    <2>4. QED
      BY <2>2, <2>3
  <1>5. CASE RemoverApagar(p)
    <2>1. r.pc = "apagar" /\ senhas' = [senhas EXCEPT ![r.alvo] = NULL]
      BY <1>5 DEF RemoverApagar, Grava, Responde, Esta
    <2>2. r.alvo # s
      BY <1>0, <1>2, <2>1 DEF Base
    <2>3. QED
      BY <1>0, <2>1, <2>2
  <1>6. QED
    BY <1>1, <1>3, <1>4, <1>5

\* The passwords ok and emergencia of a guard stay once they are there, whatever was
\* read and decided before.
THEOREM ObrigatoriasCorrect == Spec => ObrigatoriasFicam
  <1>1. Inv /\ [Next]_vars =>
           [\A s \in Linhas(senhas) :
               senhas[s].tipo \in {"ok", "emergencia"} =>
                  /\ senhas'[s] # NULL
                  /\ senhas'[s].dono = senhas[s].dono
                  /\ senhas'[s].tipo = senhas[s].tipo]_vars
    BY ObrigatoriasNext
  <1>2. QED
    BY <1>1, SempreInv, PTL DEF Spec, ObrigatoriasFicam
===============================================================================
