----------------------------- MODULE Conta_proofs -----------------------------
(* Proofs about Conta, for any users, posts, rows and changes, any number of *)
(* requests, and tokens of any lifetime.                                     *)
EXTENDS Conta, TLAPS
-----------------------------------------------------------------------------
(* The inductive invariant.                                                *)

\* What a request knows of the row it is about.  A row that is to be inserted is not
\* there yet; any other is there for good, and is as it was read while nobody else
\* wrote it.
PedidoOK(r) ==
    /\ r.pc = "inserir" => r.id \in Usuarios /\ ~Existe(r.id) /\ r.troca \in Novas
    /\ r.pc \in {"conferir", "gravar"} =>
          r.id \in Ids /\ Existe(r.id) /\ r.lida \in Linha /\ (r.so => r.lida = linhas[r.id])
    /\ r.pc \in {"dono", "emitir"} => r.id \in Usuarios /\ Existe(r.id)

\* Nobody else is about a row that is to be inserted.
IdReservado ==
    \A p, q \in Pedidos : p # q /\ pedido[p].pc = "inserir" => pedido[q].id # pedido[p].id

\* Tokens and devices belong to users that are in the table.
SessoesOK ==
    /\ \A u \in Usuarios : Autenticado(u) \/ renovacao[u] > 0 => Existe(u)
    /\ \A d \in Devices : dispositivos[d] # NULL => Existe(dispositivos[d])

Inv == TypeOK /\ (\A p \in Pedidos : PedidoOK(pedido[p])) /\ IdReservado /\ SessoesOK
-----------------------------------------------------------------------------
(* Types, part by part.                                                    *)

Campos == [nome : Nomes \cup {NULL}, email : Emails \cup {NULL},
           papel : Papeis \cup {NULL}, ativo : BOOLEAN \cup {NULL}]

PedidoT ==
    [pc : {"livre", "inserir", "conferir", "gravar", "dono", "emitir"},
     id : Ids \cup {NULL}, lida : Linha \cup {NULL},
     troca : Trocas \cup Novas \cup {SemTroca, [SemTroca EXCEPT !.ativo = FALSE]},
     so : BOOLEAN]

SessoesT ==
    /\ acesso \in [Usuarios -> [Papeis -> 0..Acesso]]
    /\ renovacao \in [Usuarios -> 0..Renovacao]
    /\ dispositivos \in [Devices -> Usuarios \cup {NULL}]

LEMMA Tipos ==
    TypeOK <=> linhas \in [Ids -> Linha \cup {NULL}] /\ SessoesT /\ pedido \in [Pedidos -> PedidoT]
  BY DEF TypeOK, SessoesT, PedidoT

LEMMA LivreOK == Livre \in PedidoT /\ PedidoOK(Livre) /\ PedidoOK(Livre)'
  BY DEF Livre, PedidoT, PedidoOK

\* The fields of a change.
LEMMA CamposOK == ASSUME NEW r \in PedidoT PROVE r.troca \in Campos
  <1>1. Novas \subseteq Campos /\ Trocas \subseteq Campos
    BY ConstantesOK DEF Campos
  <1>2. SemTroca \in Campos /\ [SemTroca EXCEPT !.ativo = FALSE] \in Campos
    BY DEF SemTroca, Campos
  <1>3. r.troca \in Trocas \cup Novas \cup {SemTroca, [SemTroca EXCEPT !.ativo = FALSE]}
    BY DEF PedidoT
  <1>4. QED
    BY <1>1, <1>2, <1>3

LEMMA NovaOK ==
    ASSUME NEW n \in Novas PROVE [n EXCEPT !.ativo = TRUE] \in Linha
  <1>1. n \in [nome : Nomes, email : Emails \cup {NULL}, papel : Papeis \cup {NULL},
               ativo : BOOLEAN \cup {NULL}]
    BY ConstantesOK
  <1>2. QED
    BY <1>1 DEF Linha

LEMMA TrocadaOK == ASSUME NEW l \in Linha, NEW x \in Campos PROVE Trocada(l, x) \in Linha
  <1> DEFINE t == Trocada(l, x)
  <1>1. /\ (IF x.nome  = NULL THEN l.nome  ELSE x.nome) \in Nomes
        /\ (IF x.email = NULL THEN l.email ELSE x.email) \in Emails \cup {NULL}
        /\ (IF x.papel = NULL THEN l.papel ELSE x.papel) \in Papeis \cup {NULL}
        /\ (IF x.ativo = NULL THEN l.ativo ELSE x.ativo) \in BOOLEAN
    BY DEF Linha, Campos
  <1>2. QED
    BY <1>1 DEF Trocada, Linha
-----------------------------------------------------------------------------
(* Steps of three kinds: one changes requests, one the tables of rows, one *)
(* the sessions.                                                           *)

LEMMA VaiOK ==
    ASSUME Inv, NEW p \in Pedidos, NEW r \in PedidoT, PedidoOK(r), Vai(p, r),
           \/ r.id = NULL
           \/ r.id \in Ids /\ Existe(r.id)
           \/ \A q \in Pedidos : q # p => pedido[q].id # r.id
    PROVE  Inv'
  <1>1. pedido' = [pedido EXCEPT ![p] = r] /\ UNCHANGED <<linhas, acesso, renovacao, dispositivos>>
    BY DEF Vai
  <1>2. TypeOK'
    <2>1. pedido' \in [Pedidos -> PedidoT]
      BY <1>1, Tipos DEF Inv
    <2>2. QED
      BY <1>1, <2>1 DEF Inv, TypeOK, PedidoT
  <1>3. ASSUME NEW q \in Pedidos PROVE PedidoOK(pedido[q])'
    <2>1. pedido'[q] = IF q = p THEN r ELSE pedido[q]
      BY <1>1, Tipos DEF Inv
    <2>2. PedidoOK(pedido'[q])
      BY <2>1 DEF Inv
    <2>3. QED
      BY <1>1, <2>2 DEF PedidoOK, Existe
  <1>4. IdReservado'
    <2> SUFFICES ASSUME NEW a \in Pedidos, NEW b \in Pedidos, a # b, pedido'[a].pc = "inserir"
                 PROVE  pedido'[b].id # pedido'[a].id
      BY DEF IdReservado
    <2>1. \A q \in Pedidos : pedido'[q] = IF q = p THEN r ELSE pedido[q]
      BY <1>1, Tipos DEF Inv
    <2>2. CASE a # p /\ b # p
      BY <2>1, <2>2 DEF Inv, IdReservado
    <2>3. CASE b = p
      <3>1. pedido[a].pc = "inserir" /\ pedido[a].id \in Usuarios /\ ~Existe(pedido[a].id)
        BY <2>1, <2>3 DEF Inv, PedidoOK
      <3>2. pedido[a].id # NULL
        BY <3>1, ConstantesOK
      <3>3. pedido[a].id # r.id
        BY <2>3, <3>1, <3>2
      <3>4. QED
        BY <2>1, <2>3, <3>3
    <2>4. CASE a = p
      <3>1. r.pc = "inserir" /\ r.id \in Usuarios /\ ~Existe(r.id)
        BY <2>1, <2>4 DEF PedidoOK
      <3>2. r.id # NULL
        BY <3>1, ConstantesOK
      <3>3. QED
        BY <2>1, <2>4, <3>1, <3>2
    <2>5. QED
      BY <2>2, <2>3, <2>4
  <1>5. SessoesOK'
    BY <1>1 DEF Inv, SessoesOK, Autenticado, Existe
  <1>6. QED
    BY <1>2, <1>3, <1>4, <1>5 DEF Inv

LEMMA EscreveOK ==
    ASSUME Inv, NEW p \in Pedidos, NEW i \in Ids, NEW l \in Linha, Escreve(p, i, l),
           \A q \in Pedidos : q # p /\ pedido[q].pc = "inserir" => pedido[q].id # i
    PROVE  Inv'
  <1> DEFINE apos(q) == IF q = p THEN Livre
                        ELSE IF pedido[q].id = i THEN [pedido[q] EXCEPT !.so = @ /\ ~Aceita(i, l)]
                        ELSE pedido[q]
  <1>1. /\ linhas' = IF Aceita(i, l) THEN [linhas EXCEPT ![i] = l] ELSE linhas
        /\ pedido' = [q \in Pedidos |-> apos(q)]
        /\ UNCHANGED <<acesso, renovacao, dispositivos>>
    BY DEF Escreve
  <1>2. linhas \in [Ids -> Linha \cup {NULL}] /\ SessoesT /\ pedido \in [Pedidos -> PedidoT]
    BY Tipos DEF Inv
  <1>3. l # NULL
    BY NuloOK
  <1>4. linhas' \in [Ids -> Linha \cup {NULL}] /\ \A j \in Ids : Existe(j) => Existe(j)'
    BY <1>1, <1>2, <1>3 DEF Existe
  <1>5. ASSUME NEW q \in Pedidos
        PROVE  /\ apos(q) \in PedidoT
               /\ apos(q).pc = (IF q = p THEN "livre" ELSE pedido[q].pc)
               /\ q # p => /\ apos(q).id = pedido[q].id /\ apos(q).lida = pedido[q].lida
                           /\ apos(q).troca = pedido[q].troca
                           /\ apos(q).so => pedido[q].so /\ (pedido[q].id = i => ~Aceita(i, l))
    <2>1. pedido[q] \in PedidoT
      BY <1>2
    <2>2. CASE q = p
      BY <2>2, LivreOK DEF Livre
    <2>3. CASE q # p /\ pedido[q].id = i
      <3> DEFINE b == pedido[q].so /\ ~Aceita(i, l)
      <3>1. b \in BOOLEAN /\ apos(q) = [pedido[q] EXCEPT !.so = b]
        BY <2>3
      <3>2. apos(q) \in PedidoT /\ apos(q).so = b
        BY ZenonT(60), <2>1, <3>1 DEF PedidoT
      <3>3. /\ apos(q).pc = pedido[q].pc /\ apos(q).id = pedido[q].id
            /\ apos(q).lida = pedido[q].lida /\ apos(q).troca = pedido[q].troca
        BY <2>1, <3>1 DEF PedidoT
      <3>4. QED
        BY <2>3, <3>2, <3>3
    <2>4. CASE q # p /\ pedido[q].id # i
      BY <2>1, <2>4
    <2>5. QED
      BY <2>2, <2>3, <2>4
  <1> HIDE DEF apos
  <1>6. TypeOK'
    <2>1. pedido' \in [Pedidos -> PedidoT]
      BY <1>1, <1>5
    <2>2. SessoesT'
      BY <1>1, <1>2 DEF SessoesT
    <2>3. QED
      BY <1>4, <2>1, <2>2 DEF TypeOK, SessoesT, PedidoT
  <1>7. ASSUME NEW q \in Pedidos PROVE PedidoOK(pedido[q])'
    <2> DEFINE r == pedido[q]
    <2>1. pedido'[q] = apos(q)
      BY <1>1
    <2>2. CASE q = p
      BY <1>5, <2>1, <2>2 DEF PedidoOK
    <2>3. CASE q # p
      <3>1. PedidoOK(r)
        BY DEF Inv
      <3>2. ASSUME r.pc = "inserir" PROVE linhas'[r.id] = NULL
        <4>1. r.id # i /\ r.id \in Usuarios /\ linhas[r.id] = NULL
          BY <2>3, <3>1, <3>2 DEF PedidoOK, Existe
        <4>2. r.id \in Ids
          BY <4>1 DEF Ids
        <4>3. linhas'[r.id] = linhas[r.id]
          BY <1>1, <1>2, <4>1, <4>2
        <4>4. QED
          BY <4>1, <4>3
      <3>3. ASSUME r.pc \in {"conferir", "gravar"}, apos(q).so
            PROVE  r.lida = linhas'[r.id]
        <4>1. r.so /\ (r.id = i => ~Aceita(i, l))
          BY <1>5, <2>3, <3>3
        <4>2. r.id \in Ids /\ r.lida = linhas[r.id]
          BY <3>1, <3>3, <4>1 DEF PedidoOK
        <4>3. linhas'[r.id] = linhas[r.id]
          BY <1>1, <1>2, <4>1, <4>2
        <4>4. QED
          BY <4>2, <4>3
      <3>4. r.pc \in {"conferir", "gravar", "dono", "emitir"} => linhas'[r.id] # NULL
        BY <1>4, <3>1 DEF PedidoOK, Ids, Existe
      <3>5. QED
        BY <1>5, <2>1, <2>3, <3>1, <3>2, <3>3, <3>4 DEF PedidoOK, Existe
    <2>4. QED
      BY <2>2, <2>3
  <1>8. IdReservado'
    <2> SUFFICES ASSUME NEW a \in Pedidos, NEW b \in Pedidos, a # b, pedido'[a].pc = "inserir"
                 PROVE  pedido'[b].id # pedido'[a].id
      BY DEF IdReservado
    <2>1. pedido'[a] = apos(a) /\ pedido'[b] = apos(b)
      BY <1>1
    <2>2. a # p /\ pedido[a].pc = "inserir" /\ pedido'[a].id = pedido[a].id
      BY <1>5, <2>1
    <2>3. CASE b = p
      <3>1. pedido'[b].id = NULL
        BY <2>1, <2>3 DEF apos, Livre
      <3>2. pedido[a].id \in Usuarios
        BY <2>2 DEF Inv, PedidoOK
      <3>3. QED
        BY <2>2, <3>1, <3>2, ConstantesOK
    <2>4. CASE b # p
      BY <1>5, <2>1, <2>2, <2>4 DEF Inv, IdReservado
    <2>5. QED
      BY <2>3, <2>4
  <1>9. SessoesOK'
    <2>1. \A u \in Usuarios : Autenticado(u)' = Autenticado(u) /\ u \in Ids
      BY <1>1 DEF Autenticado, Ids
    <2>2. \A d \in Devices : dispositivos[d] # NULL => dispositivos[d] \in Usuarios
      BY <1>2 DEF SessoesT
    <2>3. QED
      BY <1>1, <1>4, <2>1, <2>2 DEF Inv, SessoesOK
  <1>10. QED
    BY <1>6, <1>7, <1>8, <1>9 DEF Inv
-----------------------------------------------------------------------------
LEMMA Inicial == Init => Inv
  <1> SUFFICES ASSUME Init PROVE Inv
    OBVIOUS
  <1>1. TypeOK
    <2>1. 0 \in 0..Acesso /\ 0 \in 0..Renovacao
      BY ConstantesOK
    <2>2. SessoesT
      BY <2>1 DEF Init, SessoesT
    <2>3. pedido \in [Pedidos -> PedidoT]
      BY LivreOK DEF Init
    <2>4. linhas \in [Ids -> Linha \cup {NULL}]
      BY DEF Init
    <2>5. QED
      BY <2>2, <2>3, <2>4, Tipos
  <1>2. \A p \in Pedidos : PedidoOK(pedido[p])
    BY LivreOK DEF Init
  <1>3. IdReservado
    BY DEF Init, IdReservado, Livre
  <1>4. SessoesOK
    <2>1. \A u \in Usuarios : ~Autenticado(u) /\ ~(renovacao[u] > 0)
      BY DEF Init, Autenticado
    <2>2. \A d \in Devices : dispositivos[d] = NULL
      BY DEF Init
    <2>3. QED
      BY <2>1, <2>2 DEF SessoesOK
  <1>5. QED
    BY <1>1, <1>2, <1>3, <1>4 DEF Inv

\* Requests about rows.
LEMMA LinhasPassam ==
    ASSUME Inv, NEW p \in Pedidos
    PROVE  /\ Criar(p) => Inv'
           /\ Inserir(p) => Inv'
           /\ CriarPosto(p) => Inv'
           /\ Atualizar(p) => Inv'
           /\ Desativar(p) => Inv'
           /\ Conferir(p) => Inv'
           /\ Gravar(p) => Inv'
  <1> DEFINE r == pedido[p]
  <1>0. /\ linhas \in [Ids -> Linha \cup {NULL}] /\ r \in PedidoT /\ PedidoOK(r)
        /\ \A q \in Pedidos : PedidoOK(pedido[q])
    BY Tipos DEF Inv
  <1>a. Usuarios \subseteq Ids /\ Postos \subseteq Ids
    BY DEF Ids
  <1>1. ASSUME Criar(p) PROVE Inv'
    <2>1. PICK i \in Usuarios, n \in Novas :
             /\ ~Existe(i) /\ \A q \in Pedidos : pedido[q].id # i
             /\ Vai(p, [Livre EXCEPT !.pc = "inserir", !.id = i, !.troca = n])
      BY <1>1 DEF Criar
    <2> DEFINE q == [Livre EXCEPT !.pc = "inserir", !.id = i, !.troca = n]
    <2>2. q \in PedidoT /\ PedidoOK(q) /\ q.id = i
      BY <1>a, <2>1 DEF Livre, PedidoT, PedidoOK
    <2>3. QED
      BY <2>1, <2>2, VaiOK
  <1>2. ASSUME Inserir(p) PROVE Inv'
    <2> DEFINE l == [r.troca EXCEPT !.ativo = TRUE]
    <2>1. r.pc = "inserir" /\ r.id \in Usuarios /\ r.troca \in Novas
      BY <1>0, <1>2 DEF Inserir, PedidoOK
    <2>2. l \in Linha /\ r.id \in Ids
      BY <1>a, <2>1, NovaOK
    <2>3. \A q \in Pedidos : q # p => pedido[q].id # r.id
      BY <2>1 DEF Inv, IdReservado
    <2>4. Escreve(p, r.id, l)
      BY <1>2 DEF Inserir
    <2>5. QED
      BY <2>2, <2>3, <2>4, EscreveOK
  <1>3. ASSUME CriarPosto(p) PROVE Inv'
    <2>1. PICK i \in Postos, n \in Novas : Escreve(p, i, [n EXCEPT !.ativo = TRUE])
      BY <1>3 DEF CriarPosto
    <2>2. \A q \in Pedidos : pedido[q].pc = "inserir" => pedido[q].id # i
      BY <1>0, ConstantesOK DEF PedidoOK
    <2>3. i \in Ids /\ [n EXCEPT !.ativo = TRUE] \in Linha
      BY <1>a, NovaOK
    <2>4. QED
      BY <2>1, <2>2, <2>3, EscreveOK
  <1>4. ASSUME Atualizar(p) PROVE Inv'
    <2>1. PICK i \in Ids, x \in Trocas, passo \in {"conferir", "gravar"} :
             /\ Existe(i)
             /\ Vai(p, [Livre EXCEPT !.pc = passo, !.id = i, !.lida = linhas[i], !.troca = x])
      BY <1>4 DEF Atualizar
    <2> DEFINE q == [Livre EXCEPT !.pc = passo, !.id = i, !.lida = linhas[i], !.troca = x]
    <2>2. linhas[i] \in Linha
      BY <1>0, <2>1 DEF Existe
    <2>3. q \in PedidoT /\ PedidoOK(q) /\ q.id = i
      BY <2>1, <2>2 DEF Livre, PedidoT, PedidoOK
    <2>4. QED
      BY <2>1, <2>3, VaiOK
  <1>5. ASSUME Desativar(p) PROVE Inv'
    <2> DEFINE x == [SemTroca EXCEPT !.ativo = FALSE]
    <2>1. PICK i \in Ids :
             /\ Existe(i)
             /\ Vai(p, [Livre EXCEPT !.pc = "gravar", !.id = i, !.lida = linhas[i], !.troca = x])
      BY <1>5 DEF Desativar
    <2> DEFINE q == [Livre EXCEPT !.pc = "gravar", !.id = i, !.lida = linhas[i], !.troca = x]
    <2>2. linhas[i] \in Linha
      BY <1>0, <2>1 DEF Existe
    <2>3. q \in PedidoT /\ PedidoOK(q) /\ q.id = i
      BY <2>1, <2>2 DEF Livre, PedidoT, PedidoOK
    <2>4. QED
      BY <2>1, <2>3, VaiOK
  <1>6. ASSUME Conferir(p) PROVE Inv'
    <2> DEFINE q == [r EXCEPT !.pc = "gravar"]
    <2>1. q \in PedidoT /\ PedidoOK(q) /\ q.id \in Ids /\ Existe(q.id)
      BY <1>0, <1>6 DEF Conferir, PedidoT, PedidoOK
    <2>2. Vai(p, q) \/ Vai(p, Livre)
      BY <1>6 DEF Conferir
    <2>3. Livre.id = NULL
      BY DEF Livre
    <2>4. QED
      BY <2>1, <2>2, <2>3, LivreOK, VaiOK
  <1>7. ASSUME Gravar(p) PROVE Inv'
    <2>1. r.id \in Ids /\ Existe(r.id) /\ r.lida \in Linha
      BY <1>0, <1>7 DEF Gravar, PedidoOK
    <2>2. Trocada(r.lida, r.troca) \in Linha
      BY <1>0, <2>1, CamposOK, TrocadaOK
    <2>3. \A q \in Pedidos : pedido[q].pc = "inserir" => pedido[q].id # r.id
      BY <1>0, <2>1 DEF PedidoOK
    <2>4. QED
      BY <1>7, <2>1, <2>2, <2>3, EscreveOK DEF Gravar
  <1>8. QED
    BY <1>1, <1>2, <1>3, <1>4, <1>5, <1>6, <1>7

\* Sessions.
LEMMA SessaoSegue ==
    ASSUME Inv, SessoesT', SessoesOK', UNCHANGED <<linhas, pedido>> PROVE Inv'
  <1>1. TypeOK'
    BY DEF Inv, TypeOK, SessoesT
  <1>2. \A p \in Pedidos : PedidoOK(pedido[p])'
    BY DEF Inv, PedidoOK, Existe
  <1>3. IdReservado'
    BY DEF Inv, IdReservado
  <1>4. QED
    BY <1>1, <1>2, <1>3 DEF Inv

LEMMA EntradasPassam ==
    ASSUME Inv, NEW p \in Pedidos
    PROVE  /\ Login(p) => Inv'
           /\ Refresh(p) => Inv'
           /\ BiometricLogin(p) => Inv'
           /\ LerDono(p) => Inv'
           /\ Emitir(p) => Inv'
  <1> DEFINE r == pedido[p]
  <1>0. /\ linhas \in [Ids -> Linha \cup {NULL}] /\ r \in PedidoT /\ PedidoOK(r)
        /\ SessoesT /\ pedido \in [Pedidos -> PedidoT]
    BY Tipos DEF Inv
  <1>a. Usuarios \subseteq Ids /\ Livre.id = NULL
    BY DEF Ids, Livre
  <1>b. ASSUME NEW u \in Usuarios, Existe(u), Emite(p, u, linhas[u]) PROVE Inv'
    <2> DEFINE q == [Livre EXCEPT !.pc = "emitir", !.id = u, !.lida = linhas[u]]
    <2>1. linhas[u] \in Linha
      BY <1>0, <1>a, <1>b DEF Existe
    <2>2. q \in PedidoT /\ PedidoOK(q) /\ q.id = u
      BY <1>a, <1>b, <2>1 DEF Livre, PedidoT, PedidoOK
    <2>3. Vai(p, q)
      BY <1>b DEF Emite
    <2>4. QED
      BY <1>a, <1>b, <2>2, <2>3, VaiOK
  <1>1. ASSUME Login(p) PROVE Inv'
    BY <1>1, <1>b DEF Login
  <1>2. ASSUME Refresh(p) PROVE Inv'
    BY <1>2, <1>b DEF Refresh, Inv, SessoesOK
  <1>3. ASSUME BiometricLogin(p) PROVE Inv'
    <2>1. PICK d \in Devices :
             dispositivos[d] # NULL /\ Vai(p, [Livre EXCEPT !.pc = "dono", !.id = dispositivos[d]])
      BY <1>3 DEF BiometricLogin
    <2> DEFINE q == [Livre EXCEPT !.pc = "dono", !.id = dispositivos[d]]
    <2>2. dispositivos[d] \in Usuarios /\ Existe(dispositivos[d])
      BY <1>0, <2>1 DEF Inv, SessoesOK, SessoesT
    <2>3. q \in PedidoT /\ PedidoOK(q) /\ q.id = dispositivos[d]
      BY <1>a, <2>2 DEF Livre, PedidoT, PedidoOK
    <2>4. QED
      BY <1>a, <2>1, <2>2, <2>3, VaiOK
  <1>4. ASSUME LerDono(p) PROVE Inv'
    <2>1. r.id \in Usuarios /\ Existe(r.id)
      BY <1>0, <1>4 DEF LerDono, PedidoOK
    <2>2. Emite(p, r.id, linhas[r.id]) \/ Vai(p, Livre)
      BY <1>4 DEF LerDono
    <2>3. QED
      BY <1>a, <1>b, <2>1, <2>2, LivreOK, VaiOK
  <1>5. ASSUME Emitir(p) PROVE Inv'
    <2> DEFINE novo == [acesso[r.id] EXCEPT ![r.lida.papel] = Acesso]
    <2>1. /\ acesso' = [acesso EXCEPT ![r.id] = novo]
          /\ renovacao' = [renovacao EXCEPT ![r.id] = Renovacao]
          /\ pedido' = [pedido EXCEPT ![p] = Livre]
          /\ UNCHANGED <<linhas, dispositivos>>
      BY <1>5 DEF Emitir
    <2>2. r.id \in Usuarios /\ Existe(r.id)
      BY <1>0, <1>5 DEF Emitir, PedidoOK
    <2>3. Acesso \in 0..Acesso /\ Renovacao \in 0..Renovacao
      BY ConstantesOK
    <2>4. novo \in [Papeis -> 0..Acesso]
      BY <1>0, <2>2, <2>3 DEF SessoesT
    <2>5. SessoesT'
      BY <1>0, <2>1, <2>3, <2>4 DEF SessoesT
    <2>6. pedido' \in [Pedidos -> PedidoT]
      BY <1>0, <2>1, LivreOK
    <2>7. TypeOK'
      BY <1>0, <2>1, <2>5, <2>6 DEF TypeOK, SessoesT, PedidoT
    <2>8. \A q \in Pedidos : pedido'[q] = IF q = p THEN Livre ELSE pedido[q]
      BY <1>0, <2>1
    <2>9. \A q \in Pedidos : PedidoOK(pedido[q])'
      BY <2>1, <2>8, LivreOK DEF Inv, PedidoOK, Existe
    <2>10. IdReservado'
      <3> SUFFICES ASSUME NEW a \in Pedidos, NEW b \in Pedidos, a # b, pedido'[a].pc = "inserir"
                   PROVE  pedido'[b].id # pedido'[a].id
        BY DEF IdReservado
      <3>1. a # p /\ pedido'[a] = pedido[a]
        BY <2>8 DEF Livre
      <3>2. pedido[a].id \in Usuarios /\ pedido[a].id # NULL
        BY <3>1, ConstantesOK DEF Inv, PedidoOK
      <3>3. QED
        BY <1>a, <2>8, <3>1, <3>2 DEF Inv, IdReservado
    <2>11. SessoesOK'
      <3>1. ASSUME NEW u \in Usuarios, u # r.id
            PROVE  acesso'[u] = acesso[u] /\ renovacao'[u] = renovacao[u]
        BY <1>0, <2>1, <3>1 DEF SessoesT
      <3>2. ASSUME NEW u \in Usuarios, Autenticado(u)' \/ renovacao'[u] > 0
            PROVE  linhas[u] # NULL
        BY <2>2, <3>1, <3>2 DEF Inv, SessoesOK, Autenticado, Existe
      <3>3. QED
        BY <2>1, <3>2 DEF Inv, SessoesOK, Existe
    <2>12. QED
      BY <2>7, <2>9, <2>10, <2>11 DEF Inv
  <1>6. QED
    BY <1>1, <1>2, <1>3, <1>4, <1>5

LEMMA SessoesPassam ==
    ASSUME Inv
    PROVE  /\ \A u \in Usuarios : Logout(u) => Inv'
           /\ \A u \in Usuarios : \A d \in Devices : RegisterBiometric(u, d) => Inv'
           /\ Tempo => Inv'
  <1>0. SessoesT /\ SessoesOK
    BY Tipos DEF Inv
  <1>1. ASSUME NEW u \in Usuarios, Logout(u) PROVE Inv'
    <2>1. UNCHANGED <<linhas, acesso, renovacao, pedido>>
      BY <1>1 DEF Logout
    <2>2. /\ dispositivos' \in [Devices -> Usuarios \cup {NULL}]
          /\ \A d \in Devices : dispositivos'[d] \in {dispositivos[d], NULL}
      BY <1>0, <1>1 DEF Logout, SessoesT
    <2>3. SessoesT'
      BY <1>0, <2>1, <2>2 DEF SessoesT
    <2>4. SessoesOK'
      BY <1>0, <2>1, <2>2 DEF SessoesOK, Autenticado, Existe
    <2>5. QED
      BY <2>1, <2>3, <2>4, SessaoSegue
  <1>2. ASSUME NEW u \in Usuarios, NEW d \in Devices, RegisterBiometric(u, d) PROVE Inv'
    <2>1. Existe(u) /\ dispositivos' = [dispositivos EXCEPT ![d] = u]
          /\ UNCHANGED <<linhas, acesso, renovacao, pedido>>
      BY <1>0, <1>2 DEF RegisterBiometric, SessoesOK
    <2>2. SessoesT'
      BY <1>0, <2>1 DEF SessoesT
    <2>3. SessoesOK'
      BY <1>0, <2>1 DEF SessoesOK, SessoesT, Autenticado, Existe
    <2>4. QED
      BY <2>1, <2>2, <2>3, SessaoSegue
  <1>3. ASSUME Tempo PROVE Inv'
    <2>1. /\ acesso' = [u \in Usuarios |-> [c \in Papeis |-> Resta(acesso[u][c])]]
          /\ renovacao' = [u \in Usuarios |-> Resta(renovacao[u])]
          /\ UNCHANGED <<linhas, dispositivos, pedido>>
      BY <1>3 DEF Tempo
    <2>2. ASSUME NEW m \in Nat, NEW n \in 0..m PROVE Resta(n) \in 0..m /\ (Resta(n) > 0 => n > 0)
      BY DEF Resta
    <2>3. Acesso \in Nat /\ Renovacao \in Nat
      BY ConstantesOK
    <2>4. \A u \in Usuarios : \A c \in Papeis : acesso[u][c] \in 0..Acesso
      BY <1>0 DEF SessoesT
    <2>5. \A u \in Usuarios : renovacao[u] \in 0..Renovacao
      BY <1>0 DEF SessoesT
    <2>6. \A u \in Usuarios : [c \in Papeis |-> Resta(acesso[u][c])] \in [Papeis -> 0..Acesso]
      BY <2>2, <2>3, <2>4
    <2>7. SessoesT'
      BY <1>0, <2>1, <2>2, <2>3, <2>5, <2>6 DEF SessoesT
    <2>8. \A u \in Usuarios : Autenticado(u)' => Autenticado(u)
      BY <2>1, <2>2, <2>3, <2>4 DEF Autenticado
    <2>9. \A u \in Usuarios : renovacao'[u] > 0 => renovacao[u] > 0
      BY <2>1, <2>2, <2>3, <2>5
    <2>10. SessoesOK'
      BY <1>0, <2>1, <2>8, <2>9 DEF SessoesOK, Existe
    <2>11. QED
      BY <2>1, <2>7, <2>10, SessaoSegue
  <1>4. QED
    BY <1>1, <1>2, <1>3

LEMMA Passo == Inv /\ [Next]_vars => Inv'
  <1> SUFFICES ASSUME Inv, [Next]_vars PROVE Inv'
    OBVIOUS
  <1>1. CASE UNCHANGED vars
    BY <1>1 DEF vars, Inv, TypeOK, PedidoOK, IdReservado, SessoesOK, Autenticado, Existe
  <1>2. CASE Next
    BY <1>2, LinhasPassam, EntradasPassam, SessoesPassam DEF Next
  <1>3. QED
    BY <1>1, <1>2

LEMMA SempreInv == Spec => []Inv
  BY Inicial, Passo, PTL DEF Spec
-----------------------------------------------------------------------------
\* Types of the tables, of tokens and of requests.
THEOREM TypeCorrect == Spec => []TypeOK
  <1>1. Inv => TypeOK
    BY DEF Inv
  <1>2. QED
    BY <1>1, SempreInv, PTL

\* Whoever holds a token or a device is in the table of users: the row that a session
\* is checked against is never missing, although nothing ties one to the other.
THEOREM SessoesCorrect == Spec => []SessoesOK
  <1>1. Inv => SessoesOK
    BY DEF Inv
  <1>2. QED
    BY <1>1, SempreInv, PTL

\* A step changes a row that was there only by an UPDATE, and then in the fields that
\* were asked for, unless the row was read before somebody else's UPDATE.
LEMMA MudaNext ==
    ASSUME Inv, [Next]_vars, NEW i \in Ids, Existe(i), linhas'[i] # linhas[i]
    PROVE  \E p \in Pedidos :
              /\ pedido[p].pc = "gravar" /\ pedido[p].id = i
              /\ \A c \in {"nome", "email", "papel", "ativo"} :
                    linhas'[i][c] # linhas[i][c] =>
                       ~pedido[p].so \/ linhas'[i][c] = pedido[p].troca[c]
  <1>0. /\ linhas \in [Ids -> Linha \cup {NULL}] /\ pedido \in [Pedidos -> PedidoT]
        /\ \A q \in Pedidos : PedidoOK(pedido[q])
    BY Tipos DEF Inv
  <1>1. PICK p \in Pedidos : Inserir(p) \/ CriarPosto(p) \/ Gravar(p)
    BY DEF Next, vars, Criar, Atualizar, Desativar, Conferir, Login, Refresh, BiometricLogin,
           LerDono, Emitir, Logout, RegisterBiometric, Tempo, Emite, Vai
  <1> DEFINE r == pedido[p]
  <1>2. ASSUME NEW j, NEW l, Escreve(p, j, l), linhas[j] = NULL \/ j # i PROVE FALSE
    BY <1>0, <1>2 DEF Escreve, Existe
  <1>3. ~Inserir(p)
    BY <1>0, <1>2 DEF Inserir, PedidoOK, Existe
  <1>4. ~CriarPosto(p)
    BY <1>2 DEF CriarPosto, Existe
  <1>5. r.pc = "gravar" /\ Escreve(p, r.id, Trocada(r.lida, r.troca))
    BY <1>1, <1>3, <1>4 DEF Gravar
  <1>6. r.id = i
    BY <1>2, <1>5
  <1>7. linhas'[i] = Trocada(r.lida, r.troca)
    BY <1>0, <1>5, <1>6 DEF Escreve
  <1>8. ASSUME NEW c \in {"nome", "email", "papel", "ativo"}, linhas'[i][c] # linhas[i][c], r.so
        PROVE  linhas'[i][c] = r.troca[c]
    <2>1. r.lida = linhas[i]
      BY <1>0, <1>5, <1>6, <1>8 DEF PedidoOK
    <2>2. linhas'[i][c] \in {r.troca[c], r.lida[c]}
      BY <1>7 DEF Trocada
    <2>3. QED
      BY <1>8, <2>1, <2>2
  <1>9. QED
    BY <1>5, <1>6, <1>8

\* An update changes of a row what it was asked to change, whatever the other requests
\* do, as long as the row is as it read it: a field that is not sent is never erased,
\* and no request touches the row of another.
THEOREM MudaCorrect == Spec => MudaSoOPedido
  <1>1. Inv /\ [Next]_vars =>
           [\A i \in Ids :
               Existe(i) /\ linhas'[i] # linhas[i] =>
                  \E p \in Pedidos :
                     /\ pedido[p].pc = "gravar" /\ pedido[p].id = i
                     /\ \A c \in {"nome", "email", "papel", "ativo"} :
                           linhas'[i][c] # linhas[i][c] =>
                              ~pedido[p].so \/ linhas'[i][c] = pedido[p].troca[c]]_vars
    BY MudaNext
  <1>2. QED
    BY <1>1, SempreInv, PTL DEF Spec, MudaSoOPedido
===============================================================================
