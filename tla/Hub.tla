-------------------------------- MODULE Hub --------------------------------
(***************************************************************************)
(* The websocket hub (internal/ws): the handlers of the API broadcast      *)
(* events to the panels of a company while panels connect and go away.     *)
(*                                                                         *)
(* Three kinds of goroutine meet here.  A broadcaster holds the read lock  *)
(* while it offers the event to one client after the other.  The pumps of  *)
(* a client write what is queued for it, and notice that the connection    *)
(* is gone.  Register and Unregister hold the write lock for their whole   *)
(* body, so each is one step; it waits until no broadcaster is inside, and *)
(* from the moment it waits no other broadcaster gets in (sync.RWMutex).   *)
(*                                                                         *)
(* What the events say plays no part: a queue is its length.               *)
(***************************************************************************)
EXTENDS Naturals, FiniteSets

CONSTANTS
    Empresas,     \* companies
    Clientes,     \* connections; a panel that reconnects is another one
    EmpresaDe,    \* the company of each connection
    Emissores,    \* goroutines that broadcast
    CapEnvio,     \* capacity of the channel send (64 in the code)
    MaxEventos    \* bound of the number of broadcasts

ASSUME ConstantesOK ==
    /\ EmpresaDe \in [Clientes -> Empresas]
    /\ CapEnvio \in Nat
    /\ MaxEventos \in Nat

VARIABLES
    clients,    \* the hub's map: the clients of each company it has a key for
    fila,       \* events in the channel send
    fechado,    \* whether the channel send is closed
    conn,       \* the connection
    readPump,   \* the handler's goroutine, then ReadPump
    writePump,
    despejos,   \* goroutines `go h.Unregister(client)' that have not run yet
    esperam,    \* who is blocked in mu.Lock()
    emissor,    \* for each broadcaster, the clients it still has to serve
    eventos,    \* broadcasts so far
    perdeu,     \* whether a client missed an event while registered
    panico      \* a goroutine sent on, or closed, a closed channel

vars == <<clients, fila, fechado, conn, readPump, writePump, despejos, esperam,
          emissor, eventos, perdeu, panico>>

Escritor == {"registrar", "sair", "despejo"} \X Clientes

TypeOK ==
    /\ DOMAIN clients \subseteq Empresas
    /\ clients \in [DOMAIN clients -> SUBSET Clientes]
    /\ fila \in [Clientes -> 0 .. CapEnvio]
    /\ fechado \in [Clientes -> BOOLEAN]
    /\ conn \in [Clientes -> {"aberta", "caida", "fechada"}]
    /\ readPump \in [Clientes -> {"fora", "registrando", "registrado", "lendo", "saindo", "fim"}]
    /\ writePump \in [Clientes -> {"fora", "rodando", "fim"}]
    /\ despejos \in [Clientes -> Nat]
    /\ esperam \subseteq Escritor
    /\ emissor \in [Emissores -> [dentro : BOOLEAN, faltam : SUBSET Clientes]]
    /\ eventos \in Nat
    /\ perdeu \in [Clientes -> BOOLEAN]
    /\ panico \in BOOLEAN

Fora == [dentro |-> FALSE, faltam |-> {}]

Init ==
    /\ clients = [emp \in {} |-> {}]
    /\ fila = [c \in Clientes |-> 0]
    /\ fechado = [c \in Clientes |-> FALSE]
    /\ conn = [c \in Clientes |-> "aberta"]
    /\ readPump = [c \in Clientes |-> "fora"]
    /\ writePump = [c \in Clientes |-> "fora"]
    /\ despejos = [c \in Clientes |-> 0]
    /\ esperam = {}
    /\ emissor = [e \in Emissores |-> Fora]
    /\ eventos = 0
    /\ perdeu = [c \in Clientes |-> FALSE]
    /\ panico = FALSE
-----------------------------------------------------------------------------
(* The lock.                                                               *)

SemLeitor == \A e \in Emissores : ~emissor[e].dentro

Querem ==
    {<<"registrar", c>> : c \in {c \in Clientes : readPump[c] = "registrando"}}
      \cup {<<"sair", c>> : c \in {c \in Clientes : readPump[c] = "saindo"}}
      \cup {<<"despejo", c>> : c \in {c \in Clientes : despejos[c] > 0}}

Lock(w) ==
    /\ w \in Querem \ esperam
    /\ esperam' = esperam \cup {w}
    /\ UNCHANGED <<clients, fila, fechado, conn, readPump, writePump, despejos,
                   emissor, eventos, perdeu, panico>>

\* The write lock is taken, held for one step, and released.
ComLock(w) ==
    /\ w \in esperam
    /\ SemLeitor
    /\ esperam' = esperam \ {w}
-----------------------------------------------------------------------------
(* The map of clients.                                                     *)

DaEmpresa(emp) == IF emp \in DOMAIN clients THEN clients[emp] ELSE {}

Com(emp, cs) ==
    [x \in DOMAIN clients \cup {emp} |-> IF x = emp THEN cs ELSE clients[x]]

Register(c) ==
    /\ readPump[c] = "registrando"
    /\ ComLock(<<"registrar", c>>)
    /\ clients' = Com(EmpresaDe[c], DaEmpresa(EmpresaDe[c]) \cup {c})
    /\ readPump' = [readPump EXCEPT ![c] = "registrado"]
    /\ UNCHANGED <<fila, fechado, conn, writePump, despejos, emissor, eventos, perdeu, panico>>

Sem(c) ==
    LET restam == DaEmpresa(EmpresaDe[c]) \ {c}
    IN  IF restam = {} THEN [x \in DOMAIN clients \ {EmpresaDe[c]} |-> clients[x]]
                       ELSE Com(EmpresaDe[c], restam)

\* (mutant) The channel is closed whether or not the client is in the map.
Unregister_semTeste(c) ==
    /\ clients' = Sem(c)
    /\ fechado' = [fechado EXCEPT ![c] = TRUE]
    /\ panico' = (panico \/ fechado[c])

\* (mutant) The client is removed but its channel is not closed.
Unregister_semClose(c) ==
    /\ clients' = Sem(c)
    /\ UNCHANGED <<fechado, panico>>

\* (mutant) The channel is closed but the client is not removed.
Unregister_semDelete(c) ==
    IF c \in DaEmpresa(EmpresaDe[c])
    THEN /\ fechado' = [fechado EXCEPT ![c] = TRUE]
         /\ panico' = (panico \/ fechado[c])
         /\ UNCHANGED clients
    ELSE UNCHANGED <<clients, fechado, panico>>

\* What Unregister does: only the first call finds the client in the map.
Unregister(c) ==
    IF c \in DaEmpresa(EmpresaDe[c])
    THEN /\ clients' = Sem(c)
         /\ fechado' = [fechado EXCEPT ![c] = TRUE]
         /\ panico' = (panico \/ fechado[c])
    ELSE UNCHANGED <<clients, fechado, panico>>
-----------------------------------------------------------------------------
(* Broadcast.                                                              *)

BroadcastIniciar(e, emp) ==
    /\ ~emissor[e].dentro
    /\ esperam = {}
    /\ eventos < MaxEventos
    /\ emp \in DOMAIN clients
    /\ emissor' = [emissor EXCEPT ![e] = [dentro |-> TRUE, faltam |-> DaEmpresa(emp)]]
    /\ eventos' = eventos + 1
    /\ UNCHANGED <<clients, fila, fechado, conn, readPump, writePump, despejos, esperam,
                   perdeu, panico>>

\* (mutant) Unregister is called, not started as a goroutine: the write lock
\* is asked for while the read lock is held, and the loop never goes on.
BroadcastEnviar_sincrono(e, c) ==
    /\ c \in emissor[e].faltam
    /\ \/ /\ fila[c] < CapEnvio
          /\ fila' = [fila EXCEPT ![c] = @ + 1]
          /\ panico' = (panico \/ fechado[c])
          /\ emissor' = [emissor EXCEPT ![e].faltam = @ \ {c}]
          /\ UNCHANGED <<despejos, esperam, perdeu>>
       \/ /\ fila[c] = CapEnvio
          /\ esperam' = esperam \cup {<<"despejo", c>>}
          /\ perdeu' = [perdeu EXCEPT ![c] = TRUE]
          /\ UNCHANGED <<fila, panico, emissor, despejos>>
    /\ UNCHANGED <<clients, fechado, conn, readPump, writePump, eventos>>

\* (mutant) The queue of a client has no limit.
BroadcastEnviar_semLimite(e, c) ==
    /\ c \in emissor[e].faltam
    /\ emissor' = [emissor EXCEPT ![e].faltam = @ \ {c}]
    /\ panico' = (panico \/ fechado[c])
    /\ fila' = [fila EXCEPT ![c] = @ + 1]
    /\ UNCHANGED <<clients, fechado, conn, readPump, writePump, despejos, esperam, eventos, perdeu>>

\* The send does not block: a client whose channel is full is thrown out by a
\* goroutine of its own.  The iteration order of the map is arbitrary.
BroadcastEnviar(e, c) ==
    /\ c \in emissor[e].faltam
    /\ emissor' = [emissor EXCEPT ![e].faltam = @ \ {c}]
    /\ panico' = (panico \/ fechado[c])
    /\ \/ /\ fila[c] < CapEnvio
          /\ fila' = [fila EXCEPT ![c] = @ + 1]
          /\ UNCHANGED <<despejos, perdeu>>
       \/ /\ fila[c] = CapEnvio
          /\ despejos' = [despejos EXCEPT ![c] = @ + 1]
          /\ perdeu' = [perdeu EXCEPT ![c] = TRUE]
          /\ UNCHANGED fila
    /\ UNCHANGED <<clients, fechado, conn, readPump, writePump, esperam, eventos>>

BroadcastFim(e) ==
    /\ emissor[e].dentro
    /\ emissor[e].faltam = {}
    /\ emissor' = [emissor EXCEPT ![e] = Fora]
    /\ UNCHANGED <<clients, fila, fechado, conn, readPump, writePump, despejos, esperam,
                   eventos, perdeu, panico>>

\* The goroutine that Broadcast started.
Despejar(c) ==
    /\ despejos[c] > 0
    /\ ComLock(<<"despejo", c>>)
    /\ Unregister(c)
    /\ despejos' = [despejos EXCEPT ![c] = @ - 1]
    /\ UNCHANGED <<fila, conn, readPump, writePump, emissor, eventos, perdeu>>
-----------------------------------------------------------------------------
(* A connection and its pumps.                                             *)

\* The handler upgraded the connection and calls Register.
Conectar(c) ==
    /\ readPump[c] = "fora"
    /\ readPump' = [readPump EXCEPT ![c] = "registrando"]
    /\ UNCHANGED <<clients, fila, fechado, conn, writePump, despejos, esperam, emissor,
                   eventos, perdeu, panico>>

\* It starts the pumps after Register has returned.
IniciarPumps(c) ==
    /\ readPump[c] = "registrado"
    /\ readPump' = [readPump EXCEPT ![c] = "lendo"]
    /\ writePump' = [writePump EXCEPT ![c] = "rodando"]
    /\ UNCHANGED <<clients, fila, fechado, conn, despejos, esperam, emissor, eventos,
                   perdeu, panico>>

\* The peer goes away, or stops answering pings.
Cair(c) ==
    /\ conn[c] = "aberta"
    /\ readPump[c] # "fora"
    /\ conn' = [conn EXCEPT ![c] = "caida"]
    /\ UNCHANGED <<clients, fila, fechado, readPump, writePump, despejos, esperam, emissor,
                   eventos, perdeu, panico>>

\* ReadMessage fails on a broken or closed connection: at once, or when the
\* deadline that no pong renews expires.
ReadPumpErro(c) ==
    /\ readPump[c] = "lendo"
    /\ conn[c] # "aberta"
    /\ readPump' = [readPump EXCEPT ![c] = "saindo"]
    /\ UNCHANGED <<clients, fila, fechado, conn, writePump, despejos, esperam, emissor,
                   eventos, perdeu, panico>>

\* ... and the deferred function unregisters the client and closes.
ReadPumpSair(c) ==
    /\ readPump[c] = "saindo"
    /\ ComLock(<<"sair", c>>)
    /\ Unregister(c)
    /\ readPump' = [readPump EXCEPT ![c] = "fim"]
    /\ conn' = [conn EXCEPT ![c] = "fechada"]
    /\ UNCHANGED <<fila, writePump, despejos, emissor, eventos, perdeu>>

\* A write to a broken connection may still succeed.
WritePumpEscrever(c) ==
    /\ writePump[c] = "rodando"
    /\ fila[c] > 0
    /\ conn[c] # "fechada"
    /\ fila' = [fila EXCEPT ![c] = @ - 1]
    /\ UNCHANGED <<clients, fechado, conn, readPump, writePump, despejos, esperam, emissor,
                   eventos, perdeu, panico>>

\* (mutant) WritePump returns and leaves the connection open.
Encerrar_semClose(c) ==
    /\ writePump' = [writePump EXCEPT ![c] = "fim"]
    /\ UNCHANGED conn

Encerrar(c) ==
    /\ writePump' = [writePump EXCEPT ![c] = "fim"]
    /\ conn' = [conn EXCEPT ![c] = "fechada"]

\* Writing an event fails; the event was taken from the channel.
WritePumpErro(c) ==
    /\ writePump[c] = "rodando"
    /\ fila[c] > 0
    /\ conn[c] # "aberta"
    /\ fila' = [fila EXCEPT ![c] = @ - 1]
    /\ Encerrar(c)
    /\ UNCHANGED <<clients, fechado, readPump, despejos, esperam, emissor, eventos, perdeu, panico>>

\* Writing a ping fails.
WritePumpPing(c) ==
    /\ writePump[c] = "rodando"
    /\ conn[c] # "aberta"
    /\ Encerrar(c)
    /\ UNCHANGED <<clients, fila, fechado, readPump, despejos, esperam, emissor, eventos,
                   perdeu, panico>>

\* The channel is closed and drained.
WritePumpFim(c) ==
    /\ writePump[c] = "rodando"
    /\ fila[c] = 0
    /\ fechado[c]
    /\ Encerrar(c)
    /\ UNCHANGED <<clients, fila, fechado, readPump, despejos, esperam, emissor, eventos,
                   perdeu, panico>>
-----------------------------------------------------------------------------
Broadcast(e) ==
    \/ \E emp \in Empresas : BroadcastIniciar(e, emp)
    \/ \E c \in Clientes : BroadcastEnviar(e, c)
    \/ BroadcastFim(e)

ReadPump(c) == IniciarPumps(c) \/ ReadPumpErro(c) \/ ReadPumpSair(c)

WritePump(c) ==
    WritePumpEscrever(c) \/ WritePumpErro(c) \/ WritePumpPing(c) \/ WritePumpFim(c)

Next ==
    \/ \E e \in Emissores : Broadcast(e)
    \/ \E c \in Clientes :
          \/ Conectar(c) \/ Register(c) \/ ReadPump(c) \/ WritePump(c)
          \/ Despejar(c) \/ Cair(c)
    \/ \E w \in Escritor : Lock(w)

\* The Go scheduler runs every goroutine that can run, and sync.RWMutex lets in
\* a writer that waits.  Nothing obliges panels to connect or go away, or
\* requests to broadcast.
Justica ==
    /\ \A e \in Emissores :
          /\ WF_vars(\E c \in Clientes : BroadcastEnviar(e, c))
          /\ WF_vars(BroadcastFim(e))
    /\ \A c \in Clientes :
          /\ WF_vars(Register(c)) /\ WF_vars(Despejar(c))
          /\ WF_vars(ReadPump(c)) /\ WF_vars(WritePump(c))
    /\ \A w \in Escritor : WF_vars(Lock(w))

Spec == Init /\ [][Next]_vars /\ Justica
-----------------------------------------------------------------------------
(* Properties.                                                             *)

\* No goroutine sends on a closed channel, or closes one twice: either would
\* panic and take the whole server down.
SemPanico == ~panico

\* The channel of a client is closed exactly when the client, once registered,
\* is no longer in the map; so a broadcaster that is inside never meets a
\* closed one, although clients leave while it works.
FechadoSaiu ==
    /\ \A c \in Clientes :
          readPump[c] \notin {"fora", "registrando"} =>
             (fechado[c] <=> c \notin DaEmpresa(EmpresaDe[c]))
    /\ \A e \in Emissores : \A c \in emissor[e].faltam : ~fechado[c]

\* A broadcast ends, however slow its clients are and whoever waits for the
\* lock: the request that emitted it is never blocked by a panel.
BroadcastTermina == \A e \in Emissores : emissor[e].dentro ~> ~emissor[e].dentro

\* A panel that missed an event does not stay connected without it: it is
\* disconnected, and reads the state anew when it comes back.
PerdeuDesconecta == \A c \in Clientes : perdeu[c] ~> conn[c] = "fechada"

\* Once a connection is gone, its pumps end, its channel is closed and the hub
\* forgets it, whichever of the goroutines notices first.
NadaVaza ==
    \A c \in Clientes :
        conn[c] # "aberta" ~>
           /\ readPump[c] = "fim" /\ writePump[c] = "fim"
           /\ fechado[c] /\ c \notin DaEmpresa(EmpresaDe[c])
=============================================================================
