---------------------------- MODULE Ocorrencias ----------------------------
(***************************************************************************)
(* What the alerts of a shift promise the people who are told of them, and *)
(* whoever reads their table: an alert is raised open, keeps its type, and *)
(* once acknowledged or closed is never open again (though one that was    *)
(* closed may still be acknowledged); while a delay is open no other is    *)
(* raised.  Somebody is told of an alert at most once, in the order they   *)
(* joined the queue, which is not always the order they were raised in;    *)
(* unless it was lost, for good: when it was to join the queue, because    *)
(* that was full, or when the server stopped, with all the others of the   *)
(* queue and those on their way there.                                     *)
(*                                                                         *)
(* There are no requests or workers here: Alerta, whose actors count,      *)
(* decide, write and send in separate statements, is shown to implement    *)
(* this.                                                                   *)
(***************************************************************************)
EXTENDS Naturals, Sequences

CONSTANTS
    Tipos,
    Alheia,     \* stands for the alerts of other shifts, in the queue
    Capacidade  \* of the queue

VARIABLES
    lista,     \* type and status of each alert, in the order they were raised
    maos,      \* alerts on their way to the queue
    fila,      \* alerts of which somebody is still to be told
    avisadas,  \* alerts of which somebody was told
    perdidas   \* alerts of which nobody will be

vars == <<lista, maos, fila, avisadas, perdidas>>

\* Alerts of an earlier release may be there, but no open delay.
Init ==
    /\ lista \in Seq([tipo : Tipos \ {"atraso"}, status : {"aberto", "reconhecido", "fechado"}])
    /\ maos = {}
    /\ fila = <<>>
    /\ avisadas = {}
    /\ perdidas = {}
-----------------------------------------------------------------------------
AtrasoAberto == \E a \in DOMAIN lista : lista[a].tipo = "atraso" /\ lista[a].status = "aberto"

Cheia == Len(fila) >= Capacidade

\* The new alert is for nobody, or on its way to the queue.
Levantar(tipo) ==
    /\ tipo = "atraso" => ~AtrasoAberto
    /\ lista' = Append(lista, [tipo |-> tipo, status |-> "aberto"])
    /\ maos' \in {maos, maos \cup {Len(lista) + 1}}
    /\ UNCHANGED <<fila, avisadas, perdidas>>

\* Somebody acknowledges alerts, or they are closed.
Tratar(ids, status) ==
    /\ lista' = [a \in DOMAIN lista |->
                   IF a \in ids THEN [lista[a] EXCEPT !.status = status] ELSE lista[a]]
    /\ UNCHANGED <<maos, fila, avisadas, perdidas>>

\* The alerts on their way come in any order; a full queue takes none.
Enfileirar(a) ==
    /\ a \in maos
    /\ maos' = maos \ {a}
    /\ \/ ~Cheia /\ fila' = Append(fila, a) /\ UNCHANGED perdidas
       \/ Cheia /\ perdidas' = perdidas \cup {a} /\ UNCHANGED fila
    /\ UNCHANGED <<lista, avisadas>>

Ocupar ==
    /\ ~Cheia
    /\ fila' = Append(fila, Alheia)
    /\ UNCHANGED <<lista, maos, avisadas, perdidas>>

Avisar ==
    /\ fila # <<>>
    /\ fila' = Tail(fila)
    /\ avisadas' = (avisadas \cup {Head(fila)}) \ {Alheia}
    /\ UNCHANGED <<lista, maos, perdidas>>

Parar ==
    /\ fila' = <<>>
    /\ maos' = {}
    /\ perdidas' = perdidas \cup maos \cup ({fila[i] : i \in DOMAIN fila} \ {Alheia})
    /\ UNCHANGED <<lista, avisadas>>

Next ==
    \/ \E tipo \in Tipos : Levantar(tipo)
    \/ \E ids \in SUBSET DOMAIN lista, status \in {"reconhecido", "fechado"} : Tratar(ids, status)
    \/ \E a \in maos : Enfileirar(a)
    \/ Ocupar \/ Avisar \/ Parar

Spec == Init /\ [][Next]_vars
=============================================================================
