------------------------------ MODULE Plantao ------------------------------
(***************************************************************************)
(* What the shifts promise whoever reads their tables: each row lives one  *)
(* life.  Either a guard starts it, once and for good, and from then on it *)
(* only ends, is reopened by a late report of sabotage, and loses or gets  *)
(* the device it is run from; or it records an absence and never changes.  *)
(* A step touches one shift, and either its row or what was noted of it    *)
(* (check-ins, alerts, the event on the panel), never both.                *)
(*                                                                         *)
(* There are no requests here: Turno, whose handlers read, check and write *)
(* in separate statements, is shown to implement this.                     *)
(***************************************************************************)
CONSTANTS
    Usuarios, Devices, Turnos,
    SemMarcas,  \* nothing was noted of a shift
    NULL

VARIABLES
    fase,    \* where each shift is in its life
    vigia,   \* whose it is
    sessao,  \* the device it is run from, or "revogada" until there is another
    marcas   \* what was noted of it

vars == <<fase, vigia, sessao, marcas>>

Init ==
    /\ fase = [t \in Turnos |-> "vago"]
    /\ vigia = [t \in Turnos |-> NULL]
    /\ sessao = [t \in Turnos |-> NULL]
    /\ marcas = [t \in Turnos |-> SemMarcas]
-----------------------------------------------------------------------------
Comecado(t) == fase[t] \in {"em_curso", "encerrado"}

Passa(t, f) == fase' = [fase EXCEPT ![t] = f]

Comecar(t, u, d) ==
    /\ fase[t] = "vago" /\ Passa(t, "em_curso")
    /\ vigia' = [vigia EXCEPT ![t] = u]
    /\ sessao' = [sessao EXCEPT ![t] = d]
    /\ UNCHANGED marcas

Ausentar(t, u) ==
    /\ fase[t] = "vago" /\ Passa(t, "ausente")
    /\ vigia' = [vigia EXCEPT ![t] = u]
    /\ sessao' = [sessao EXCEPT ![t] = NULL]
    /\ UNCHANGED marcas

Encerrar(t) == Comecado(t) /\ Passa(t, "encerrado") /\ UNCHANGED <<vigia, sessao, marcas>>

Reabrir(t) == Comecado(t) /\ Passa(t, "em_curso") /\ UNCHANGED <<vigia, sessao, marcas>>

MudarSessao(t, s) ==
    /\ Comecado(t)
    /\ sessao' = [sessao EXCEPT ![t] = s]
    /\ UNCHANGED <<fase, vigia, marcas>>

Revogar(t) == MudarSessao(t, "revogada")

Reassociar(t, d) == MudarSessao(t, d)

Marcar(t) ==
    /\ Comecado(t)
    /\ marcas' = [marcas EXCEPT ![t] = marcas'[t]]
    /\ UNCHANGED <<fase, vigia, sessao>>

Next ==
    \E t \in Turnos :
       \/ \E u \in Usuarios : Ausentar(t, u) \/ (\E d \in Devices : Comecar(t, u, d))
       \/ Encerrar(t) \/ Reabrir(t) \/ Revogar(t) \/ Marcar(t)
       \/ \E d \in Devices : Reassociar(t, d)

Spec == Init /\ [][Next]_vars
=============================================================================
