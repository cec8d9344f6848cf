----------------------------- MODULE MCAusencia -----------------------------
(* Instances of Ausencia for TLC.  Days have five hours, or six with Noturna. *)
EXTENDS Ausencia

CONSTANTS u1, k1

Semanal(dia, inicio, ate, fim) ==
    [sub |-> FALSE, usuario |-> u1, posto |-> k1, de |-> dia, ate |-> ate,
     inicio |-> inicio, fim |-> fim, tol |-> 1]

\* Sunday by day and by night, and a substitution on Saturday and Sunday: the clock
\* begins on Sunday, so Saturday is date -1.
Domingo == Semanal(0, 1, 0, 3)
Noturna == Semanal(0, 4, 1, 2)
Troca   == [sub |-> TRUE, usuario |-> u1, posto |-> k1, de |-> -1, ate |-> 0,
            inicio |-> 1, fim |-> 2, tol |-> 1]
\* Saturday 24:00, where days have five hours, to Sunday.
Virada  == Semanal(6, 5, 0, 2)

Diurnos == {Domingo, Virada, Troca}
Um      == {Troca}
ComNoite == {Domingo, Noturna}
=============================================================================
