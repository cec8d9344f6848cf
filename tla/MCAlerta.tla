------------------------------ MODULE MCAlerta ------------------------------
(* Instances of Alerta for TLC.                                            *)
EXTENDS Alerta, TLC

\* What the check-ins of a run signal.
Nada   == {{}}
Um     == {{"emergencia"}}
Sinais == {{"emergencia"}, {"desvio_rota"}}

\* Clocks of devices: one minute ahead, on time, two minutes late.
Relogios == {-1, 0, 2}

\* Without the late ones.
Rapidos == {-1, 0}

Simetria == Permutations(Procs)
=============================================================================
